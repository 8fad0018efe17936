--------------------------- MODULE PollCycle_proofs ---------------------------
(* Theorems about PollCycle and PollObserver, for all values of their        *)
(* constants.                                                                *)
EXTENDS PollObserver, FiniteSetTheorems, TLAPS

-----------------------------------------------------------------------------
(* The pure decisions stay within the states of the matrix.                  *)

LEMMA CheckTargetType ==
    ASSUME NEW reachable \in BOOLEAN, NEW over \in BOOLEAN
    PROVE  CheckTarget(reachable, over) \in HostState
BY DEF CheckTarget, HostState

LEMMA ExtendType ==
    ASSUME NEW t \in Nat \ {0}, NEW s \in 0..t
    PROVE  Extend(s, t) \in 0..t
BY DEF Extend

LEMMA ReadHostsType ==
    ASSUME TypeOK
    PROVE  ReadHosts \in Lists
BY DEF TypeOK, ReadHosts, Lists

LEMMA EmptyListsType ==
    /\ NoState \in [Hosts -> HostState]
    /\ NoSnap \in Snaps /\ NoList \in Lists
    /\ NoPending \in [host : Hosts \cup {NoHost}, to : HostState]
BY DEF NoState, NoSnap, NoList, NoPending, Snaps, Lists, HostState

LEMMA RestartType ==
    /\ [h \in Hosts |-> 0] \in [Hosts -> 0..FailThreshold]
    /\ [h \in Hosts |-> 0] \in [Hosts -> 0..RecoverThreshold]
    /\ NotApplying \in [record : Records \cup {NoRecord}, host : Hosts \cup {NoHost}]
BY ThresholdAssumption DEF NotApplying

-----------------------------------------------------------------------------
(* What the parts several actions share keep.                                *)

LocalsType ==
    /\ pc \in Labels
    /\ snap \in Snaps
    /\ todo \in SUBSET Hosts
    /\ pending \in [host : Hosts \cup {NoHost}, to : HostState]
    /\ reach \in SUBSET Hosts
    /\ list \in Lists
    /\ attempt \in 0..MaxElectRetries
    /\ prevId \in Hosts \cup {NoHost}
    /\ leader \in Hosts \cup {NoHost}

LEMMA ReturnType ==
    ASSUME Return
    PROVE  LocalsType'
BY BoundAssumption, EmptyListsType DEF Return, LocalsType, Labels

LEMMA BeginTransitionType ==
    ASSUME NEW h \in Hosts \cup {NoHost}, NEW to \in HostState,
           NEW writing \in Labels, NEW returned \in Labels,
           BeginTransition(h, to, writing, returned)
    PROVE  /\ pc' \in Labels
           /\ pending' \in [host : Hosts \cup {NoHost}, to : HostState]
BY EmptyListsType DEF BeginTransition

LEMMA EndTransitionType ==
    ASSUME TypeOK, NEW returned \in Labels, EndTransition(returned)
    PROVE  /\ pc' \in Labels
           /\ pending' \in [host : Hosts \cup {NoHost}, to : HostState]
           /\ state' \in [Hosts -> HostState]
BY EmptyListsType DEF EndTransition, TypeOK

-----------------------------------------------------------------------------
(* TypeOK is preserved: by the poller's actions, then by the handlers'.      *)

LEMMA PollType ==
    ASSUME TypeOK, RoundLeft, Poll
    PROVE  TypeOK'
<1> USE DEF TypeOK
<1>1. CASE LoadSnapshot
  BY <1>1 DEF LoadSnapshot, Snaps, Labels, database, world, streaks
<1>2. ASSUME NEW h \in Hosts, CheckHost(h)
      PROVE  TypeOK'
  <2>1. NextFails(h) \in 0..FailThreshold /\ NextHits(h) \in 0..RecoverThreshold
    BY ThresholdAssumption, ExtendType DEF NextFails, NextHits
  <2>2. CheckTarget(CheckVerdict(h), h \in snap.over) \in HostState
    BY DEF CheckTarget, HostState
  <2>3. pc' \in Labels /\ pending' \in [host : Hosts \cup {NoHost}, to : HostState]
    BY <1>2, <2>2, BeginTransitionType DEF CheckHost, Labels
  <2> QED
    BY <1>2, <2>1, <2>3 DEF CheckHost, database, world
<1>3. CASE ApplyResult
  <2>1. /\ pc' \in Labels
        /\ pending' \in [host : Hosts \cup {NoHost}, to : HostState]
        /\ state' \in [Hosts -> HostState]
    BY <1>3, EndTransitionType DEF ApplyResult, Labels
  <2> QED
    BY <1>3, <2>1 DEF ApplyResult, world, streaks
<1>4. CASE EvaluateCircuit
  <2>1. circuitOpen' \in BOOLEAN
    BY <1>4 DEF EvaluateCircuit, AllDown
  <2>2. notice' \in {"none", "circuit_open", "circuit_close", "leader_changed"}
    BY <1>4 DEF EvaluateCircuit
  <2>3. leaderId' \in Hosts \cup {NoHost}
    BY <1>4 DEF EvaluateCircuit
  <2>4. LocalsType'
    <3>1. CASE Return
      BY <3>1, ReturnType
    <3>2. CASE ~Return
      BY <1>4, <3>2, ReadHostsType, EmptyListsType DEF EvaluateCircuit, LocalsType, Labels
    <3> QED
      BY <3>1, <3>2
  <2> QED
    BY <1>4, <2>1, <2>2, <2>3, <2>4 DEF EvaluateCircuit, LocalsType, world, streaks
<1>5. CASE ReloadFails
  BY <1>5, ReturnType DEF ReloadFails, LocalsType, database, world, streaks
<1>6. CASE ElectNobody
  BY <1>6, ReturnType DEF ElectNobody, AllDown, LocalsType, database, world, streaks
<1>7. CASE KeepLeader
  BY <1>7, ReturnType DEF KeepLeader, LocalsType, database, world, streaks
<1>8. ASSUME NEW h \in Hosts, ElectLeader(h)
      PROVE  TypeOK'
  BY <1>8 DEF ElectLeader, Labels, database, world, streaks
<1>9. CASE GiveUp
  BY <1>9, ReturnType DEF GiveUp, LocalsType, database, world, streaks
<1>10. CASE Disconnect
  BY <1>10 DEF Disconnect, Labels, database, streaks, locals
<1>11. CASE ClearCommands
  BY <1>11 DEF ClearCommands, Labels, world, streaks, locals
<1>12. CASE VerifyLeader
  <2>1. pc' \in Labels /\ pending' \in [host : Hosts \cup {NoHost}, to : HostState]
    BY <1>12, BeginTransitionType DEF VerifyLeader, SwitchFirst, Labels, HostState
  <2> QED
    BY <1>12, <2>1 DEF VerifyLeader, database, world, streaks
<1>13. CASE ConnectSucceeds
  BY <1>13 DEF ConnectSucceeds, Labels, Lists, streaks, locals
<1>14. CASE ConnectFails
  <2>1. pc' \in Labels /\ pending' \in [host : Hosts \cup {NoHost}, to : HostState]
    BY <1>14, BeginTransitionType DEF ConnectFails, Labels, HostState
  <2> QED
    BY <1>14, <2>1 DEF ConnectFails, database, world, streaks
<1>15. CASE DemoteLeader
  <2>1. /\ pc' \in Labels
        /\ pending' \in [host : Hosts \cup {NoHost}, to : HostState]
        /\ state' \in [Hosts -> HostState]
    BY <1>15, EndTransitionType DEF DemoteLeader, Labels
  <2> QED
    BY <1>15, <2>1 DEF DemoteLeader, world, streaks
<1>16. CASE Retry
  BY <1>16, ReadHostsType, BoundAssumption
     DEF Retry, RoundLeft, InRound, NextAttempt, NextPrev, Labels, database, world, streaks
<1>17. CASE UpdateDns
  BY <1>17, SetsAssumption DEF UpdateDns, Pointed, Labels, database, streaks, locals
<1>18. CASE UnflagOthers
  BY <1>18 DEF UnflagOthers, KeptFlags, Labels, world, streaks, locals
<1>19. CASE FlagLeader
  BY <1>19 DEF FlagLeader, Labels, world, streaks, locals
<1>20. CASE RecordLeader
  BY <1>20, ReturnType DEF RecordLeader, Recorded, LocalsType, world, streaks
<1> QED
  BY <1>1, <1>2, <1>3, <1>4, <1>5, <1>6, <1>7, <1>8, <1>9, <1>10, <1>11, <1>12,
     <1>13, <1>14, <1>15, <1>16, <1>17, <1>18, <1>19, <1>20 DEF Poll

LEMMA EventCount ==
    ASSUME TypeOK, NEW kind, Happens(kind)
    PROVE  events' \in 0..MaxEvents
BY BoundAssumption DEF TypeOK, Happens

LEMMA EnvironmentType ==
    ASSUME TypeOK, Environment
    PROVE  TypeOK'
<1> USE DEF TypeOK, Poller, streaks, locals
<1>1. ASSUME NEW h \in Hosts, CreateHost(h)
      PROVE  TypeOK'
  BY <1>1, EventCount DEF CreateHost, world, HostState
<1>2. ASSUME NEW h \in Hosts, DeleteHost(h)
      PROVE  TypeOK'
  BY <1>2, EventCount DEF DeleteHost, world
<1>3. ASSUME NEW h \in Hosts, EditCommands(h)
      PROVE  TypeOK'
  BY <1>3, EventCount DEF EditCommands, world
<1>4. ASSUME NEW h \in Hosts, EditFlag(h)
      PROVE  TypeOK'
  BY <1>4, EventCount DEF EditFlag, world
<1>5. ASSUME NEW h \in Hosts, NEW s \in HostState, ForceSet(h, s)
      PROVE  TypeOK'
  BY <1>5, EventCount DEF ForceSet, world
<1>6. ASSUME NEW r \in Records, BeginApply(r)
      PROVE  TypeOK'
  BY <1>6, EventCount DEF BeginApply, Best, Ready, ReadHosts, database, world
<1>7. CASE EndApply
  BY <1>7 DEF EndApply, NotApplying, database
<1>8. CASE Crash
  <2>1. LocalsType'
    BY <1>8, ReturnType DEF Crash
  <2> QED
    BY <1>8, <2>1, EventCount, RestartType DEF Crash, LocalsType, database, world
<1> QED
  BY <1>1, <1>2, <1>3, <1>4, <1>5, <1>6, <1>7, <1>8 DEF Environment

LEMMA TypeInit == Init => TypeOK /\ RoundLeft
<1> SUFFICES ASSUME Init
             PROVE  TypeOK /\ RoundLeft
  OBVIOUS
<1>1. rows \in SUBSET Hosts /\ leaderFlag \in SUBSET rows /\ commands \in SUBSET rows
  BY SetsAssumption DEF Init
<1>2. dns \in [Records -> Hosts \cup {NoHost}]
  BY DEF Init
<1>3. attempt \in 0..MaxElectRetries /\ events \in 0..MaxEvents
  BY BoundAssumption DEF Init
<1>4. pc \in Labels /\ RoundLeft
  BY DEF Init, Labels, RoundLeft, InRound
<1> QED
  BY <1>1, <1>2, <1>3, <1>4, RestartType, EmptyListsType DEF Init, TypeOK

(* RunOnce's election is entered at most maxElectRetries times: a round that *)
(* is under way was entered below the bound.                                 *)
LEMMA RoundStep ==
    ASSUME TypeOK, RoundLeft, [Next]_vars
    PROVE  RoundLeft'
<1> USE DEF RoundLeft, InRound
<1>1. CASE Poll
  <2>1. CASE \/ LoadSnapshot \/ (\E h \in Hosts : CheckHost(h)) \/ ApplyResult
            \/ EvaluateCircuit
    BY <2>1 DEF LoadSnapshot, CheckHost, ApplyResult, EvaluateCircuit, Return,
                BeginTransition, EndTransition
  <2>2. CASE ReloadFails \/ ElectNobody \/ KeepLeader \/ GiveUp \/ RecordLeader
    BY <2>2 DEF ReloadFails, ElectNobody, KeepLeader, GiveUp, RecordLeader, Return
  <2>3. CASE \E h \in Hosts : ElectLeader(h)
    BY <2>3 DEF ElectLeader, MayElect
  <2>4. CASE \/ Disconnect \/ ClearCommands \/ VerifyLeader \/ ConnectSucceeds
            \/ ConnectFails \/ DemoteLeader
    BY <2>4 DEF Disconnect, ClearCommands, VerifyLeader, SwitchFirst, ConnectSucceeds,
                ConnectFails, DemoteLeader, BeginTransition, EndTransition, locals
  <2>5. CASE Retry \/ UpdateDns \/ UnflagOthers \/ FlagLeader
    BY <2>5 DEF Retry, UpdateDns, UnflagOthers, FlagLeader, locals
  <2> QED
    BY <1>1, <2>1, <2>2, <2>3, <2>4, <2>5 DEF Poll
<1>2. CASE Environment
  BY <1>2 DEF Environment, CreateHost, DeleteHost, EditCommands, EditFlag, ForceSet,
              BeginApply, EndApply, Crash, Return, Poller, locals
<1>3. CASE UNCHANGED vars
  BY <1>3 DEF vars, locals
<1> QED
  BY <1>1, <1>2, <1>3 DEF Next

LEMMA TypeStep == TypeOK /\ RoundLeft /\ [Next]_vars => TypeOK' /\ RoundLeft'
<1> SUFFICES ASSUME TypeOK, RoundLeft, [Next]_vars
             PROVE  TypeOK' /\ RoundLeft'
  OBVIOUS
<1>1. RoundLeft'
  BY RoundStep
<1>2. CASE Poll
  BY <1>1, <1>2, PollType
<1>3. CASE Environment
  BY <1>1, <1>3, EnvironmentType
<1>4. CASE UNCHANGED vars
  BY <1>1, <1>4 DEF TypeOK, vars, database, world, streaks, locals
<1> QED
  BY <1>2, <1>3, <1>4 DEF Next

(* Type correctness of the poller and its tables, whatever fails and         *)
(* whichever handlers and crashes interleave with the polls; with it, the    *)
(* bound on the rounds of an election.                                       *)
THEOREM TypeCorrect == Spec => [](TypeOK /\ RoundLeft)
BY TypeInit, TypeStep, PTL DEF Spec

-----------------------------------------------------------------------------
(* One leader.                                                               *)

LEMMA OneLeaderStep ==
    ASSUME "flag" \notin Events, ~StorageErrors,
           AtMostOneLeader, OnlyLeaderFlagged, [Next]_vars
    PROVE  AtMostOneLeader' /\ OnlyLeaderFlagged'
<1> USE DEF AtMostOneLeader, OnlyLeaderFlagged
<1>1. CASE Poll
  <2>1. CASE UnflagOthers
    BY <2>1 DEF UnflagOthers, KeptFlags, locals
  <2>2. CASE FlagLeader
    BY <2>2 DEF FlagLeader
  <2>3. CASE \/ LoadSnapshot \/ (\E h \in Hosts : CheckHost(h)) \/ ApplyResult
            \/ EvaluateCircuit \/ ReloadFails
    BY <2>3 DEF LoadSnapshot, CheckHost, ApplyResult, EvaluateCircuit, ReloadFails,
                Return, BeginTransition, EndTransition, database
  <2>4. CASE \/ ElectNobody \/ KeepLeader \/ (\E h \in Hosts : ElectLeader(h))
            \/ GiveUp
    BY <2>4 DEF ElectNobody, KeepLeader, ElectLeader, GiveUp, Return, database
  <2>5. CASE \/ Disconnect \/ ClearCommands \/ VerifyLeader \/ ConnectSucceeds
            \/ ConnectFails \/ DemoteLeader \/ Retry \/ UpdateDns \/ RecordLeader
    BY <2>5 DEF Disconnect, ClearCommands, VerifyLeader, SwitchFirst, ConnectSucceeds,
                ConnectFails, DemoteLeader, Retry, UpdateDns, RecordLeader,
                Return, BeginTransition, EndTransition, database
  <2> QED
    BY <1>1, <2>1, <2>2, <2>3, <2>4, <2>5 DEF Poll
<1>2. CASE Environment
  <2>1. ASSUME NEW h \in Hosts, CreateHost(h) \/ DeleteHost(h) \/ EditCommands(h)
        PROVE  AtMostOneLeader' /\ OnlyLeaderFlagged'
    BY <2>1 DEF CreateHost, DeleteHost, EditCommands, Poller, locals
  <2>2. ASSUME NEW h \in Hosts, EditFlag(h)
        PROVE  FALSE
    BY <2>2 DEF EditFlag, Happens
  <2>3. ASSUME NEW h \in Hosts, NEW s \in HostState, ForceSet(h, s)
        PROVE  AtMostOneLeader' /\ OnlyLeaderFlagged'
    BY <2>3 DEF ForceSet, Poller, locals
  <2>4. CASE (\E r \in Records : BeginApply(r)) \/ EndApply \/ Crash
    BY <2>4 DEF BeginApply, EndApply, Crash, Return, Poller, locals, database
  <2> QED
    BY <1>2, <2>1, <2>2, <2>3, <2>4 DEF Environment
<1>3. CASE UNCHANGED vars
  BY <1>3 DEF vars, database, locals
<1> QED
  BY <1>1, <1>2, <1>3 DEF Next

(* Two hosts never carry is_leader at once, at any moment of a poll, through *)
(* crashes and any handler but a request that carries the flag itself; a     *)
(* failing UPDATE is excluded, since the code ignores its error.             *)
THEOREM OneLeader ==
    ASSUME "flag" \notin Events, ~StorageErrors
    PROVE  Spec => []AtMostOneLeader
<1>1. Init => AtMostOneLeader /\ OnlyLeaderFlagged
  BY DEF Init, AtMostOneLeader, OnlyLeaderFlagged
<1>2. AtMostOneLeader /\ OnlyLeaderFlagged /\ [Next]_vars
         => AtMostOneLeader' /\ OnlyLeaderFlagged'
  BY OneLeaderStep
<1> QED
  BY <1>1, <1>2, PTL DEF Spec

-----------------------------------------------------------------------------
(* The rows live by HostLifecycle.                                           *)

LEMMA TransitionsLegal ==
    ASSUME "force" \notin Events, TypeOK, PendingLegal, [Next]_vars
    PROVE  PendingLegal'
<1> USE DEF TypeOK, PendingLegal
<1>1. CASE Poll
  <2>1. ASSUME NEW h \in Hosts, CheckHost(h)
        PROVE  PendingLegal'
    BY <2>1 DEF CheckHost, BeginTransition, Wanted, database
  <2>2. CASE VerifyLeader \/ ConnectFails
    BY <2>2 DEF VerifyLeader, SwitchFirst, ConnectFails, BeginTransition, Wanted,
                database
  <2>3. CASE ApplyResult \/ DemoteLeader
    BY <2>3 DEF ApplyResult, DemoteLeader, EndTransition
  <2>4. CASE LoadSnapshot \/ EvaluateCircuit \/ ReloadFails
    BY <2>4 DEF LoadSnapshot, EvaluateCircuit, ReloadFails, Return
  <2>5. CASE \/ ElectNobody \/ KeepLeader \/ (\E h \in Hosts : ElectLeader(h))
            \/ GiveUp
    BY <2>5 DEF ElectNobody, KeepLeader, ElectLeader, GiveUp, Return
  <2>6. CASE \/ Disconnect \/ ClearCommands \/ ConnectSucceeds \/ Retry \/ UpdateDns
            \/ UnflagOthers \/ FlagLeader \/ RecordLeader
    BY <2>6 DEF Disconnect, ClearCommands, ConnectSucceeds, Retry, UpdateDns,
                UnflagOthers, FlagLeader, RecordLeader, Return
  <2> QED
    BY <1>1, <2>1, <2>2, <2>3, <2>4, <2>5, <2>6 DEF Poll
<1>2. CASE Environment
  <2>1. ASSUME NEW h \in Hosts, CreateHost(h)
        PROVE  PendingLegal'
    BY <2>1 DEF CreateHost, Poller, locals
  <2>2. ASSUME NEW h \in Hosts, DeleteHost(h) \/ EditCommands(h) \/ EditFlag(h)
        PROVE  PendingLegal'
    BY <2>2 DEF DeleteHost, EditCommands, EditFlag, Poller, locals
  <2>3. ASSUME NEW h \in Hosts, NEW s \in HostState, ForceSet(h, s)
        PROVE  FALSE
    BY <2>3 DEF ForceSet, Happens
  <2>4. CASE (\E r \in Records : BeginApply(r)) \/ EndApply \/ Crash
    BY <2>4 DEF BeginApply, EndApply, Crash, Return, Poller, locals, database
  <2> QED
    BY <1>2, <2>1, <2>2, <2>3, <2>4 DEF Environment
<1>3. CASE UNCHANGED vars
  BY <1>3 DEF vars, database, locals
<1> QED
  BY <1>1, <1>2, <1>3 DEF Next

LEMMA LifecycleStutters ==
    ASSUME UNCHANGED <<rows, state, born>>
    PROVE  UNCHANGED <<[h \in rows |-> state[h]], born>>
OBVIOUS

LEMMA LegalIsMove ==
    ASSUME TypeOK, NEW g \in rows, NEW s \in HostState,
           s \in ValidTransitions[state[g]],
           rows' = rows, born' = born, state' = [state EXCEPT ![g] = s]
    PROVE  Lifecycle!Next
<1>1. rows \subseteq Hosts /\ state \in [Hosts -> HostState]
  BY DEF TypeOK
<1>2. s \in Lifecycle!Legal[state[g]] /\ s \in {"ready", "full", "dead"}
  BY <1>1 DEF ValidTransitions, Lifecycle!Legal, HostState
<1>3. state' = [h \in Hosts |-> IF h = g THEN s ELSE state[h]]
  BY <1>1
<1>4. [h \in rows |-> state[h]]' = [[h \in rows |-> state[h]] EXCEPT ![g] = s]
  BY <1>1, <1>3
<1>5. DOMAIN [h \in rows |-> state[h]] = rows /\ [h \in rows |-> state[h]][g] = state[g]
  OBVIOUS
<1>6. Lifecycle!Move(g, s)
  BY <1>2, <1>4, <1>5 DEF Lifecycle!Move, Lifecycle!Existing
<1> QED
  BY <1>1, <1>2, <1>6 DEF Lifecycle!Next

(* The second half of a transition is a Move, or a stutter when the row is   *)
(* gone or the UPDATE fails.                                                 *)
LEMMA WriteIsMove ==
    ASSUME TypeOK, PendingLegal, ApplyResult \/ DemoteLeader
    PROVE  [Lifecycle!Next]_<<[h \in rows |-> state[h]], born>>
<1>1. rows' = rows /\ born' = born
  BY DEF ApplyResult, DemoteLeader
<1>2. CASE state' = state
  BY <1>1, <1>2
<1>3. CASE pending.host \in rows /\ state' = [state EXCEPT ![pending.host] = pending.to]
  <2>1. PICK g \in rows, s \in HostState : g = pending.host /\ s = pending.to
    BY <1>3 DEF TypeOK
  <2>2. s \in ValidTransitions[state[g]]
    BY <2>1 DEF PendingLegal, IsValidTransition, ApplyResult, DemoteLeader
  <2>3. state' = [state EXCEPT ![g] = s]
    BY <1>3, <2>1
  <2> QED
    BY <1>1, <2>2, <2>3, LegalIsMove
<1> QED
  BY <1>2, <1>3 DEF ApplyResult, DemoteLeader, EndTransition

LEMMA CreateIsCreate ==
    ASSUME TypeOK, NEW g \in Hosts, CreateHost(g)
    PROVE  Lifecycle!Next
<1>1. state' = [h \in Hosts |-> IF h = g THEN "ready" ELSE state[h]]
  BY DEF TypeOK, CreateHost
<1>2. [h \in rows |-> state[h]]'
        = [h \in rows \cup {g} |-> IF h = g THEN "ready" ELSE [k \in rows |-> state[k]][h]]
  BY <1>1 DEF CreateHost, TypeOK
<1>3. Lifecycle!Create(g)
  BY <1>2 DEF Lifecycle!Create, Lifecycle!Existing, CreateHost
<1> QED
  BY <1>3 DEF Lifecycle!Next

LEMMA DeleteIsDelete ==
    ASSUME TypeOK, NEW g \in Hosts, DeleteHost(g)
    PROVE  Lifecycle!Next
<1>1. [h \in rows |-> state[h]]' = [h \in rows \ {g} |-> [k \in rows |-> state[k]][h]]
  BY DEF DeleteHost
<1>2. Lifecycle!Delete(g)
  BY <1>1 DEF Lifecycle!Delete, Lifecycle!Existing, DeleteHost
<1> QED
  BY <1>2 DEF Lifecycle!Next

LEMMA StepLives ==
    ASSUME "force" \notin Events, TypeOK, PendingLegal, [Next]_vars
    PROVE  [Lifecycle!Next]_<<[h \in rows |-> state[h]], born>>
<1> DEFINE Quiet == UNCHANGED <<rows, state, born>>
<1>1. CASE Poll
  <2>1. CASE ApplyResult \/ DemoteLeader
    BY <2>1, WriteIsMove
  <2>2. CASE \/ LoadSnapshot \/ (\E h \in Hosts : CheckHost(h))
            \/ EvaluateCircuit \/ ReloadFails
    <3>1. Quiet
      BY <2>2 DEF LoadSnapshot, CheckHost, EvaluateCircuit, ReloadFails, database
    <3> QED
      BY <3>1, LifecycleStutters
  <2>3. CASE \/ ElectNobody \/ KeepLeader \/ (\E h \in Hosts : ElectLeader(h))
            \/ GiveUp \/ Disconnect \/ ClearCommands \/ VerifyLeader
    <3>1. Quiet
      BY <2>3 DEF ElectNobody, KeepLeader, ElectLeader, GiveUp, Disconnect,
                  ClearCommands, VerifyLeader, database
    <3> QED
      BY <3>1, LifecycleStutters
  <2>4. CASE \/ ConnectSucceeds \/ ConnectFails \/ Retry \/ UpdateDns
            \/ UnflagOthers \/ FlagLeader \/ RecordLeader
    <3>1. Quiet
      BY <2>4 DEF ConnectSucceeds, ConnectFails, Retry, UpdateDns, UnflagOthers,
                  FlagLeader, RecordLeader, database
    <3> QED
      BY <3>1, LifecycleStutters
  <2> QED
    BY <1>1, <2>1, <2>2, <2>3, <2>4 DEF Poll
<1>2. CASE Environment
  <2>1. ASSUME NEW h \in Hosts, EditCommands(h) \/ EditFlag(h)
        PROVE  Quiet
    BY <2>1 DEF EditCommands, EditFlag
  <2>2. ASSUME NEW h \in Hosts, NEW s \in HostState, ForceSet(h, s)
        PROVE  FALSE
    BY <2>2 DEF ForceSet, Happens
  <2>3. CASE (\E r \in Records : BeginApply(r)) \/ EndApply \/ Crash
    BY <2>3 DEF BeginApply, EndApply, Crash, database
  <2> QED
    BY <1>2, <2>1, <2>2, <2>3, CreateIsCreate, DeleteIsDelete, LifecycleStutters
       DEF Environment
<1>3. CASE UNCHANGED vars
  BY <1>3, LifecycleStutters DEF vars, database
<1> QED
  BY <1>1, <1>2, <1>3 DEF Next

(* The detailed poll, with its two-statement transitions, crashes and        *)
(* failing statements, implements the lifecycle of the hosts as long as no   *)
(* state is forced by hand.                                                  *)
THEOREM MatrixHolds ==
    ASSUME "force" \notin Events
    PROVE  Spec => MatrixObeyed
<1>1. Init => Lifecycle!Init
  BY SetsAssumption DEF Init, Lifecycle!Init, NoState
<1>2. Init => PendingLegal
  BY DEF Init, PendingLegal
<1>3. TypeOK /\ PendingLegal /\ [Next]_vars => PendingLegal'
  BY TransitionsLegal
<1>4. TypeOK /\ PendingLegal /\ [Next]_vars
         => [Lifecycle!Next]_<<[h \in rows |-> state[h]], born>>
  BY StepLives
<1> QED
  BY <1>1, <1>2, <1>3, <1>4, TypeCorrect, PTL DEF Spec, MatrixObeyed, Lifecycle!Spec

-----------------------------------------------------------------------------
(* What the switch to a new leader relies on.                                *)

Switch == {"disconnect", "clear", "verify", "connect", "ddns", "unflag", "flag",
           "record"}

Electing == Switch \cup {"elect"}

(* Only hosts that exist, or have existed, are named.                        *)
Known ==
    /\ list.rows \subseteq born /\ snap.rows \subseteq born
    /\ leaderId \in born \cup {NoHost} /\ prevId \in born \cup {NoHost}

(* The leader is the best ready host of the list.                            *)
Elected == pc \in Switch => leader \in Best(Ready(list))

(* A reachable host is disconnected, and the commands taken away are those   *)
(* of an exhausted host of the list.                                         *)
Leaving ==
    /\ pc = "disconnect" => prevId \in reach
    /\ pc \in {"disconnect", "clear"} => prevId \in list.rows
    /\ pc = "clear" => list.state[prevId] \in Exhausted

(* The list stays true of the states, the rows and the commands.             *)
StatesCurrent ==
    pc \in Electing => \A h \in list.rows : list.state[h] = state[h]
RowsCurrent == pc \in Electing => list.rows = rows
CommandsCurrent == pc \in Electing => commands \cap list.rows \subseteq list.commands

(* Nothing is applied; a record is about to follow a host in service.        *)
InService ==
    /\ applying = NotApplying
    /\ pc = "ddns" => leader \in connected \/ leader \notin commands

(* The flags and the record of the leader change together.                   *)
FlagsFollow ==
    /\ pc = "flag" => leaderFlag \subseteq {leader}
    /\ pc = "record" => leaderFlag = {leader} \cap rows
    /\ pc \notin {"flag", "record"} => leaderFlag = {leaderId} \cap rows

(* Its DNS record changes with it.                                           *)
PointsAt(h) == h # NoHost /\ RecordOf[h] # NoRecord => dns[RecordOf[h]] = h
RecordsFollow ==
    /\ applying = NotApplying
    /\ IF pc \in {"unflag", "flag", "record"} THEN PointsAt(leader) ELSE PointsAt(leaderId)

(* The hosts an election can fail on: commands fail there, or they may have  *)
(* been created when the poll had read its snapshot.                         *)
Doubtful == Fragile \cup {h \in Hosts \ InitialHosts : "create" \in Events}

(* The states of the hosts still to be checked are those of the snapshot.  A *)
(* host that has been checked and is not dead was found reachable, unless it *)
(* is just being marked dead or doubtful, and so were the ready hosts of the *)
(* list.                                                                     *)
Marking(h, to) == pc = "apply" /\ pending.host = h /\ pending.to = to
Reached ==
    /\ InitialHosts \subseteq born /\ todo \subseteq born
    /\ pc \notin {"check", "apply"} => todo = {}
    /\ \A h \in rows \cap todo : snap.state[h] = state[h]
    /\ pc # "idle" => \A h \in rows \ todo :
          h \in reach \/ state[h] = "dead" \/ Marking(h, "dead") \/ h \in Doubtful
    /\ pc = "apply" => /\ pending.host \notin todo
                       /\ pending.host \in reach \/ pending.to = "dead"
    /\ pc = "demote" => pending.to = "dead"
    /\ pc \in Electing => Ready(list) \subseteq reach \cup Doubtful

(* While leaders are elected the circuit is closed, the leader on record is  *)
(* a host of the table, and a poll's first round knows it.                   *)
Rounds == Electing \cup {"demote", "retry"}
Closed == pc \in Rounds => ~circuitOpen
Recalled == pc \in Electing => prevId \in {leaderId, NoHost}
Recollected == leaderId \in rows \cup {NoHost} /\ Recalled

(* Each round that failed has left another doubtful host dead or deleted,    *)
(* none of them among those the present round chooses from.                  *)
Spent(h) == h \in born /\ (h \in rows => state[h] = "dead")
SpentAmong(S, n) == \E D \in SUBSET S : Cardinality(D) = n /\ \A h \in D : Spent(h)
RoundsFailed ==
    /\ pc \notin Rounds => attempt = 0
    /\ pc \in Electing => SpentAmong(Doubtful \ Ready(list), attempt)
    /\ pc = "demote" => /\ pending = [host |-> leader, to |-> "dead"]
                        /\ leader \in Doubtful \cap born
                        /\ SpentAmong(Doubtful \ {leader}, attempt)
    /\ pc = "retry" => SpentAmong(Doubtful, attempt + 1)
NotGivingUp == pc = "elect" => MayElect

(* The host that is being installed has been connected, and so has the       *)
(* leader on record: or it has been disconnected for another one, and then   *)
(* it loses its commands next or can be elected again.                       *)
Connected(h) == h \in commands => h \in connected
StandsBy(h) == h \in reach \cap list.rows /\ state[h] = "ready"
LeaderConnected ==
    /\ pc \in {"unflag", "flag", "record", "ddns"} => Connected(leader)
    /\ \/ Connected(leaderId)
       \/ pc = "clear" /\ prevId = leaderId
       \/ pc \in Rounds /\ StandsBy(leaderId)
    /\ pc = "elect" /\ prevId # NoHost => Connected(leaderId)
    /\ pc = "demote" /\ leaderId \in reach => pending.host # leaderId

(* Until a round has failed the poll knows the leader on record, and it      *)
(* elects another one.                                                       *)
Afresh ==
    /\ pc \in Electing /\ attempt = 0 => prevId = leaderId
    /\ pc \in Switch => leader # prevId

(* A host whose commands may fail is the only doubtful one.                  *)
Sole == \A f \in Fragile, h \in Doubtful : h = f

(* The counters of PollObserver and what they say of the poller's streaks.  *)
Counted ==
    /\ misses \in [Hosts -> 0..FailThreshold]
    /\ hits \in [Hosts -> 0..RecoverThreshold]

(* No streak of a host is longer than what was observed, and the check that  *)
(* is still to come does not make it so.                                     *)
Noticed ==
    \A h \in rows :
       /\ (IF h \in todo THEN NextFails(h) ELSE failStreak[h]) <= misses[h]
       /\ (IF h \in todo THEN NextHits(h) ELSE recoverStreak[h]) <= hits[h]

(* Whoever was checked and not found reachable is dead or confirmed missing, *)
(* which StorageErrors may leave unwritten.                                  *)
MissesConfirmed(h) == misses[h] >= FailThreshold
Checked ==
    /\ pc \notin {"check", "apply"} => todo = {}
    /\ \A h \in rows \cap todo : snap.state[h] = state[h]
    /\ pc # "idle" => \A h \in rows \ todo :
          h \in reach \/ state[h] = "dead" \/ MissesConfirmed(h)

(* A verdict about to be written is confirmed.                               *)
VerdictJust ==
    LET h == pending.host
    IN  /\ pc = "apply" =>
              /\ h \notin todo
              /\ h \in rows /\ pending.to = "dead" => MissesConfirmed(h)
              /\ pending.to # "dead" => h \in reach
              /\ h \in rows /\ state[h] = "dead" /\ pending.to # "dead"
                    => hits[h] >= RecoverThreshold
        /\ pc = "connect" => leader \in reach
        /\ pc = "demote" => /\ h = leader /\ pending.to = "dead"
                            /\ leader \in rows => leader \in reach \/ MissesConfirmed(leader)

LEMMA NamesInit == Init => Known /\ Elected /\ Leaving
BY DEF Init, Known, Elected, Leaving, Switch, NoList, NoSnap

LEMMA NamesStep ==
    ASSUME TypeOK, Known, Elected, Leaving, [Next]_vars
    PROVE  Known' /\ Elected' /\ Leaving'
<1> USE DEF TypeOK, Known, Elected, Leaving, Switch
<1>1. CASE Poll
  <2>1. CASE LoadSnapshot
    BY <2>1 DEF LoadSnapshot, database
  <2>2. ASSUME NEW h \in Hosts, CheckHost(h)
        PROVE  Known' /\ Elected' /\ Leaving'
    BY <2>2 DEF CheckHost, BeginTransition, database
  <2>3. CASE ApplyResult
    BY <2>3 DEF ApplyResult, EndTransition
  <2>4. CASE EvaluateCircuit
    BY <2>4 DEF EvaluateCircuit, Return, ReadHosts, NoList, NoSnap
  <2>5. CASE ReloadFails \/ ElectNobody \/ KeepLeader \/ GiveUp
    BY <2>5 DEF ReloadFails, ElectNobody, KeepLeader, GiveUp, Return, NoList, NoSnap,
                database
  <2>6. ASSUME NEW h \in Hosts, ElectLeader(h)
        PROVE  Known' /\ Elected' /\ Leaving'
    BY <2>6 DEF ElectLeader, database
  <2>7. CASE Disconnect \/ ClearCommands
    BY <2>7 DEF Disconnect, ClearCommands, locals, database
  <2>8. CASE VerifyLeader \/ ConnectSucceeds \/ ConnectFails
    BY <2>8 DEF VerifyLeader, SwitchFirst, ConnectSucceeds, ConnectFails,
                BeginTransition, locals, database
  <2>9. CASE DemoteLeader \/ Retry
    BY <2>9 DEF DemoteLeader, Retry, EndTransition, ReadHosts, NextPrev, database
  <2>10. CASE UpdateDns \/ UnflagOthers \/ FlagLeader
    BY <2>10 DEF UpdateDns, UnflagOthers, FlagLeader, locals, database
  <2>11. CASE RecordLeader
    <3>1. leader \in list.rows
      BY <2>11 DEF RecordLeader, Best, Ready
    <3> QED
      BY <2>11, <3>1 DEF RecordLeader, Recorded, Return, NoList, NoSnap
  <2> QED
    BY <1>1, <2>1, <2>2, <2>3, <2>4, <2>5, <2>6, <2>7, <2>8, <2>9, <2>10, <2>11
       DEF Poll
<1>2. CASE Environment
  <2>1. ASSUME NEW h \in Hosts,
               CreateHost(h) \/ DeleteHost(h) \/ EditCommands(h) \/ EditFlag(h)
        PROVE  Known' /\ Elected' /\ Leaving'
    BY <2>1 DEF CreateHost, DeleteHost, EditCommands, EditFlag, Poller, locals
  <2>2. ASSUME NEW h \in Hosts, NEW s \in HostState, ForceSet(h, s)
        PROVE  Known' /\ Elected' /\ Leaving'
    BY <2>2 DEF ForceSet, Poller, locals
  <2>3. CASE (\E r \in Records : BeginApply(r)) \/ EndApply \/ Crash
    BY <2>3 DEF BeginApply, EndApply, Crash, Return, NoList, NoSnap, Poller, locals,
                database
  <2> QED
    BY <1>2, <2>1, <2>2, <2>3 DEF Environment
<1>3. CASE UNCHANGED vars
  BY <1>3 DEF vars, database, locals
<1> QED
  BY <1>1, <1>2, <1>3 DEF Next

(* The leader, read off the list it was elected from.                        *)
LEMMA ElectedIs ==
    ASSUME TypeOK, Known, Elected, pc \in Switch
    PROVE  /\ leader \in Hosts \cap born /\ leader # NoHost
           /\ leader \in list.rows /\ list.state[leader] = "ready"
           /\ \A h \in Ready(list) : Priority[leader] <= Priority[h]
BY HostAssumption DEF TypeOK, Known, Elected, Best, Ready, Lists

(* A list just read is true of the table.                                    *)
LEMMA ListRead ==
    ASSUME list' = ReadHosts
    PROVE  list'.rows = rows /\ list'.state = state /\ list'.commands = commands
BY DEF ReadHosts

LEMMA StatesCurrentStep ==
    ASSUME "force" \notin Events, TypeOK, Known, StatesCurrent, [Next]_vars
    PROVE  StatesCurrent'
<1> USE DEF StatesCurrent, Electing, Switch
<1>1. CASE Poll
  <2>1. CASE LoadSnapshot \/ (\E h \in Hosts : CheckHost(h)) \/ ApplyResult
    BY <2>1 DEF LoadSnapshot, CheckHost, ApplyResult, BeginTransition, EndTransition
  <2>2. CASE EvaluateCircuit \/ Retry
    BY <2>2, ListRead DEF EvaluateCircuit, Return, Retry, database
  <2>3. CASE ReloadFails \/ ElectNobody \/ KeepLeader \/ GiveUp \/ RecordLeader
    BY <2>3 DEF ReloadFails, ElectNobody, KeepLeader, GiveUp, RecordLeader, Return
  <2>4. CASE \/ (\E h \in Hosts : ElectLeader(h)) \/ Disconnect \/ ClearCommands
            \/ ConnectSucceeds \/ UpdateDns \/ UnflagOthers \/ FlagLeader
    BY <2>4 DEF ElectLeader, Disconnect, ClearCommands, ConnectSucceeds, UpdateDns,
                UnflagOthers, FlagLeader, locals, database
  <2>5. CASE VerifyLeader \/ ConnectFails \/ DemoteLeader
    BY <2>5 DEF VerifyLeader, SwitchFirst, ConnectFails, DemoteLeader,
                BeginTransition, EndTransition, database
  <2> QED
    BY <1>1, <2>1, <2>2, <2>3, <2>4, <2>5 DEF Poll
<1>2. CASE Environment
  <2>1. ASSUME NEW h \in Hosts, CreateHost(h)
        PROVE  StatesCurrent'
    BY <2>1 DEF CreateHost, Known, TypeOK, Poller, locals
  <2>2. ASSUME NEW h \in Hosts, DeleteHost(h) \/ EditCommands(h) \/ EditFlag(h)
        PROVE  StatesCurrent'
    BY <2>2 DEF DeleteHost, EditCommands, EditFlag, Poller, locals
  <2>3. ASSUME NEW h \in Hosts, NEW s \in HostState, ForceSet(h, s)
        PROVE  FALSE
    BY <2>3 DEF ForceSet, Happens
  <2>4. CASE (\E r \in Records : BeginApply(r)) \/ EndApply \/ Crash
    BY <2>4 DEF BeginApply, EndApply, Crash, Return, Poller, locals, database
  <2> QED
    BY <1>2, <2>1, <2>2, <2>3, <2>4 DEF Environment
<1>3. CASE UNCHANGED vars
  BY <1>3 DEF vars, database, locals
<1> QED
  BY <1>1, <1>2, <1>3 DEF Next

(* A poll takes the commands of an exhausted host only.                      *)
LEMMA ClearStep ==
    ASSUME TypeOK, Known, Elected, Leaving, StatesCurrent, [Next]_vars,
           NEW h \in commands \ commands', h \in rows'
    PROVE  state[h] # "ready"
<1>1. CASE Poll
  <2>1. CASE ClearCommands
    <3>1. h = prevId /\ h \in list.rows /\ list.state[h] \in Exhausted
      BY <2>1 DEF ClearCommands, Leaving
    <3>2. state[h] = list.state[h]
      BY <2>1, <3>1 DEF ClearCommands, StatesCurrent, Electing, Switch
    <3> QED
      BY <3>1, <3>2 DEF Exhausted
  <2>2. CASE ConnectSucceeds
    BY <2>2, ElectedIs DEF ConnectSucceeds, Switch, Exhausted
  <2>3. CASE \/ LoadSnapshot \/ (\E g \in Hosts : CheckHost(g)) \/ ApplyResult
            \/ EvaluateCircuit \/ ReloadFails
    BY <2>3 DEF LoadSnapshot, CheckHost, ApplyResult, EvaluateCircuit, ReloadFails,
                database
  <2>4. CASE \/ ElectNobody \/ KeepLeader \/ (\E g \in Hosts : ElectLeader(g))
            \/ GiveUp \/ Disconnect \/ VerifyLeader \/ ConnectFails
    BY <2>4 DEF ElectNobody, KeepLeader, ElectLeader, GiveUp, Disconnect,
                VerifyLeader, ConnectFails, database
  <2>5. CASE \/ DemoteLeader \/ Retry \/ UpdateDns \/ UnflagOthers \/ FlagLeader
            \/ RecordLeader
    BY <2>5 DEF DemoteLeader, Retry, UpdateDns, UnflagOthers, FlagLeader,
                RecordLeader, database
  <2> QED
    BY <1>1, <2>1, <2>2, <2>3, <2>4, <2>5 DEF Poll
<1>2. CASE Environment
  BY <1>2 DEF Environment, CreateHost, DeleteHost, EditCommands, EditFlag, ForceSet,
              BeginApply, EndApply, Crash, database
<1>3. CASE UNCHANGED vars
  BY <1>3 DEF vars, database
<1> QED
  BY <1>1, <1>2, <1>3 DEF Next

(* A poll never takes the connect and disconnect commands of a host that is  *)
(* ready, whatever fails and whatever else the handlers do, as long as no    *)
(* state is forced by hand.                                                  *)
THEOREM ReadyKeepCommands ==
    ASSUME "force" \notin Events
    PROVE  Spec => OnlyExhaustedCleared
<1>1. Init => StatesCurrent
  BY DEF Init, StatesCurrent, Electing, Switch
<1>2. TypeOK /\ Known /\ Elected /\ Leaving /\ [Next]_vars => Known' /\ Elected' /\ Leaving'
  BY NamesStep
<1>3. TypeOK /\ Known /\ StatesCurrent /\ [Next]_vars => StatesCurrent'
  BY StatesCurrentStep
<1>4. TypeOK /\ Known /\ Elected /\ Leaving /\ StatesCurrent /\ [Next]_vars
         => [\A h \in commands \ commands' : h \in rows' => state[h] # "ready"]_vars
  BY ClearStep
<1> QED
  BY <1>1, <1>2, <1>3, <1>4, NamesInit, TypeCorrect, PTL DEF Spec, OnlyExhaustedCleared

-----------------------------------------------------------------------------
(* The record follows a host in service.                                     *)

LEMMA CommandsStep ==
    ASSUME "edit" \notin Events, TypeOK, Known, CommandsCurrent, [Next]_vars
    PROVE  CommandsCurrent'
<1> USE DEF CommandsCurrent, Electing, Switch
<1>1. CASE Poll
  <2>1. CASE LoadSnapshot \/ (\E h \in Hosts : CheckHost(h)) \/ ApplyResult
    BY <2>1 DEF LoadSnapshot, CheckHost, ApplyResult, BeginTransition, EndTransition
  <2>2. CASE EvaluateCircuit \/ Retry
    BY <2>2, ListRead DEF EvaluateCircuit, Return, Retry, database
  <2>3. CASE ReloadFails \/ ElectNobody \/ KeepLeader \/ GiveUp \/ RecordLeader
    BY <2>3 DEF ReloadFails, ElectNobody, KeepLeader, GiveUp, RecordLeader, Return
  <2>4. CASE \/ (\E h \in Hosts : ElectLeader(h)) \/ Disconnect \/ ClearCommands
            \/ ConnectSucceeds \/ UpdateDns \/ UnflagOthers \/ FlagLeader
    BY <2>4 DEF ElectLeader, Disconnect, ClearCommands, ConnectSucceeds, UpdateDns,
                UnflagOthers, FlagLeader, locals, database
  <2>5. CASE VerifyLeader \/ ConnectFails \/ DemoteLeader
    BY <2>5 DEF VerifyLeader, SwitchFirst, ConnectFails, DemoteLeader,
                BeginTransition, EndTransition, database
  <2> QED
    BY <1>1, <2>1, <2>2, <2>3, <2>4, <2>5 DEF Poll
<1>2. CASE Environment
  <2>1. ASSUME NEW h \in Hosts, CreateHost(h)
        PROVE  CommandsCurrent'
    BY <2>1 DEF CreateHost, Known, TypeOK, Poller, locals
  <2>2. ASSUME NEW h \in Hosts, DeleteHost(h) \/ EditFlag(h)
        PROVE  CommandsCurrent'
    BY <2>2 DEF DeleteHost, EditFlag, Poller, locals
  <2>3. ASSUME NEW h \in Hosts, NEW s \in HostState, ForceSet(h, s)
        PROVE  CommandsCurrent'
    BY <2>3 DEF ForceSet, Poller, locals
  <2>4. ASSUME NEW h \in Hosts, EditCommands(h)
        PROVE  FALSE
    BY <2>4 DEF EditCommands, Happens
  <2>5. CASE (\E r \in Records : BeginApply(r)) \/ EndApply \/ Crash
    BY <2>5 DEF BeginApply, EndApply, Crash, Return, Poller, locals, database
  <2> QED
    BY <1>2, <2>1, <2>2, <2>3, <2>4, <2>5 DEF Environment
<1>3. CASE UNCHANGED vars
  BY <1>3 DEF vars, database, locals
<1> QED
  BY <1>1, <1>2, <1>3 DEF Next

LEMMA ServiceStep ==
    ASSUME "edit" \notin Events, "apply" \notin Events,
           TypeOK, Known, Elected, CommandsCurrent, InService, [Next]_vars
    PROVE  InService'
<1> USE DEF InService
<1>1. CASE Poll
  <2>1. CASE LoadSnapshot \/ (\E h \in Hosts : CheckHost(h)) \/ ApplyResult
    BY <2>1 DEF LoadSnapshot, CheckHost, ApplyResult, BeginTransition, EndTransition
  <2>2. CASE EvaluateCircuit \/ Retry
    BY <2>2 DEF EvaluateCircuit, Return, Retry
  <2>3. CASE ReloadFails \/ ElectNobody \/ KeepLeader \/ GiveUp \/ RecordLeader
    BY <2>3 DEF ReloadFails, ElectNobody, KeepLeader, GiveUp, RecordLeader, Return
  <2>4. CASE (\E h \in Hosts : ElectLeader(h)) \/ Disconnect \/ ClearCommands
    BY <2>4 DEF ElectLeader, Disconnect, ClearCommands, locals, database
  <2>5. CASE ConnectSucceeds
    BY <2>5, ElectedIs DEF ConnectSucceeds, CommandsCurrent, Electing, Switch, locals
  <2>6. CASE UpdateDns \/ UnflagOthers \/ FlagLeader
    BY <2>6 DEF UpdateDns, UnflagOthers, FlagLeader, locals, database
  <2>7. CASE VerifyLeader \/ ConnectFails \/ DemoteLeader
    BY <2>7 DEF VerifyLeader, SwitchFirst, ConnectFails, DemoteLeader,
                BeginTransition, EndTransition, database
  <2> QED
    BY <1>1, <2>1, <2>2, <2>3, <2>4, <2>5, <2>6, <2>7 DEF Poll
<1>2. CASE Environment
  <2>1. ASSUME NEW h \in Hosts, CreateHost(h)
        PROVE  InService'
    BY <2>1, ElectedIs DEF CreateHost, Switch, Poller, locals, world
  <2>2. ASSUME NEW h \in Hosts, DeleteHost(h) \/ EditFlag(h)
        PROVE  InService'
    BY <2>2 DEF DeleteHost, EditFlag, Poller, locals, world
  <2>3. ASSUME NEW h \in Hosts, NEW s \in HostState, ForceSet(h, s)
        PROVE  InService'
    BY <2>3 DEF ForceSet, Poller, locals, world
  <2>4. ASSUME NEW h \in Hosts, EditCommands(h)
        PROVE  FALSE
    BY <2>4 DEF EditCommands, Happens
  <2>5. ASSUME NEW r \in Records, BeginApply(r)
        PROVE  FALSE
    BY <2>5 DEF BeginApply, Happens
  <2>6. CASE EndApply
    BY <2>6 DEF EndApply
  <2>7. CASE Crash
    BY <2>7 DEF Crash, Return
  <2> QED
    BY <1>2, <2>1, <2>2, <2>3, <2>4, <2>5, <2>6, <2>7 DEF Environment
<1>3. CASE UNCHANGED vars
  BY <1>3 DEF vars, database, world, locals
<1> QED
  BY <1>1, <1>2, <1>3 DEF Next

LEMMA PointStep ==
    ASSUME TypeOK, Elected, InService, [Next]_vars, NEW r \in Records, dns'[r] # dns[r]
    PROVE  dns'[r] \in connected \/ dns'[r] \notin commands
<1>1. CASE Poll
  <2>1. CASE UpdateDns
    BY <2>1 DEF UpdateDns, Pointed, InService, TypeOK
  <2>2. CASE \/ LoadSnapshot \/ (\E h \in Hosts : CheckHost(h)) \/ ApplyResult
            \/ EvaluateCircuit \/ ReloadFails \/ ElectNobody \/ KeepLeader
            \/ (\E h \in Hosts : ElectLeader(h)) \/ GiveUp
    BY <2>2 DEF LoadSnapshot, CheckHost, ApplyResult, EvaluateCircuit, ReloadFails,
                ElectNobody, KeepLeader, ElectLeader, GiveUp, world
  <2>3. CASE \/ Disconnect \/ ClearCommands \/ VerifyLeader \/ ConnectSucceeds
            \/ ConnectFails \/ DemoteLeader \/ Retry
            \/ UnflagOthers \/ FlagLeader \/ RecordLeader
    BY <2>3 DEF Disconnect, ClearCommands, VerifyLeader, ConnectSucceeds,
                ConnectFails, DemoteLeader, Retry, UnflagOthers, FlagLeader,
                RecordLeader, world
  <2> QED
    BY <1>1, <2>1, <2>2, <2>3 DEF Poll
<1>2. CASE Environment
  BY <1>2 DEF Environment, CreateHost, DeleteHost, EditCommands, EditFlag, ForceSet,
              BeginApply, EndApply, Crash, InService, world
<1>3. CASE UNCHANGED vars
  BY <1>3 DEF vars, world
<1> QED
  BY <1>1, <1>2, <1>3 DEF Next

(* A record is pointed only at a host whose connect command has run last, or *)
(* that has none, through crashes, failing statements, hosts created and     *)
(* deleted: as long as no request edits commands or applies the DDNS rules.  *)
THEOREM ConnectedFirst ==
    ASSUME "edit" \notin Events, "apply" \notin Events
    PROVE  Spec => DnsAfterConnect
<1>1. Init => CommandsCurrent /\ InService
  BY DEF Init, CommandsCurrent, InService, Electing, Switch
<1>2. TypeOK /\ Known /\ Elected /\ Leaving /\ [Next]_vars => Known' /\ Elected' /\ Leaving'
  BY NamesStep
<1>3. TypeOK /\ Known /\ Elected /\ CommandsCurrent /\ InService /\ [Next]_vars
         => CommandsCurrent' /\ InService'
  BY CommandsStep, ServiceStep
<1>4. TypeOK /\ Elected /\ InService /\ [Next]_vars
         => [\A r \in Records : dns'[r] # dns[r]
                => dns'[r] \in connected \/ dns'[r] \notin commands]_vars
  BY PointStep
<1> QED
  BY <1>1, <1>2, <1>3, <1>4, NamesInit, TypeCorrect, PTL DEF Spec, DnsAfterConnect

-----------------------------------------------------------------------------
(* Flag, record and DNS record of the leader.                                *)

LEMMA FlagsStep ==
    ASSUME "flag" \notin Events, "crash" \notin Events, ~StorageErrors,
           TypeOK, Known, Elected, FlagsFollow, [Next]_vars
    PROVE  FlagsFollow'
<1> USE DEF FlagsFollow
<1>1. CASE Poll
  <2>1. CASE \/ LoadSnapshot \/ (\E h \in Hosts : CheckHost(h)) \/ ApplyResult
            \/ EvaluateCircuit
    BY <2>1 DEF LoadSnapshot, CheckHost, ApplyResult, EvaluateCircuit, Return,
                BeginTransition, EndTransition, database
  <2>2. CASE ReloadFails \/ ElectNobody \/ KeepLeader \/ GiveUp
    BY <2>2 DEF ReloadFails, ElectNobody, KeepLeader, GiveUp, Return, database
  <2>3. CASE \/ (\E h \in Hosts : ElectLeader(h)) \/ Disconnect \/ ClearCommands
            \/ VerifyLeader \/ ConnectSucceeds \/ ConnectFails
    BY <2>3 DEF ElectLeader, Disconnect, ClearCommands, VerifyLeader, SwitchFirst,
                ConnectSucceeds, ConnectFails, BeginTransition, locals, database
  <2>4. CASE DemoteLeader \/ Retry \/ UpdateDns
    BY <2>4 DEF DemoteLeader, Retry, UpdateDns, EndTransition, locals, database
  <2>5. CASE UnflagOthers
    BY <2>5 DEF UnflagOthers, KeptFlags, locals
  <2>6. CASE FlagLeader
    BY <2>6 DEF FlagLeader, TypeOK, locals
  <2>7. CASE RecordLeader
    BY <2>7 DEF RecordLeader, Recorded, Return
  <2> QED
    BY <1>1, <2>1, <2>2, <2>3, <2>4, <2>5, <2>6, <2>7 DEF Poll
<1>2. CASE Environment
  <2>1. ASSUME NEW h \in Hosts, CreateHost(h)
        PROVE  FlagsFollow'
    <3>1. h # leaderId /\ (pc \in Switch => h # leader)
      BY <2>1, ElectedIs, HostAssumption DEF CreateHost, Known
    <3>2. leaderFlag' = leaderFlag /\ rows' = rows \cup {h}
      BY <2>1 DEF CreateHost
    <3> QED
      BY <2>1, <3>1, <3>2 DEF CreateHost, Switch, Poller, locals
  <2>2. ASSUME NEW h \in Hosts, DeleteHost(h) \/ EditCommands(h)
        PROVE  FlagsFollow'
    BY <2>2 DEF DeleteHost, EditCommands, Poller, locals
  <2>3. ASSUME NEW h \in Hosts, NEW s \in HostState, ForceSet(h, s)
        PROVE  FlagsFollow'
    BY <2>3 DEF ForceSet, Poller, locals
  <2>4. ASSUME NEW h \in Hosts, EditFlag(h)
        PROVE  FALSE
    BY <2>4 DEF EditFlag, Happens
  <2>5. CASE (\E r \in Records : BeginApply(r)) \/ EndApply
    BY <2>5 DEF BeginApply, EndApply, Poller, locals, database
  <2>6. CASE Crash
    BY <2>6 DEF Crash, Happens
  <2> QED
    BY <1>2, <2>1, <2>2, <2>3, <2>4, <2>5, <2>6 DEF Environment
<1>3. CASE UNCHANGED vars
  BY <1>3 DEF vars, database, locals
<1> QED
  BY <1>1, <1>2, <1>3 DEF Next

(* Between two polls flag and record name the same leader, whatever becomes  *)
(* of the hosts in the meantime.  Excluded are a request that carries the    *)
(* flag, a failing statement and a crash between the three writes.           *)
THEOREM FlagsMatch ==
    ASSUME "flag" \notin Events, "crash" \notin Events, ~StorageErrors
    PROVE  Spec => []FlagMatchesRecord
<1>1. Init => FlagsFollow
  BY SetsAssumption, HostAssumption DEF Init, FlagsFollow
<1>2. TypeOK /\ Known /\ Elected /\ Leaving /\ [Next]_vars => Known' /\ Elected' /\ Leaving'
  BY NamesStep
<1>3. TypeOK /\ Known /\ Elected /\ FlagsFollow /\ [Next]_vars => FlagsFollow'
  BY FlagsStep
<1>4. FlagsFollow => FlagMatchesRecord
  BY DEF FlagsFollow, FlagMatchesRecord
<1> QED
  BY <1>1, <1>2, <1>3, <1>4, NamesInit, TypeCorrect, PTL DEF Spec

LEMMA RecordsStep ==
    ASSUME "apply" \notin Events, "crash" \notin Events, ~StorageErrors, ~DnsMayFail,
           TypeOK, Known, Elected, RecordsFollow, [Next]_vars
    PROVE  RecordsFollow'
<1> USE DEF RecordsFollow, PointsAt
<1>1. CASE Poll
  <2>1. CASE \/ LoadSnapshot \/ (\E h \in Hosts : CheckHost(h)) \/ ApplyResult
            \/ EvaluateCircuit
    BY <2>1 DEF LoadSnapshot, CheckHost, ApplyResult, EvaluateCircuit, Return,
                BeginTransition, EndTransition, database, world
  <2>2. CASE ReloadFails \/ ElectNobody \/ KeepLeader \/ GiveUp
    BY <2>2 DEF ReloadFails, ElectNobody, KeepLeader, GiveUp, Return, database, world
  <2>3. CASE \/ (\E h \in Hosts : ElectLeader(h)) \/ Disconnect \/ ClearCommands
            \/ VerifyLeader \/ ConnectSucceeds \/ ConnectFails
    BY <2>3 DEF ElectLeader, Disconnect, ClearCommands, VerifyLeader, SwitchFirst,
                ConnectSucceeds, ConnectFails, BeginTransition, locals, database, world
  <2>4. CASE DemoteLeader \/ Retry
    BY <2>4 DEF DemoteLeader, Retry, EndTransition, locals, database, world
  <2>5. CASE UpdateDns
    <3>1. leader \in Hosts
      BY <2>5, ElectedIs DEF UpdateDns, Switch
    <3>2. RecordOf[leader] # NoRecord => RecordOf[leader] \in Records
      BY <3>1, SetsAssumption
    <3> QED
      BY <2>5, <3>2 DEF UpdateDns, RecordsFor, Pointed, TypeOK, locals
  <2>6. CASE UnflagOthers \/ FlagLeader
    BY <2>6 DEF UnflagOthers, FlagLeader, locals, world
  <2>7. CASE RecordLeader
    BY <2>7 DEF RecordLeader, Recorded, Return, world
  <2> QED
    BY <1>1, <2>1, <2>2, <2>3, <2>4, <2>5, <2>6, <2>7 DEF Poll
<1>2. CASE Environment
  <2>1. ASSUME NEW h \in Hosts,
               CreateHost(h) \/ DeleteHost(h) \/ EditCommands(h) \/ EditFlag(h)
        PROVE  RecordsFollow'
    BY <2>1 DEF CreateHost, DeleteHost, EditCommands, EditFlag, Poller, locals, world
  <2>2. ASSUME NEW h \in Hosts, NEW s \in HostState, ForceSet(h, s)
        PROVE  RecordsFollow'
    BY <2>2 DEF ForceSet, Poller, locals, world
  <2>3. CASE (\E r \in Records : BeginApply(r)) \/ EndApply \/ Crash
    BY <2>3 DEF BeginApply, EndApply, Crash, Happens
  <2> QED
    BY <1>2, <2>1, <2>2, <2>3 DEF Environment
<1>3. CASE UNCHANGED vars
  BY <1>3 DEF vars, database, world, locals
<1> QED
  BY <1>1, <1>2, <1>3 DEF Next

(* Between two polls the record of the leader's pool points at the leader,   *)
(* whatever becomes of the hosts.  Excluded are failing updates of the       *)
(* record and failing statements, a crash between the two writes, and rules  *)
(* that are applied on request.                                              *)
THEOREM RecordPointsAtLeader ==
    ASSUME "apply" \notin Events, "crash" \notin Events, ~StorageErrors, ~DnsMayFail
    PROVE  Spec => []DnsFollowsLeader
<1>1. Init => RecordsFollow
  BY DEF Init, RecordsFollow, PointsAt
<1>2. TypeOK /\ Known /\ Elected /\ Leaving /\ [Next]_vars => Known' /\ Elected' /\ Leaving'
  BY NamesStep
<1>3. TypeOK /\ Known /\ Elected /\ RecordsFollow /\ [Next]_vars => RecordsFollow'
  BY RecordsStep
<1>4. RecordsFollow => DnsFollowsLeader
  BY DEF RecordsFollow, PointsAt, DnsFollowsLeader
<1> QED
  BY <1>1, <1>2, <1>3, <1>4, NamesInit, TypeCorrect, PTL DEF Spec

-----------------------------------------------------------------------------
(* A switch that comes to its end leaves everything in order.                *)

Installing == {"ddns", "unflag", "flag", "record"}

(* What the first steps of an installation leave for the last one.           *)
FlagsMoved ==
    /\ pc = "flag" => leaderFlag \subseteq {leader}
    /\ pc = "record" => leaderFlag = {leader} \cap rows
LeaderJoined == pc \in Installing => Connected(leader)
RecordMoved ==
    /\ applying = NotApplying
    /\ pc \in {"unflag", "flag", "record"} => PointsAt(leader)

(* RecordLeader is the last step of a switch; what is in order then.         *)
FlagsHealed  == RecordLeader => leaderFlag' = {leader} \cap rows' /\ leaderId' = leader
LeaderHealed == RecordLeader => (leader \in commands' => leader \in connected')
RecordHealed ==
    RecordLeader /\ RecordOf[leader] # NoRecord => dns'[RecordOf[leader]] = leader

(* An installation goes on only by its own steps, while handlers come in     *)
(* between.                                                                  *)
LEMMA InstallationSteps ==
    ASSUME [Next]_vars, pc' \in Installing
    PROVE  \/ ConnectSucceeds \/ UpdateDns \/ UnflagOthers \/ FlagLeader
           \/ Environment /\ pc' = pc /\ leader' = leader
           \/ UNCHANGED vars
<1> USE DEF Installing
<1>1. CASE Poll
  <2>1. CASE \/ LoadSnapshot \/ (\E h \in Hosts : CheckHost(h)) \/ ApplyResult
            \/ EvaluateCircuit \/ ReloadFails \/ ElectNobody \/ KeepLeader
    BY <2>1 DEF LoadSnapshot, CheckHost, ApplyResult, EvaluateCircuit, ReloadFails,
                ElectNobody, KeepLeader, Return, BeginTransition, EndTransition
  <2>2. CASE \/ (\E h \in Hosts : ElectLeader(h)) \/ GiveUp \/ Disconnect
            \/ ClearCommands \/ VerifyLeader \/ ConnectFails \/ DemoteLeader \/ Retry
            \/ RecordLeader
    BY <2>2 DEF ElectLeader, GiveUp, Disconnect, ClearCommands, VerifyLeader,
                SwitchFirst, ConnectFails, DemoteLeader, Retry, RecordLeader, Return,
                BeginTransition, EndTransition
  <2> QED
    BY <1>1, <2>1, <2>2 DEF Poll
<1>2. CASE Environment
  BY <1>2 DEF Environment, CreateHost, DeleteHost, EditCommands, EditFlag, ForceSet,
              BeginApply, EndApply, Crash, Return, Poller, locals
<1> QED
  BY <1>1, <1>2 DEF Next

LEMMA FlagsMovedStep ==
    ASSUME "flag" \notin Events, ~StorageErrors, TypeOK, Known, Elected, FlagsMoved,
           [Next]_vars
    PROVE  FlagsMoved'
<1> SUFFICES ASSUME pc' \in Installing
             PROVE  FlagsMoved'
  BY DEF FlagsMoved, Installing
<1> USE DEF FlagsMoved
<1>1. CASE ConnectSucceeds \/ UpdateDns \/ UnflagOthers
  BY <1>1 DEF ConnectSucceeds, UpdateDns, UnflagOthers, KeptFlags, locals
<1>2. CASE FlagLeader
  BY <1>2 DEF FlagLeader, TypeOK, locals
<1>3. CASE Environment /\ pc' = pc /\ leader' = leader
  <2>1. ASSUME NEW h \in Hosts, CreateHost(h)
        PROVE  FlagsMoved'
    <3>1. pc \in Switch => h # leader
      BY <2>1, ElectedIs DEF CreateHost, Known
    <3>2. leaderFlag' = leaderFlag /\ rows' = rows \cup {h}
      BY <2>1 DEF CreateHost
    <3> QED
      BY <1>3, <3>1, <3>2 DEF Switch
  <2>2. ASSUME NEW h \in Hosts, DeleteHost(h) \/ EditCommands(h)
        PROVE  FlagsMoved'
    BY <1>3, <2>2 DEF DeleteHost, EditCommands
  <2>3. ASSUME NEW h \in Hosts, NEW s \in HostState, ForceSet(h, s)
        PROVE  FlagsMoved'
    BY <1>3, <2>3 DEF ForceSet
  <2>4. ASSUME NEW h \in Hosts, EditFlag(h)
        PROVE  FALSE
    BY <2>4 DEF EditFlag, Happens
  <2>5. CASE (\E r \in Records : BeginApply(r)) \/ EndApply \/ Crash
    BY <1>3, <2>5 DEF BeginApply, EndApply, Crash, database
  <2> QED
    BY <1>3, <2>1, <2>2, <2>3, <2>4, <2>5 DEF Environment
<1>4. CASE UNCHANGED vars
  BY <1>4 DEF vars, database, locals
<1> QED
  BY <1>1, <1>2, <1>3, <1>4, InstallationSteps

LEMMA LeaderJoinedStep ==
    ASSUME "edit" \notin Events, TypeOK, Known, Elected, CommandsCurrent, LeaderJoined,
           [Next]_vars
    PROVE  LeaderJoined'
<1> SUFFICES ASSUME pc' \in Installing
             PROVE  LeaderJoined'
  BY DEF LeaderJoined
<1> USE DEF LeaderJoined, Installing, Connected
<1>1. CASE ConnectSucceeds
  BY <1>1, ElectedIs DEF ConnectSucceeds, CommandsCurrent, Electing, Switch, locals
<1>2. CASE UpdateDns \/ UnflagOthers \/ FlagLeader
  BY <1>2 DEF UpdateDns, UnflagOthers, FlagLeader, locals, database, world
<1>3. CASE Environment /\ pc' = pc /\ leader' = leader
  <2>1. ASSUME NEW h \in Hosts, CreateHost(h)
        PROVE  LeaderJoined'
    <3>1. pc \in Switch => h # leader
      BY <2>1, ElectedIs DEF CreateHost, Known
    <3> QED
      BY <1>3, <2>1, <3>1 DEF CreateHost, Switch, world
  <2>2. ASSUME NEW h \in Hosts, NEW s \in HostState,
               DeleteHost(h) \/ EditFlag(h) \/ ForceSet(h, s)
        PROVE  LeaderJoined'
    BY <1>3, <2>2 DEF DeleteHost, EditFlag, ForceSet, world
  <2>3. ASSUME NEW h \in Hosts, EditCommands(h)
        PROVE  FALSE
    BY <2>3 DEF EditCommands, Happens
  <2>4. CASE (\E r \in Records : BeginApply(r)) \/ EndApply \/ Crash
    BY <1>3, <2>4 DEF BeginApply, EndApply, Crash, database, world
  <2> QED
    BY <1>3, <2>1, <2>2, <2>3, <2>4 DEF Environment, HostState
<1>4. CASE UNCHANGED vars
  BY <1>4 DEF vars, database, world, locals
<1> QED
  BY <1>1, <1>2, <1>3, <1>4, InstallationSteps

LEMMA RecordMovedStep ==
    ASSUME "apply" \notin Events, ~DnsMayFail, ~StorageErrors, TypeOK, Known, Elected,
           RecordMoved, [Next]_vars
    PROVE  RecordMoved'
<1>1. applying' = NotApplying
  BY DEF RecordMoved, Next, Poll, Environment, LoadSnapshot, CheckHost, ApplyResult,
         EvaluateCircuit, ReloadFails, ElectNobody, KeepLeader, ElectLeader, GiveUp,
         Disconnect, ClearCommands, VerifyLeader, ConnectSucceeds, ConnectFails,
         DemoteLeader, Retry, UpdateDns, UnflagOthers, FlagLeader, RecordLeader,
         CreateHost, DeleteHost, EditCommands, EditFlag, ForceSet, BeginApply, EndApply,
         Crash, Happens, vars
<1> SUFFICES ASSUME pc' \in Installing, pc' # "ddns"
             PROVE  PointsAt(leader)'
  BY <1>1 DEF RecordMoved, Installing
<1> USE DEF RecordMoved, Installing, PointsAt
<1>2. CASE UpdateDns
  <2>1. leader \in Hosts
    BY <1>2, ElectedIs DEF UpdateDns, Switch
  <2>2. RecordOf[leader] # NoRecord => RecordOf[leader] \in Records
    BY <2>1, SetsAssumption
  <2> QED
    BY <1>2, <2>2 DEF UpdateDns, RecordsFor, Pointed, TypeOK, locals
<1>3. CASE ConnectSucceeds \/ UnflagOthers \/ FlagLeader
  BY <1>3 DEF ConnectSucceeds, UnflagOthers, FlagLeader, locals, world
<1>4. CASE Environment /\ pc' = pc /\ leader' = leader
  <2>1. ~EndApply
    BY DEF EndApply
  <2>2. dns' = dns
    BY <1>4, <2>1 DEF Environment, CreateHost, DeleteHost, EditCommands, EditFlag,
                      ForceSet, BeginApply, Crash, world
  <2> QED
    BY <1>4, <2>2
<1>5. CASE UNCHANGED vars
  BY <1>5 DEF vars, world, locals
<1> QED
  BY <1>2, <1>3, <1>4, <1>5, InstallationSteps

(* When a switch ends, is_leader marks the new leader and no other host, and *)
(* current_leader_id names it, in whatever disorder a crash of an earlier    *)
(* switch has left the three and whatever becomes of the hosts meanwhile, as *)
(* long as no request sets the flag and no statement fails.                  *)
THEOREM SwitchHealsFlags ==
    ASSUME "flag" \notin Events, ~StorageErrors
    PROVE  Spec => [][FlagsHealed]_vars
<1>1. Init => FlagsMoved
  BY DEF Init, FlagsMoved
<1>2. TypeOK /\ Known /\ Elected /\ Leaving /\ [Next]_vars => Known' /\ Elected' /\ Leaving'
  BY NamesStep
<1>3. TypeOK /\ Known /\ Elected /\ FlagsMoved /\ [Next]_vars => FlagsMoved'
  BY FlagsMovedStep
<1>4. FlagsMoved /\ [Next]_vars => [FlagsHealed]_vars
  BY DEF FlagsMoved, FlagsHealed, RecordLeader, Recorded
<1> QED
  BY <1>1, <1>2, <1>3, <1>4, NamesInit, TypeCorrect, PTL DEF Spec

(* When a switch ends, the last command run on the new leader is its connect *)
(* command, if it has one: through crashes, failing commands and statements  *)
(* and forced states, unless a request edits commands during the switch.     *)
THEOREM SwitchConnects ==
    ASSUME "edit" \notin Events
    PROVE  Spec => [][LeaderHealed]_vars
<1>1. Init => CommandsCurrent /\ LeaderJoined
  BY DEF Init, CommandsCurrent, LeaderJoined, Installing, Electing, Switch
<1>2. TypeOK /\ Known /\ Elected /\ Leaving /\ [Next]_vars => Known' /\ Elected' /\ Leaving'
  BY NamesStep
<1>3. TypeOK /\ Known /\ Elected /\ CommandsCurrent /\ LeaderJoined /\ [Next]_vars
         => CommandsCurrent' /\ LeaderJoined'
  BY CommandsStep, LeaderJoinedStep
<1>4. LeaderJoined /\ [Next]_vars => [LeaderHealed]_vars
  BY DEF LeaderJoined, LeaderHealed, Installing, Connected, RecordLeader, world
<1> QED
  BY <1>1, <1>2, <1>3, <1>4, NamesInit, TypeCorrect, PTL DEF Spec

(* When a switch ends, the record of the new leader's pool points at it,     *)
(* through crashes, as long as the updates of the record and the statements  *)
(* succeed (a failed read of the rules, poller.go:318, updates another       *)
(* record or none) and no rules are applied on request.                      *)
THEOREM SwitchPointsRecord ==
    ASSUME "apply" \notin Events, ~DnsMayFail, ~StorageErrors
    PROVE  Spec => [][RecordHealed]_vars
<1>1. Init => RecordMoved
  BY DEF Init, RecordMoved
<1>2. TypeOK /\ Known /\ Elected /\ Leaving /\ [Next]_vars => Known' /\ Elected' /\ Leaving'
  BY NamesStep
<1>3. TypeOK /\ Known /\ Elected /\ RecordMoved /\ [Next]_vars => RecordMoved'
  BY RecordMovedStep
<1>4. TypeOK /\ Known /\ Elected /\ RecordMoved /\ [Next]_vars => [RecordHealed]_vars
  <2> SUFFICES ASSUME TypeOK, Known, Elected, RecordMoved, RecordLeader
               PROVE  RecordHealed
    BY DEF RecordHealed
  <2>1. leader # NoHost
    BY ElectedIs DEF RecordLeader, Switch
  <2> QED
    BY <2>1 DEF RecordMoved, PointsAt, RecordHealed, RecordLeader, world
<1> QED
  BY <1>1, <1>2, <1>3, <1>4, NamesInit, TypeCorrect, PTL DEF Spec

-----------------------------------------------------------------------------
(* What the checks of a poll leave behind.                                   *)

LEMMA MayDie ==
    ASSUME NEW s \in HostState, s # "dead"
    PROVE  IsValidTransition(s, "dead")
BY DEF HostState, IsValidTransition, ValidTransitions

(* CheckHost's decision, on the state the table has as well.                 *)
LEMMA CheckDecides ==
    ASSUME TypeOK, NEW h \in Hosts, CheckHost(h), snap.state[h] = state[h], h \in rows
    PROVE  \/ /\ CheckVerdict(h) /\ reach' = reach \cup {h}
              /\ pc' = "check" \/ (pc' = "apply" /\ pending'.host = h)
           \/ /\ ~CheckVerdict(h) /\ reach' = reach /\ state[h] # "dead"
              /\ \/ pc' = "apply" /\ pending' = [host |-> h, to |-> "dead"]
                 \/ pc' = "check" /\ StorageErrors
           \/ /\ ~CheckVerdict(h) /\ reach' = reach /\ state[h] = "dead"
              /\ pc' = "check"
<1> DEFINE target == CheckTarget(CheckVerdict(h), h \in snap.over)
<1>1. CASE CheckVerdict(h)
  <2>1. reach' = reach \cup {h}
    BY <1>1 DEF CheckHost
  <2>2. pc' = "check" \/ (pc' = "apply" /\ pending'.host = h)
    BY DEF CheckHost, BeginTransition
  <2> QED
    BY <1>1, <2>1, <2>2
<1>2. CASE ~CheckVerdict(h)
  <2>1. target = "dead" /\ reach' = reach
    BY <1>2 DEF CheckHost, CheckTarget
  <2>2. CASE state[h] = "dead"
    BY <1>2, <2>1, <2>2 DEF CheckHost
  <2>3. CASE state[h] # "dead"
    <3>1. Wanted(h, "dead")
      BY <2>3, MayDie DEF Wanted, TypeOK
    <3>2. BeginTransition(h, "dead", "apply", "check")
      BY <2>1, <2>3 DEF CheckHost
    <3> QED
      BY <1>2, <2>1, <2>3, <3>1, <3>2 DEF BeginTransition
  <2> QED
    BY <2>2, <2>3
<1> QED
  BY <1>1, <1>2

(* As long as no state is forced and no statement fails.                     *)
LEMMA ReachedStep ==
    ASSUME "force" \notin Events, ~StorageErrors, TypeOK, Reached, [Next]_vars
    PROVE  Reached'
<1> USE DEF Reached, Electing, Switch, Marking
<1>1. CASE Poll
  <2>1. CASE LoadSnapshot
    <3>1. /\ pc' = "check" /\ todo' = rows /\ snap'.state = state
          /\ rows' = rows /\ state' = state /\ born' = born
      BY <2>1 DEF LoadSnapshot, database
    <3>2. rows \subseteq born
      BY DEF TypeOK
    <3> QED
      BY <3>1, <3>2
  <2>2. ASSUME NEW h \in Hosts, CheckHost(h)
        PROVE  Reached'
    <3>1. /\ pc = "check" /\ h \in todo /\ todo' = todo \ {h}
          /\ state' = state /\ rows' = rows /\ snap' = snap /\ reach \subseteq reach'
          /\ born' = born /\ pc' \in {"check", "apply"}
      BY <2>2 DEF CheckHost, BeginTransition, database
    <3>2. pc' = "apply" => pending'.host = h
      BY <2>2 DEF CheckHost, BeginTransition
    <3>3. h \in rows => \/ h \in reach' \/ state[h] = "dead"
                        \/ pc' = "apply" /\ pending'.to = "dead"
      BY <2>2, <3>1, CheckDecides
    <3>4. pc' = "apply" => h \in rows
      BY <2>2 DEF CheckHost, BeginTransition, Wanted
    <3>5. pc' = "apply" => h \in reach' \/ pending'.to = "dead"
      BY <2>2, <3>1, <3>4, CheckDecides
    <3> QED
      BY <3>1, <3>2, <3>3, <3>5
  <2>3. CASE ApplyResult
    BY <2>3 DEF ApplyResult, EndTransition, TypeOK
  <2>4. CASE EvaluateCircuit
    BY <2>4, ListRead DEF EvaluateCircuit, Return, Ready, TypeOK
  <2>5. CASE ReloadFails \/ ElectNobody \/ KeepLeader \/ GiveUp \/ RecordLeader
    <3>1. pc' = "idle" /\ todo' = {} /\ born' = born
      BY <2>5 DEF ReloadFails, ElectNobody, KeepLeader, GiveUp, RecordLeader, Return,
                  database
    <3> QED
      BY <3>1
  <2>6. CASE (\E h \in Hosts : ElectLeader(h)) \/ Disconnect \/ ClearCommands
    BY <2>6 DEF ElectLeader, Disconnect, ClearCommands, locals, database
  <2>7. CASE VerifyLeader \/ ConnectSucceeds \/ ConnectFails
    BY <2>7 DEF VerifyLeader, SwitchFirst, ConnectSucceeds, ConnectFails,
                BeginTransition, locals, database
  <2>8. CASE DemoteLeader
    BY <2>8 DEF DemoteLeader, EndTransition, TypeOK
  <2>9. CASE Retry
    BY <2>9, ListRead DEF Retry, Ready, database
  <2>10. CASE UpdateDns \/ UnflagOthers \/ FlagLeader
    BY <2>10 DEF UpdateDns, UnflagOthers, FlagLeader, locals, database
  <2> QED
    BY <1>1, <2>1, <2>2, <2>3, <2>4, <2>5, <2>6, <2>7, <2>8, <2>9, <2>10 DEF Poll
<1>2. CASE Environment
  <2>1. ASSUME NEW h \in Hosts, DeleteHost(h) \/ EditCommands(h) \/ EditFlag(h)
        PROVE  Reached'
    BY <2>1 DEF DeleteHost, EditCommands, EditFlag, Poller, locals
  <2>2. ASSUME NEW h \in Hosts, CreateHost(h)
        PROVE  Reached'
    <3>1. /\ h \in Doubtful /\ h \notin todo /\ h \notin InitialHosts
          /\ rows' = rows \cup {h} /\ born' = born \cup {h}
          /\ state' = [state EXCEPT ![h] = "ready"]
      BY <2>2 DEF CreateHost, Happens, Doubtful
    <3>2. UNCHANGED <<pc, locals>>
      BY <2>2 DEF CreateHost, Poller
    <3> QED
      BY <3>1, <3>2 DEF locals, TypeOK
  <2>3. ASSUME NEW h \in Hosts, NEW s \in HostState, ForceSet(h, s)
        PROVE  FALSE
    BY <2>3 DEF ForceSet, Happens
  <2>4. CASE (\E r \in Records : BeginApply(r)) \/ EndApply \/ Crash
    BY <2>4 DEF BeginApply, EndApply, Crash, Return, Poller, locals, database
  <2> QED
    BY <1>2, <2>1, <2>2, <2>3, <2>4 DEF Environment
<1>3. CASE UNCHANGED vars
  BY <1>3 DEF vars, database, locals
<1> QED
  BY <1>1, <1>2, <1>3 DEF Next

LEMMA ReachedInit == Init => Reached
BY DEF Init, Reached, Electing, Switch

(* An elected host has been found reachable by the poll's own checks, unless *)
(* it is doubtful.                                                           *)
LEMMA LeaderReached ==
    ASSUME Elected, Reached, pc \in Switch
    PROVE  leader \in reach \cup Doubtful
BY DEF Elected, Reached, Electing, Best

-----------------------------------------------------------------------------
(* The rounds of an election suffice.                                        *)

LEMMA OneMoreSpent ==
    ASSUME IsFiniteSet(Doubtful), NEW g \in Doubtful, NEW D \in SUBSET (Doubtful \ {g}),
           NEW n \in Nat, Cardinality(D) = n
    PROVE  D \cup {g} \in SUBSET Doubtful /\ Cardinality(D \cup {g}) = n + 1
<1>1. IsFiniteSet(D) /\ g \notin D
  BY FS_Subset
<1> QED
  BY <1>1, FS_AddElement

(* No host comes back: what is dead or deleted stays so while leaders are    *)
(* elected, whoever else is marked dead, created or deleted.                 *)
SpendsOn ==
    /\ born \subseteq born'
    /\ \A h \in born : /\ h \in rows' => h \in rows
                       /\ state[h] = "dead" => state'[h] = "dead"

LEMMA SpendsOnMarking ==
    ASSUME TypeOK, rows' = rows, born' = born,
           leader \in rows => state' = [state EXCEPT ![leader] = "dead"],
           leader \notin rows => state' = state
    PROVE  SpendsOn
BY DEF SpendsOn, TypeOK

LEMMA SpentGrows ==
    ASSUME SpendsOn, NEW h, Spent(h)
    PROVE  Spent(h)'
BY DEF SpendsOn, Spent

(* A refused leader is about to be marked dead, or has been deleted.         *)
LEMMA RefusalSpends ==
    ASSUME ~StorageErrors, IsFiniteSet(Doubtful), TypeOK, Known, Elected,
           StatesCurrent, RoundsFailed, pc \in {"verify", "connect"},
           leader \in Doubtful, BeginTransition(leader, "dead", "demote", "retry"),
           UNCHANGED <<rows, state, born, attempt, leader>>
    PROVE  RoundsFailed'
<1> USE DEF Rounds, Electing, Switch
<1>1. /\ leader \in Hosts \cap born /\ leader \in list.rows /\ state[leader] = "ready"
      /\ leader \in Ready(list)
  BY ElectedIs DEF StatesCurrent, Ready
<1>2. IsValidTransition(state[leader], "dead") /\ state[leader] # "dead"
  BY <1>1, MayDie DEF HostState
<1>4. attempt \in Nat
  BY BoundAssumption DEF TypeOK
<1>5. PICK D \in SUBSET (Doubtful \ {leader}) :
             Cardinality(D) = attempt /\ \A h \in D : Spent(h)
  BY <1>1 DEF RoundsFailed, SpentAmong
<1>6. \A h \in D : Spent(h)'
  BY <1>5 DEF Spent
<1>7. CASE leader \in rows
  <2>1. pc' = "demote" /\ pending' = [host |-> leader, to |-> "dead"]
    BY <1>2, <1>7 DEF BeginTransition, Wanted
  <2> QED
    BY <1>1, <1>5, <1>6, <2>1 DEF RoundsFailed, SpentAmong, Doubtful
<1>8. CASE leader \notin rows
  <2>1. pc' = "retry"
    BY <1>8 DEF BeginTransition, Wanted
  <2>2. D \cup {leader} \in SUBSET Doubtful /\ Cardinality(D \cup {leader}) = attempt + 1
    BY <1>4, <1>5, OneMoreSpent
  <2>3. \A h \in D \cup {leader} : Spent(h)'
    BY <1>1, <1>6, <1>8 DEF Spent
  <2> QED
    BY <2>1, <2>2, <2>3 DEF RoundsFailed, SpentAmong
<1> QED
  BY <1>7, <1>8

LEMMA FailedStep ==
    ASSUME "force" \notin Events, ~StorageErrors, IsFiniteSet(Doubtful), TypeOK,
           Known, Elected, StatesCurrent, Reached, RoundsFailed, [Next]_vars
    PROVE  RoundsFailed'
<1> USE DEF Rounds, Electing, Switch
<1>1. CASE Poll
  <2>1. CASE LoadSnapshot \/ (\E h \in Hosts : CheckHost(h)) \/ ApplyResult
    BY <2>1 DEF RoundsFailed, LoadSnapshot, CheckHost, ApplyResult, BeginTransition,
                EndTransition
  <2>2. CASE EvaluateCircuit
    <3>1. SpentAmong(Doubtful \ Ready(list), 0)'
      BY FS_EmptySet DEF SpentAmong
    <3> QED
      BY <2>2, <3>1 DEF RoundsFailed, EvaluateCircuit, Return
  <2>3. CASE ReloadFails \/ ElectNobody \/ KeepLeader \/ GiveUp \/ RecordLeader
    BY <2>3 DEF RoundsFailed, ReloadFails, ElectNobody, KeepLeader, GiveUp,
                RecordLeader, Return
  <2>4. CASE \/ (\E h \in Hosts : ElectLeader(h)) \/ Disconnect \/ ClearCommands
            \/ ConnectSucceeds \/ UpdateDns \/ UnflagOthers \/ FlagLeader
    BY <2>4 DEF RoundsFailed, ElectLeader, Disconnect, ClearCommands,
                ConnectSucceeds, UpdateDns, UnflagOthers, FlagLeader, locals,
                database, SpentAmong, Spent
  <2>5. CASE VerifyLeader
    <3>1. CASE leader \in reach /\ pc' = SwitchFirst
      BY <2>5, <3>1 DEF RoundsFailed, VerifyLeader, SwitchFirst, database,
                        SpentAmong, Spent
    <3>2. CASE leader \notin reach /\ BeginTransition(leader, "dead", "demote", "retry")
      BY <2>5, <3>2, LeaderReached, RefusalSpends DEF VerifyLeader, database
    <3> QED
      BY <2>5, <3>1, <3>2 DEF VerifyLeader
  <2>6. CASE ConnectFails
    <3>1. leader \in Doubtful
      BY <2>6 DEF ConnectFails, CommandFails, Doubtful
    <3> QED
      BY <2>6, <3>1, RefusalSpends DEF ConnectFails, database
  <2>7. CASE DemoteLeader
    <3>1. /\ leader \in Doubtful \cap Hosts /\ leader \in born
          /\ SpentAmong(Doubtful \ {leader}, attempt) /\ attempt \in Nat
      BY <2>7, SetsAssumption, BoundAssumption DEF DemoteLeader, RoundsFailed, TypeOK
    <3>2. /\ rows' = rows /\ born' = born /\ attempt' = attempt /\ pc' = "retry"
          /\ leader \in rows => state' = [state EXCEPT ![leader] = "dead"]
          /\ leader \notin rows => state' = state
      BY <2>7 DEF DemoteLeader, EndTransition, RoundsFailed
    <3>3. leader \in rows' => state'[leader] = "dead"
      BY <3>1, <3>2 DEF TypeOK
    <3>7. SpendsOn
      BY <3>2, SpendsOnMarking
    <3>8. \A h : h = leader => Spent(h)'
      BY <3>1, <3>2, <3>3 DEF Spent
    <3>9. \A h : Spent(h) => Spent(h)'
      BY <3>7, SpentGrows
    <3>4. PICK D \in SUBSET (Doubtful \ {leader}) :
                 Cardinality(D) = attempt /\ \A h \in D : Spent(h)
      BY <3>1 DEF SpentAmong
    <3>5. D \cup {leader} \in SUBSET Doubtful /\ Cardinality(D \cup {leader}) = attempt + 1
      BY <3>1, <3>4, OneMoreSpent
    <3>6. \A h \in D \cup {leader} : Spent(h)'
      BY <3>4, <3>8, <3>9, Zenon
    <3> QED
      BY <3>2, <3>5, <3>6 DEF RoundsFailed, SpentAmong
  <2>8. CASE Retry
    <3>1. PICK D \in SUBSET Doubtful :
                 Cardinality(D) = attempt + 1 /\ \A h \in D : Spent(h)
      BY <2>8 DEF Retry, RoundsFailed, SpentAmong
    <3>2. list'.rows = rows /\ list'.state = state /\ UNCHANGED <<rows, state, born>>
      BY <2>8, ListRead DEF Retry, database
    <3>3. D \in SUBSET (Doubtful \ Ready(list'))
      BY <3>1, <3>2 DEF Spent, Ready
    <3>4. \A h \in D : Spent(h)'
      BY <3>1, <3>2 DEF Spent
    <3> QED
      BY <2>8, <3>1, <3>3, <3>4 DEF Retry, NextAttempt, RoundsFailed, SpentAmong
  <2> QED
    BY <1>1, <2>1, <2>2, <2>3, <2>4, <2>5, <2>6, <2>7, <2>8 DEF Poll
<1>2. CASE Environment
  <2>1. CASE Crash
    BY <2>1 DEF Crash, Return, RoundsFailed
  <2>2. CASE ~Crash
    <3>1. UNCHANGED <<pc, locals>>
      BY <1>2, <2>2 DEF Environment, CreateHost, DeleteHost, EditCommands, EditFlag,
         ForceSet, BeginApply, EndApply, Poller
    <3>2. SpendsOn
      <4>1. ASSUME NEW h \in Hosts, CreateHost(h) PROVE SpendsOn
        BY <4>1 DEF CreateHost, SpendsOn, TypeOK
      <4>2. ASSUME NEW h \in Hosts, DeleteHost(h) \/ EditCommands(h) \/ EditFlag(h)
            PROVE  SpendsOn
        BY <4>2 DEF DeleteHost, EditCommands, EditFlag, SpendsOn
      <4>3. ASSUME NEW h \in Hosts, NEW s \in HostState, ForceSet(h, s)
            PROVE  FALSE
        BY <4>3 DEF ForceSet, Happens
      <4>4. CASE (\E r \in Records : BeginApply(r)) \/ EndApply
        BY <4>4 DEF BeginApply, EndApply, SpendsOn, database
      <4> QED
        BY <1>2, <2>2, <4>1, <4>2, <4>3, <4>4 DEF Environment
    <3>3. \A h : Spent(h) => Spent(h)'
      BY <3>2, SpentGrows
    <3>4. leader \in born => leader \in born'
      BY <3>2 DEF SpendsOn
    <3> QED
      BY <3>1, <3>3, <3>4 DEF RoundsFailed, SpentAmong, locals
  <2> QED
    BY <2>1, <2>2
<1>3. CASE UNCHANGED vars
  BY <1>3 DEF RoundsFailed, vars, database, locals, SpentAmong, Spent
<1> QED
  BY <1>1, <1>2, <1>3 DEF Next

(* The rounds are not used up before all doubtful hosts have failed.         *)
LEMMA RoundsSuffice ==
    ASSUME IsFiniteSet(Doubtful), Cardinality(Doubtful) < MaxElectRetries,
           TypeOK, RoundsFailed
    PROVE  NotGivingUp
<1> SUFFICES ASSUME pc = "elect" PROVE MayElect
  BY DEF NotGivingUp
<1>1. PICK D \in SUBSET Doubtful : Cardinality(D) = attempt
  BY DEF RoundsFailed, Electing, SpentAmong
<1>2. Cardinality(D) <= Cardinality(Doubtful) /\ Cardinality(Doubtful) \in Nat
  BY FS_Subset, FS_CardinalityType
<1> QED
  BY <1>1, <1>2, BoundAssumption DEF TypeOK, MayElect

Attempts ==
    Known /\ Elected /\ Leaving /\ StatesCurrent /\ Reached /\ RoundsFailed

LEMMA AttemptsInit == Init => Attempts
BY NamesInit, ReachedInit
   DEF Init, Attempts, StatesCurrent, RoundsFailed, Rounds, Electing, Switch

LEMMA AttemptsStep ==
    ASSUME "force" \notin Events, ~StorageErrors, IsFiniteSet(Doubtful), TypeOK,
           Attempts, [Next]_vars
    PROVE  Attempts'
<1> USE DEF Attempts
<1>1. Known' /\ Elected' /\ Leaving'
  BY NamesStep
<1>2. StatesCurrent'
  BY StatesCurrentStep
<1>3. Reached' /\ RoundsFailed'
  BY ReachedStep, FailedStep
<1> QED
  BY <1>1, <1>2, <1>3

(* No poll uses up its rounds as long as fewer hosts than it has rounds can  *)
(* make one fail, because their commands do or because they are created when *)
(* it has read its snapshot: through deletions and crashes, and for any      *)
(* number of other hosts (poller.go, maxElectRetries).                       *)
THEOREM NoPollGivesUp ==
    ASSUME "force" \notin Events, ~StorageErrors, IsFiniteSet(Doubtful),
           Cardinality(Doubtful) < MaxElectRetries
    PROVE  Spec => []NotGivingUp
<1>1. TypeOK /\ Attempts /\ [Next]_vars => Attempts'
  BY AttemptsStep
<1>2. TypeOK /\ Attempts => NotGivingUp
  BY RoundsSuffice DEF Attempts
<1> QED
  BY <1>1, <1>2, AttemptsInit, TypeCorrect, PTL DEF Spec

-----------------------------------------------------------------------------
(* The recorded leader is connected.                                         *)

LEMMA AfreshStep ==
    ASSUME ~StorageErrors, TypeOK, Afresh, [Next]_vars
    PROVE  Afresh'
<1> USE DEF Afresh, Electing, Switch
<1>1. CASE Poll
  <2>1. CASE LoadSnapshot \/ (\E h \in Hosts : CheckHost(h)) \/ ApplyResult
    BY <2>1 DEF LoadSnapshot, CheckHost, ApplyResult, BeginTransition, EndTransition
  <2>2. CASE EvaluateCircuit
    BY <2>2 DEF EvaluateCircuit, Return
  <2>3. CASE ReloadFails \/ ElectNobody \/ KeepLeader \/ GiveUp \/ RecordLeader
    BY <2>3 DEF ReloadFails, ElectNobody, KeepLeader, GiveUp, RecordLeader, Return
  <2>4. CASE \/ (\E h \in Hosts : ElectLeader(h)) \/ Disconnect \/ ClearCommands
            \/ VerifyLeader \/ ConnectSucceeds \/ ConnectFails
    BY <2>4 DEF ElectLeader, Disconnect, ClearCommands, VerifyLeader, SwitchFirst,
                ConnectSucceeds, ConnectFails, BeginTransition, locals, database
  <2>5. CASE DemoteLeader
    BY <2>5 DEF DemoteLeader, EndTransition
  <2>6. CASE Retry
    <3>1. pc' = "elect" /\ attempt' = attempt + 1 /\ attempt \in Nat
      BY <2>6, BoundAssumption DEF Retry, NextAttempt, TypeOK
    <3> QED
      BY <3>1
  <2>7. CASE UpdateDns \/ UnflagOthers \/ FlagLeader
    BY <2>7 DEF UpdateDns, UnflagOthers, FlagLeader, locals, database
  <2> QED
    BY <1>1, <2>1, <2>2, <2>3, <2>4, <2>5, <2>6, <2>7 DEF Poll
<1>2. CASE Environment
  BY <1>2 DEF Environment, CreateHost, DeleteHost, EditCommands, EditFlag, ForceSet,
              BeginApply, EndApply, Crash, Return, Poller, locals, database
<1>3. CASE UNCHANGED vars
  BY <1>3 DEF vars, database, locals
<1> QED
  BY <1>1, <1>2, <1>3 DEF Next

(* The host whose connect command fails is not the leader on record: that    *)
(* one is elected again only after another doubtful host has failed.         *)
LEMMA FailingIsNew ==
    ASSUME Sole, TypeOK, Known, Elected, Afresh, RoundsFailed, pc = "connect",
           leader \in Fragile
    PROVE  leader # leaderId
<1> SUFFICES ASSUME leader = leaderId
             PROVE  FALSE
  OBVIOUS
<1>1. attempt # 0 /\ leader \in Ready(list)
  BY DEF Afresh, Elected, Electing, Switch, Best
<1>2. PICK D \in SUBSET (Doubtful \ Ready(list)) : Cardinality(D) = attempt
  BY DEF RoundsFailed, SpentAmong, Electing, Switch
<1>3. D = {}
  BY <1>1, <1>2 DEF Sole
<1> QED
  BY <1>1, <1>2, <1>3, FS_EmptySet

LEMMA ServesStep ==
    ASSUME Events \subseteq {"create", "delete", "flag", "apply"}, ~StorageErrors,
           Sole, TypeOK, Known, Elected, Leaving, StatesCurrent, CommandsCurrent,
           Recalled, Afresh, Fragile # {} => RoundsFailed, NotGivingUp, LeaderConnected,
           [Next]_vars
    PROVE  LeaderConnected' /\ Recalled'
<1> USE DEF LeaderConnected, Recalled, Connected, StandsBy, Rounds, Electing, Switch
<1>0. leaderId \in commands => leaderId \in rows /\ leaderId \in Hosts
  BY DEF TypeOK
<1>1. CASE Poll
  <2>1. CASE LoadSnapshot \/ (\E h \in Hosts : CheckHost(h)) \/ ApplyResult
    BY <2>1 DEF LoadSnapshot, CheckHost, ApplyResult, BeginTransition, EndTransition,
                database, world
  <2>2. CASE EvaluateCircuit
    BY <2>2 DEF EvaluateCircuit, Return, world
  <2>3. CASE ElectNobody
    <3>1. ~(leaderId \in list.rows /\ state[leaderId] = "ready")
      BY <2>3 DEF ElectNobody, Ready, StatesCurrent
    <3> QED
      BY <2>3, <3>1 DEF ElectNobody, Return, database, world
  <2>4. CASE KeepLeader
    <3>1. prevId # NoHost
      BY <2>4, HostAssumption DEF KeepLeader, Best, Ready, TypeOK, Lists
    <3> QED
      BY <2>4, <3>1 DEF KeepLeader, Return, database, world
  <2>5. CASE ReloadFails \/ GiveUp
    BY <2>5 DEF ReloadFails, GiveUp, NotGivingUp
  <2>6. CASE \E h \in Hosts : ElectLeader(h)
    BY <2>6 DEF ElectLeader, database, world
  <2>7. CASE Disconnect
    <3>1. prevId \in list.rows /\ list.state[prevId] = state[prevId]
      BY <2>7 DEF Disconnect, Leaving, StatesCurrent
    <3>2. prevId = leaderId
      BY <2>7, <3>1, HostAssumption DEF Disconnect, TypeOK, Lists
    <3>3. /\ commands' = commands /\ leaderId' = leaderId /\ state' = state
          /\ rows' = rows /\ UNCHANGED locals /\ connected \ {prevId} \subseteq connected'
          /\ pc' = IF state[prevId] \in Exhausted THEN "clear" ELSE "verify"
      BY <2>7, <3>1 DEF Disconnect, database
    <3>4. pc' = "verify" => state[prevId] = "ready"
      BY <3>1, <3>3 DEF TypeOK, Exhausted, HostState, Lists
    <3>5. prevId \in reach
      BY <2>7 DEF Disconnect, Leaving
    <3> QED
      BY <2>7, <3>1, <3>2, <3>3, <3>4, <3>5 DEF locals
  <2>8. CASE ClearCommands
    BY <2>8 DEF ClearCommands, locals, world
  <2>9. CASE VerifyLeader
    BY <2>9 DEF VerifyLeader, SwitchFirst, BeginTransition, database, world
  <2>10. CASE ConnectSucceeds
    <3>1. leader \in commands => leader \in list.commands
      BY <2>10, ElectedIs DEF ConnectSucceeds, CommandsCurrent
    <3> QED
      BY <2>10, <3>1 DEF ConnectSucceeds, locals
  <2>11. CASE ConnectFails
    <3>1. leader # leaderId
      BY <2>11, FailingIsNew DEF ConnectFails, CommandFails
    <3>2. /\ UNCHANGED <<commands, leaderId, connected, state, reach, list, prevId>>
          /\ pc' = "retry" \/ (pc' = "demote" /\ pending'.host = leader)
      BY <2>11 DEF ConnectFails, BeginTransition, database, world
    <3> QED
      BY <2>11, <3>1, <3>2 DEF ConnectFails
  <2>12. CASE DemoteLeader
    <3>1. /\ UNCHANGED <<commands, leaderId, connected, reach, list, prevId>>
          /\ pc = "demote" /\ pc' = "retry"
          /\ leaderId \in Hosts /\ pending.host # leaderId
                => state'[leaderId] = state[leaderId]
      BY <2>12 DEF DemoteLeader, EndTransition, TypeOK, world
    <3>2. list.rows \subseteq Hosts
      BY DEF TypeOK, Lists
    <3> QED
      BY <3>1, <3>2
  <2>13. CASE Retry
    BY <1>0, <2>13, ListRead DEF Retry, NextPrev, database, world
  <2>14. CASE UpdateDns \/ UnflagOthers \/ FlagLeader
    BY <2>14 DEF UpdateDns, UnflagOthers, FlagLeader, locals, database, world
  <2>15. CASE RecordLeader
    BY <2>15 DEF RecordLeader, Recorded, Return, world
  <2> QED
    BY <1>1, <2>1, <2>2, <2>3, <2>4, <2>5, <2>6, <2>7, <2>8, <2>9, <2>10, <2>11,
       <2>12, <2>13, <2>14, <2>15 DEF Poll
<1>2. CASE Environment
  <2>1. ASSUME NEW h \in Hosts, DeleteHost(h) \/ EditFlag(h)
        PROVE  LeaderConnected' /\ Recalled'
    BY <2>1 DEF DeleteHost, EditFlag, Poller, locals, world
  <2>2. ASSUME NEW h \in Hosts, CreateHost(h)
        PROVE  LeaderConnected' /\ Recalled'
    <3>1. h # leaderId /\ h \notin list.rows
      BY <2>2, HostAssumption DEF CreateHost, Known
    <3>2. pc \in Switch => h # leader
      BY <3>1, ElectedIs
    <3>3. commands' \subseteq commands \cup {h} /\ state' = [state EXCEPT ![h] = "ready"]
          /\ UNCHANGED <<leaderId, connected, pc, locals>>
      BY <2>2 DEF CreateHost, Poller, world
    <3> QED
      BY <3>1, <3>2, <3>3 DEF locals, TypeOK
  <2>3. ASSUME NEW h \in Hosts, NEW s \in HostState,
               EditCommands(h) \/ ForceSet(h, s) \/ Crash
        PROVE  FALSE
    BY <2>3 DEF EditCommands, ForceSet, Crash, Happens
  <2>4. CASE (\E r \in Records : BeginApply(r)) \/ EndApply
    BY <2>4 DEF BeginApply, EndApply, Poller, locals, database, world
  <2>5. CASE Crash
    BY <2>5 DEF Crash, Happens
  <2> QED
    BY <1>2, <2>1, <2>2, <2>3, <2>4, <2>5 DEF Environment, HostState
<1>3. CASE UNCHANGED vars
  BY <1>3 DEF vars, database, world, locals
<1> QED
  BY <1>1, <1>2, <1>3 DEF Next

(* The recorded leader is in service between two polls, whichever hosts      *)
(* fail, recover, are created or deleted, and whatever becomes of the DNS    *)
(* record, unless a poll gives up: if every command succeeds, or if commands *)
(* fail on one host and no host is created meanwhile but that one.           *)
THEOREM LeaderInService ==
    ASSUME Sole, Events \subseteq {"create", "delete", "flag", "apply"}, ~StorageErrors
    PROVE  Spec => ([]NotGivingUp => []LeaderServes)
<1> DEFINE IInv == /\ Known /\ Elected /\ Leaving
                   /\ StatesCurrent /\ CommandsCurrent /\ Recalled /\ Afresh
                   /\ LeaderConnected /\ (Fragile # {} => Reached /\ RoundsFailed)
<1>1. Init => IInv
  BY NamesInit, AttemptsInit, SetsAssumption, HostAssumption
     DEF Init, StatesCurrent, CommandsCurrent, LeaderConnected, Connected, Recalled,
         Afresh, Attempts, Electing, Switch
<1>2. TypeOK /\ IInv /\ NotGivingUp /\ [Next]_vars => IInv'
  <2> SUFFICES ASSUME TypeOK, IInv, NotGivingUp, [Next]_vars
               PROVE  IInv'
    OBVIOUS
  <2>1. Known' /\ Elected' /\ Leaving'
    BY NamesStep
  <2>2. StatesCurrent' /\ CommandsCurrent'
    BY StatesCurrentStep, CommandsStep
  <2>3. LeaderConnected' /\ Recalled' /\ Afresh'
    BY ServesStep, AfreshStep
  <2>4. Fragile # {} => IsFiniteSet(Doubtful)
    <3> SUFFICES ASSUME NEW f \in Fragile
                 PROVE  IsFiniteSet(Doubtful)
      OBVIOUS
    <3>1. Doubtful \subseteq {f} /\ IsFiniteSet({f})
      BY FS_Singleton DEF Sole
    <3> QED
      BY <3>1, FS_Subset
  <2>5. Fragile # {} => Reached' /\ RoundsFailed'
    BY <2>4, ReachedStep, FailedStep
  <2> QED
    BY <2>1, <2>2, <2>3, <2>5
<1>3. IInv => LeaderServes
  BY DEF LeaderConnected, Connected, LeaderServes, Rounds, Electing, Switch
<1> QED
  BY <1>1, <1>2, <1>3, TypeCorrect, PTL DEF Spec

(* So it is if there are fewer doubtful hosts than a poll has rounds.        *)
THEOREM LeaderServesAlways ==
    ASSUME Sole, Events \subseteq {"create", "delete", "flag", "apply"},
           ~StorageErrors, IsFiniteSet(Doubtful), Cardinality(Doubtful) < MaxElectRetries
    PROVE  Spec => []LeaderServes
<1>1. "force" \notin Events
  OBVIOUS
<1>2. Spec => []NotGivingUp
  BY <1>1, NoPollGivesUp
<1>3. Spec => ([]NotGivingUp => []LeaderServes)
  BY LeaderInService
<1> QED
  BY <1>2, <1>3, PTL

-----------------------------------------------------------------------------
(* The best host leads, and the circuit tells whether there is one.          *)

SomeHost == rows # {}

(* Only the polls change states; no host is added or deleted, no statement   *)
(* fails, and the process does not die.                                      *)
Undisturbed ==
    /\ Events \cap {"create", "delete", "force", "crash"} = {}
    /\ ~StorageErrors

LEMMA OnlyEdits ==
    ASSUME Undisturbed, Environment
    PROVE  /\ rows' = rows /\ state' = state /\ leaderId' = leaderId /\ born' = born
           /\ UNCHANGED <<circuitOpen, pc, locals, notice>>
<1>1. ASSUME NEW h \in Hosts, EditCommands(h) \/ EditFlag(h)
      PROVE  /\ rows' = rows /\ state' = state /\ leaderId' = leaderId /\ born' = born
             /\ UNCHANGED <<circuitOpen, pc, locals, notice>>
  BY <1>1 DEF EditCommands, EditFlag, Poller, locals
<1>2. ASSUME NEW h \in Hosts, NEW s \in HostState,
             CreateHost(h) \/ DeleteHost(h) \/ ForceSet(h, s) \/ Crash
      PROVE  FALSE
  BY <1>2 DEF CreateHost, DeleteHost, ForceSet, Crash, Happens, Undisturbed
<1>3. ASSUME NEW r \in Records, BeginApply(r)
      PROVE  /\ rows' = rows /\ state' = state /\ leaderId' = leaderId /\ born' = born
             /\ UNCHANGED <<circuitOpen, pc, locals, notice>>
  BY <1>3 DEF BeginApply, Poller, locals, database
<1>4. CASE EndApply
  BY <1>4 DEF EndApply, Poller, locals, database
<1>5. CASE Crash
  BY <1>5 DEF Crash, Happens, Undisturbed
<1> QED
  BY <1>1, <1>2, <1>3, <1>4, <1>5 DEF Environment, HostState

LEMMA SteadyStep ==
    ASSUME Undisturbed, TypeOK, Known, Elected, RowsCurrent, Closed, Recollected,
           [Next]_vars
    PROVE  RowsCurrent' /\ Closed' /\ Recollected' /\ rows' = rows
<1> USE DEF RowsCurrent, Closed, Recollected, Recalled, Rounds, Electing, Switch
<1>1. CASE Poll
  <2>1. CASE LoadSnapshot \/ (\E h \in Hosts : CheckHost(h)) \/ ApplyResult
    BY <2>1 DEF LoadSnapshot, CheckHost, ApplyResult, BeginTransition, EndTransition,
                database
  <2>2. CASE EvaluateCircuit
    BY <2>2, ListRead DEF EvaluateCircuit, Return, Undisturbed
  <2>3. CASE ReloadFails \/ ElectNobody \/ KeepLeader \/ GiveUp
    BY <2>3 DEF ReloadFails, ElectNobody, KeepLeader, GiveUp, Return, database
  <2>4. CASE \/ (\E h \in Hosts : ElectLeader(h)) \/ Disconnect \/ ClearCommands
            \/ VerifyLeader \/ ConnectSucceeds \/ ConnectFails
    BY <2>4 DEF ElectLeader, Disconnect, ClearCommands, VerifyLeader, SwitchFirst,
                ConnectSucceeds, ConnectFails, BeginTransition, locals, database
  <2>5. CASE DemoteLeader
    BY <2>5 DEF DemoteLeader, EndTransition
  <2>6. CASE Retry
    BY <2>6, ListRead DEF Retry, NextPrev, database
  <2>7. CASE UpdateDns \/ UnflagOthers \/ FlagLeader
    BY <2>7 DEF UpdateDns, UnflagOthers, FlagLeader, locals, database
  <2>8. CASE RecordLeader
    <3>1. leader \in rows
      BY <2>8, ElectedIs DEF RecordLeader
    <3> QED
      BY <2>8, <3>1 DEF RecordLeader, Recorded, Return
  <2> QED
    BY <1>1, <2>1, <2>2, <2>3, <2>4, <2>5, <2>6, <2>7, <2>8 DEF Poll
<1>2. CASE Environment
  BY <1>2, OnlyEdits DEF locals
<1>3. CASE UNCHANGED vars
  BY <1>3 DEF vars, database, locals
<1> QED
  BY <1>1, <1>2, <1>3 DEF Next

LEMMA BestStep ==
    ASSUME Undisturbed, TypeOK, Known, Elected, StatesCurrent, RowsCurrent, Closed,
           Recollected, NotGivingUp, LeaderIsBest, [Next]_vars
    PROVE  LeaderIsBest'
<1> USE DEF LeaderIsBest
<1>1. CASE Poll
  <2>1. CASE \/ LoadSnapshot \/ (\E h \in Hosts : CheckHost(h)) \/ ApplyResult
            \/ EvaluateCircuit
    BY <2>1 DEF LoadSnapshot, CheckHost, ApplyResult, EvaluateCircuit, Return,
                BeginTransition, EndTransition
  <2>2. CASE ReloadFails
    BY <2>2 DEF ReloadFails, Undisturbed
  <2>3. CASE ElectNobody
    BY <2>3 DEF ElectNobody, AllDown, RowsCurrent, Recollected, Electing, database
  <2>4. CASE KeepLeader
    <3>1. leaderId \in Best(Ready(list)) /\ leaderId' = leaderId
      BY <2>4, HostAssumption
         DEF KeepLeader, Recollected, Recalled, Electing, Best, Ready, TypeOK, Lists, database
    <3>2. list.rows = rows /\ \A h \in rows : list.state[h] = state[h]
      BY <2>4 DEF KeepLeader, RowsCurrent, StatesCurrent, Electing
    <3> QED
      BY <2>4, <3>1, <3>2 DEF KeepLeader, Best, Ready, database
  <2>5. CASE GiveUp
    BY <2>5 DEF GiveUp, NotGivingUp
  <2>6. CASE \/ (\E h \in Hosts : ElectLeader(h)) \/ Disconnect \/ ClearCommands
            \/ VerifyLeader \/ ConnectSucceeds \/ ConnectFails
    BY <2>6 DEF ElectLeader, Disconnect, ClearCommands, VerifyLeader, SwitchFirst,
                ConnectSucceeds, ConnectFails, BeginTransition
  <2>7. CASE DemoteLeader \/ Retry \/ UpdateDns \/ UnflagOthers \/ FlagLeader
    BY <2>7 DEF DemoteLeader, Retry, UpdateDns, UnflagOthers, FlagLeader, EndTransition
  <2>8. CASE RecordLeader
    <3>1. list.rows = rows /\ \A h \in rows : list.state[h] = state[h]
      BY <2>8 DEF RecordLeader, RowsCurrent, StatesCurrent, Electing, Switch
    <3>2. leader \in Best(Ready(list))
      BY <2>8 DEF RecordLeader, Elected, Switch
    <3>3. leaderId' = leader /\ rows' = rows /\ state' = state
      BY <2>8 DEF RecordLeader, Recorded, Undisturbed
    <3> QED
      BY <3>1, <3>2, <3>3 DEF Best, Ready
  <2> QED
    BY <1>1, <2>1, <2>2, <2>3, <2>4, <2>5, <2>6, <2>7, <2>8 DEF Poll
<1>2. CASE Environment
  BY <1>2, OnlyEdits
<1>3. CASE UNCHANGED vars
  BY <1>3 DEF vars, database
<1> QED
  BY <1>1, <1>2, <1>3 DEF Next

LEMMA CircuitStep ==
    ASSUME Undisturbed, TypeOK, Known, Elected, StatesCurrent, RowsCurrent, Closed,
           NotGivingUp, rows # {}, CircuitExact, [Next]_vars
    PROVE  CircuitExact'
<1> USE DEF CircuitExact
<1>1. CASE Poll
  <2>1. CASE LoadSnapshot \/ (\E h \in Hosts : CheckHost(h)) \/ ApplyResult
    BY <2>1 DEF LoadSnapshot, CheckHost, ApplyResult, BeginTransition, EndTransition
  <2>2. CASE EvaluateCircuit
    BY <2>2 DEF EvaluateCircuit, Return, AllDown, Ready, ReadHosts
  <2>3. CASE ReloadFails
    BY <2>3 DEF ReloadFails, Undisturbed
  <2>4. CASE ElectNobody
    <3>1. list.rows = rows /\ \A h \in rows : list.state[h] = state[h]
      BY <2>4 DEF ElectNobody, RowsCurrent, StatesCurrent, Electing
    <3> QED
      BY <2>4, <3>1 DEF ElectNobody, AllDown, Ready, database
  <2>5. CASE KeepLeader
    <3>1. prevId \in rows /\ state[prevId] = "ready"
      BY <2>5 DEF KeepLeader, Best, Ready, RowsCurrent, StatesCurrent, Electing
    <3> QED
      BY <2>5, <3>1 DEF KeepLeader, Closed, Rounds, Electing, database
  <2>6. CASE GiveUp
    BY <2>6 DEF GiveUp, NotGivingUp
  <2>7. CASE \/ (\E h \in Hosts : ElectLeader(h)) \/ Disconnect \/ ClearCommands
            \/ VerifyLeader \/ ConnectSucceeds \/ ConnectFails
    BY <2>7 DEF ElectLeader, Disconnect, ClearCommands, VerifyLeader, SwitchFirst,
                ConnectSucceeds, ConnectFails, BeginTransition, locals
  <2>8. CASE DemoteLeader \/ Retry \/ UpdateDns \/ UnflagOthers \/ FlagLeader
    BY <2>8 DEF DemoteLeader, Retry, UpdateDns, UnflagOthers, FlagLeader, EndTransition,
                locals
  <2>9. CASE RecordLeader
    <3>1. leader \in rows /\ state[leader] = "ready"
      BY <2>9, ElectedIs
         DEF RecordLeader, RowsCurrent, StatesCurrent, Electing, Switch
    <3> QED
      BY <2>9, <3>1 DEF RecordLeader, Closed, Rounds, Electing, Switch
  <2> QED
    BY <1>1, <2>1, <2>2, <2>3, <2>4, <2>5, <2>6, <2>7, <2>8, <2>9 DEF Poll
<1>2. CASE Environment
  BY <1>2, OnlyEdits
<1>3. CASE UNCHANGED vars
  BY <1>3 DEF vars, database
<1> QED
  BY <1>1, <1>2, <1>3 DEF Next

Steady ==
    /\ Known /\ Elected /\ Leaving
    /\ StatesCurrent /\ RowsCurrent
    /\ Closed /\ Recollected

LEMMA SteadyInit == Init => Steady
BY NamesInit
   DEF Init, Steady, StatesCurrent, RowsCurrent, Closed, Recollected, Recalled, Rounds,
       Electing, Switch

LEMMA SteadyNext ==
    ASSUME Undisturbed, TypeOK, Steady, [Next]_vars
    PROVE  Steady' /\ rows' = rows
<1> USE DEF Steady
<1>1. Known' /\ Elected' /\ Leaving'
  BY NamesStep
<1>2. StatesCurrent'
  BY StatesCurrentStep DEF Undisturbed
<1>3. RowsCurrent' /\ Closed' /\ Recollected' /\ rows' = rows
  BY SteadyStep
<1> QED
  BY <1>1, <1>2, <1>3

(* Without new hosts the doubtful ones are those whose commands may fail.    *)
LEMMA UndisturbedRounds ==
    ASSUME Undisturbed, IsFiniteSet(Fragile), Cardinality(Fragile) < MaxElectRetries
    PROVE  Spec => []NotGivingUp
<1>1. Doubtful = Fragile /\ "force" \notin Events /\ ~StorageErrors
  BY DEF Doubtful, Undisturbed
<1> QED
  BY <1>1, NoPollGivesUp

(* Design property 8 for any number of hosts: between two polls the recorded *)
(* leader is a ready host of the smallest Priority, unless the circuit is    *)
(* open.  Commands may fail on fewer hosts than maxElectRetries: were they   *)
(* to fail on as many, a poll could give up before it comes to a host that   *)
(* works.                                                                    *)
THEOREM BestLeads ==
    ASSUME Undisturbed, IsFiniteSet(Fragile), Cardinality(Fragile) < MaxElectRetries
    PROVE  Spec => []LeaderIsBest
<1>1. Init => Steady /\ LeaderIsBest
  BY SteadyInit DEF Init, LeaderIsBest
<1>2. TypeOK /\ Steady /\ NotGivingUp /\ LeaderIsBest /\ [Next]_vars
         => Steady' /\ LeaderIsBest'
  BY SteadyNext, BestStep DEF Steady
<1> QED
  BY <1>1, <1>2, UndisturbedRounds, TypeCorrect, PTL DEF Spec

(* Design property 12 for any number of hosts but none, under the same       *)
(* hypotheses: the circuit is open exactly when no host is ready, and only   *)
(* then goes the alarm out.  Without hosts every poll sends the alarm.       *)
THEOREM CircuitTells ==
    ASSUME Undisturbed, IsFiniteSet(Fragile), Cardinality(Fragile) < MaxElectRetries,
           InitialHosts # {}
    PROVE  Spec => []CircuitExact
<1>1. Init => Steady /\ SomeHost /\ CircuitExact
  BY SteadyInit, SetsAssumption DEF Init, SomeHost, CircuitExact, NoState
<1>2. TypeOK /\ Steady /\ NotGivingUp /\ SomeHost /\ CircuitExact /\ [Next]_vars
         => Steady' /\ SomeHost' /\ CircuitExact'
  BY SteadyNext, CircuitStep DEF Steady, SomeHost
<1> QED
  BY <1>1, <1>2, UndisturbedRounds, TypeCorrect, PTL DEF Spec

-----------------------------------------------------------------------------
(* How polls end, with hosts deleted and the process restarted between and   *)
(* during them.                                                              *)

(* No host is missing in the list of an election, and what it says holds.    *)
RowsListed == pc \in Electing => rows \subseteq list.rows
Listed == StatesCurrent /\ RowsListed /\ Closed /\ (~StorageErrors => Recalled)

(* The leader being installed is still the best of the hosts as they are.    *)
BestInstalled == pc \in Switch /\ leader \in rows => leader \in Best(Ready(ReadHosts))

(* A poll comes to its end without giving up.  Then no host is ready and the *)
(* circuit is open, or it is closed and the leader on record is the best of  *)
(* the ready hosts, or has been deleted since it was elected.                *)
PollEnds == Poll /\ NotGivingUp /\ pc # "idle" /\ pc' = "idle"
EndsWell ==
    PollEnds =>
       IF circuitOpen' THEN Ready(ReadHosts)' = {}
       ELSE leaderId' \in rows' => leaderId' \in Best(Ready(ReadHosts)')

LEMMA ListedStep ==
    ASSUME "create" \notin Events, TypeOK, RowsListed, Closed,
           ~StorageErrors => Recalled, [Next]_vars
    PROVE  RowsListed' /\ Closed' /\ (~StorageErrors => Recalled')
<1> USE DEF RowsListed, Closed, Recalled, Rounds, Electing, Switch
<1>1. CASE Poll
  <2>1. CASE LoadSnapshot \/ (\E h \in Hosts : CheckHost(h)) \/ ApplyResult
    BY <2>1 DEF LoadSnapshot, CheckHost, ApplyResult, BeginTransition, EndTransition
  <2>2. CASE EvaluateCircuit
    BY <2>2, ListRead DEF EvaluateCircuit, Return
  <2>3. CASE ReloadFails \/ ElectNobody \/ KeepLeader \/ GiveUp \/ RecordLeader
    BY <2>3 DEF ReloadFails, ElectNobody, KeepLeader, GiveUp, RecordLeader, Return
  <2>4. CASE \/ (\E h \in Hosts : ElectLeader(h)) \/ Disconnect \/ ClearCommands
            \/ VerifyLeader \/ ConnectSucceeds \/ ConnectFails
    BY <2>4 DEF ElectLeader, Disconnect, ClearCommands, VerifyLeader, SwitchFirst,
                ConnectSucceeds, ConnectFails, BeginTransition, locals, database
  <2>5. CASE DemoteLeader
    BY <2>5 DEF DemoteLeader, EndTransition
  <2>6. CASE Retry
    BY <2>6, ListRead DEF Retry, NextPrev, database
  <2>7. CASE UpdateDns \/ UnflagOthers \/ FlagLeader
    BY <2>7 DEF UpdateDns, UnflagOthers, FlagLeader, locals, database
  <2> QED
    BY <1>1, <2>1, <2>2, <2>3, <2>4, <2>5, <2>6, <2>7 DEF Poll
<1>2. CASE Environment
  <2>1. ASSUME NEW h \in Hosts, NEW s \in HostState,
               DeleteHost(h) \/ EditCommands(h) \/ EditFlag(h) \/ ForceSet(h, s)
        PROVE  RowsListed' /\ Closed' /\ (~StorageErrors => Recalled')
    BY <2>1 DEF DeleteHost, EditCommands, EditFlag, ForceSet, Poller, locals
  <2>2. ASSUME NEW h \in Hosts, CreateHost(h)
        PROVE  FALSE
    BY <2>2 DEF CreateHost, Happens
  <2>3. CASE (\E r \in Records : BeginApply(r)) \/ EndApply \/ Crash
    BY <2>3 DEF BeginApply, EndApply, Crash, Return, Poller, locals, database
  <2> QED
    BY <1>2, <2>1, <2>2, <2>3 DEF Environment, HostState
<1>3. CASE UNCHANGED vars
  BY <1>3 DEF vars, database, locals
<1> QED
  BY <1>1, <1>2, <1>3 DEF Next

LEMMA ListedNext ==
    ASSUME "create" \notin Events, "force" \notin Events, TypeOK, Known, Listed, [Next]_vars
    PROVE  Listed'
<1> USE DEF Listed
<1>1. StatesCurrent'
  BY StatesCurrentStep
<1>2. RowsListed' /\ Closed' /\ (~StorageErrors => Recalled')
  BY ListedStep
<1> QED
  BY <1>1, <1>2

LEMMA ReadyListed ==
    ASSUME StatesCurrent, RowsListed, pc \in Electing
    PROVE  Ready(ReadHosts) = Ready(list) \cap rows
BY DEF StatesCurrent, RowsListed, Ready, ReadHosts

LEMMA EndStep ==
    ASSUME ~StorageErrors, TypeOK, Known, Elected, Listed, Poll
    PROVE  EndsWell
<1> SUFFICES ASSUME PollEnds
             PROVE  IF circuitOpen' THEN Ready(ReadHosts)' = {}
                    ELSE leaderId' \in rows' => leaderId' \in Best(Ready(ReadHosts)')
  BY DEF EndsWell
<1> USE DEF Listed, Electing, Switch
<1>1. \/ EvaluateCircuit \/ ReloadFails \/ ElectNobody \/ KeepLeader \/ GiveUp
      \/ RecordLeader
  BY DEF PollEnds, Poll, LoadSnapshot, CheckHost, ApplyResult, ElectLeader, Disconnect,
         ClearCommands, VerifyLeader, SwitchFirst, ConnectSucceeds, ConnectFails,
         DemoteLeader, Retry, UpdateDns, UnflagOthers, FlagLeader, BeginTransition,
         EndTransition
<1>2. Ready(ReadHosts)' = {h \in rows' : state'[h] = "ready"}
  BY DEF Ready, ReadHosts
<1>3. ASSUME rows' = rows, state' = state
      PROVE  Ready(ReadHosts)' = Ready(ReadHosts)
  BY <1>2, <1>3 DEF Ready, ReadHosts
<1>4. CASE EvaluateCircuit
  <2>1. circuitOpen' /\ AllDown(ReadHosts) /\ rows' = rows /\ state' = state
    BY <1>4 DEF EvaluateCircuit, PollEnds
  <2> QED
    BY <1>3, <2>1 DEF AllDown
<1>5. CASE ElectNobody
  <2>1. /\ rows' = rows /\ state' = state /\ Ready(list) = {} /\ pc = "elect"
        /\ circuitOpen' <=> list.rows # {}
    BY <1>5 DEF ElectNobody, AllDown, database
  <2>2. Ready(ReadHosts)' = {}
    BY <1>3, <2>1, ReadyListed
  <2> QED
    BY <2>1, <2>2 DEF RowsListed
<1>6. CASE KeepLeader
  <2>1. /\ rows' = rows /\ state' = state /\ prevId \in Best(Ready(list))
        /\ pc = "elect" /\ circuitOpen' = circuitOpen /\ leaderId' = leaderId
    BY <1>6 DEF KeepLeader, database
  <2>2. ~circuitOpen
    BY <2>1 DEF Closed, Rounds
  <2>3. prevId = leaderId
    BY <2>1, HostAssumption DEF Recalled, Best, Ready, TypeOK, Lists
  <2>4. Ready(ReadHosts)' = Ready(list) \cap rows
    BY <1>3, <2>1, ReadyListed
  <2> QED
    BY <2>1, <2>2, <2>3, <2>4 DEF Best
<1>7. CASE RecordLeader
  <2>1. /\ rows' = rows /\ state' = state /\ leader \in Best(Ready(list))
        /\ pc = "record" /\ circuitOpen' = circuitOpen /\ leaderId' = leader
    BY <1>7 DEF RecordLeader, Recorded, Elected
  <2>2. ~circuitOpen
    BY <2>1 DEF Closed, Rounds
  <2>3. Ready(ReadHosts)' = Ready(list) \cap rows
    BY <1>3, <2>1, ReadyListed
  <2> QED
    BY <2>1, <2>2, <2>3 DEF Best
<1> QED
  BY <1>1, <1>4, <1>5, <1>6, <1>7 DEF ReloadFails, GiveUp, PollEnds, NotGivingUp

LEMMA ListedInit == Init => Listed
BY DEF Init, Listed, StatesCurrent, RowsListed, Closed, Recalled, Rounds, Electing, Switch

(* Whoever is being disconnected, connected, published or recorded as leader *)
(* is the best of the ready hosts as they are at that moment, not only as    *)
(* the election saw them, unless it has been deleted: through deletions,     *)
(* crashes, failing statements and commands that fail.                       *)
THEOREM BestIsInstalled ==
    ASSUME "create" \notin Events, "force" \notin Events
    PROVE  Spec => []BestInstalled
<1>1. TypeOK /\ Known /\ Elected /\ Leaving /\ [Next]_vars => Known' /\ Elected' /\ Leaving'
  BY NamesStep
<1>2. TypeOK /\ Known /\ Listed /\ [Next]_vars => Listed'
  BY ListedNext
<1>3. Elected /\ Listed => BestInstalled
  BY ReadyListed DEF Listed, Elected, BestInstalled, Electing, Best
<1> QED
  BY <1>1, <1>2, <1>3, NamesInit, ListedInit, TypeCorrect, PTL DEF Spec

(* Every poll that does not give up ends well, from whatever state a crash   *)
(* or a deletion left behind: the circuit is open and no host is ready, or   *)
(* the best of the ready hosts leads.                                        *)
THEOREM PollsEndWell ==
    ASSUME "create" \notin Events, "force" \notin Events, ~StorageErrors
    PROVE  Spec => [][EndsWell]_vars
<1>1. TypeOK /\ Known /\ Elected /\ Leaving /\ [Next]_vars => Known' /\ Elected' /\ Leaving'
  BY NamesStep
<1>2. TypeOK /\ Known /\ Listed /\ [Next]_vars => Listed'
  BY ListedNext
<1>3. TypeOK /\ Known /\ Elected /\ Listed /\ [Next]_vars => [EndsWell]_vars
  <2>1. ASSUME Poll, TypeOK, Known, Elected, Listed
        PROVE  EndsWell
    BY <2>1, EndStep
  <2>2. ~Poll => EndsWell
    BY DEF EndsWell, PollEnds
  <2> QED
    BY <2>1, <2>2
<1> QED
  BY <1>1, <1>2, <1>3, NamesInit, ListedInit, TypeCorrect, PTL DEF Spec

-----------------------------------------------------------------------------
(* Polls are bounded: the variant behind PollReturns.                        *)

(* The steps a round of the election still takes.                            *)
RoundSteps ==
    CASE pc = "elect"  -> 10 [] pc = "disconnect" -> 9 [] pc = "clear"  -> 8
      [] pc = "verify" -> 7  [] pc = "connect"    -> 6 [] pc = "ddns"   -> 5
      [] pc = "unflag" -> 4  [] pc = "flag"       -> 3 [] pc = "record" -> 2
      [] pc = "demote" -> 2  [] OTHER -> 1

(* The steps a poll takes at most before it returns: two for each host that  *)
(* is still to be checked and at most ten for each round of its election.    *)
StepsLeft ==
    IF pc = "idle" THEN 0
    ELSE IF pc \in {"check", "apply"}
    THEN 2 * Cardinality(todo) + (IF pc = "apply" THEN 1 ELSE 0) + 10 * MaxElectRetries + 11
    ELSE 10 * (MaxElectRetries - attempt) + RoundSteps

Shortens ==
    /\ Poll /\ pc # "idle" => StepsLeft' < StepsLeft
    /\ ~Poll => StepsLeft' <= StepsLeft
    /\ LoadSnapshot => StepsLeft' = 2 * Cardinality(rows) + 10 * MaxElectRetries + 11

Finite == IsFiniteSet(rows) /\ IsFiniteSet(todo)

LEMMA FiniteStep ==
    ASSUME Finite, [Next]_vars
    PROVE  Finite'
<1>1. \/ rows' = rows
      \/ \E h \in Hosts : rows' = rows \cup {h} \/ rows' = rows \ {h}
  BY DEF Next, Poll, Environment, LoadSnapshot, CheckHost, ApplyResult, EvaluateCircuit,
         ReloadFails, ElectNobody, KeepLeader, ElectLeader, GiveUp, Disconnect,
         ClearCommands, VerifyLeader, ConnectSucceeds, ConnectFails, DemoteLeader, Retry,
         UpdateDns, UnflagOthers, FlagLeader, RecordLeader, CreateHost, DeleteHost,
         EditCommands, EditFlag, ForceSet, BeginApply, EndApply, Crash, vars, database
<1>2. todo' \in {todo, {}, rows} \/ \E h \in Hosts : todo' = todo \ {h}
  BY DEF Next, Poll, Environment, LoadSnapshot, CheckHost, ApplyResult, EvaluateCircuit,
         ReloadFails, ElectNobody, KeepLeader, ElectLeader, GiveUp, Disconnect,
         ClearCommands, VerifyLeader, ConnectSucceeds, ConnectFails, DemoteLeader, Retry,
         UpdateDns, UnflagOthers, FlagLeader, RecordLeader, CreateHost, DeleteHost,
         EditCommands, EditFlag, ForceSet, BeginApply, EndApply, Crash, Return, Poller,
         vars, locals
<1>3. IsFiniteSet(rows')
  BY <1>1, FS_AddElement, FS_RemoveElement DEF Finite
<1>4. IsFiniteSet(todo')
  BY <1>2, FS_EmptySet, FS_RemoveElement DEF Finite
<1> QED
  BY <1>3, <1>4 DEF Finite

LEMMA StepsPositive ==
    ASSUME TypeOK, Finite
    PROVE  StepsLeft \in Nat /\ (pc # "idle" => StepsLeft > 0)
<1>1. Cardinality(todo) \in Nat
  BY FS_CardinalityType DEF Finite
<1>2. MaxElectRetries \in Nat /\ attempt \in 0..MaxElectRetries
  BY BoundAssumption DEF TypeOK
<1>3. RoundSteps \in 1..10
  BY DEF RoundSteps
<1> QED
  BY <1>1, <1>2, <1>3 DEF StepsLeft

LEMMA PollShortens ==
    ASSUME TypeOK, Finite, RoundLeft, Poll, pc # "idle"
    PROVE  StepsLeft' < StepsLeft
<1>1. Cardinality(todo) \in Nat
  BY FS_CardinalityType DEF Finite
<1>2. /\ MaxElectRetries \in Nat /\ attempt \in Nat /\ attempt <= MaxElectRetries
      /\ pc \in InRound => attempt < MaxElectRetries
  BY BoundAssumption DEF TypeOK, RoundLeft
<1>3. ASSUME pc' = "idle"
      PROVE  StepsLeft' < StepsLeft
  <2>1. StepsLeft' = 0
    BY <1>3 DEF StepsLeft
  <2> QED
    BY <2>1, StepsPositive
<1>4. ASSUME pc \notin {"idle", "check", "apply"}, pc' \notin {"idle", "check", "apply"},
             attempt' = attempt, RoundSteps' < RoundSteps
      PROVE  StepsLeft' < StepsLeft
  <2>1. RoundSteps \in 1..10 /\ RoundSteps' \in 1..10
    BY DEF RoundSteps
  <2>2. /\ StepsLeft = 10 * (MaxElectRetries - attempt) + RoundSteps
        /\ StepsLeft' = 10 * (MaxElectRetries - attempt) + RoundSteps'
    BY <1>4 DEF StepsLeft
  <2>3. \A k, m, n \in Nat : m < n => k + m < k + n
    OBVIOUS
  <2>4. 10 * (MaxElectRetries - attempt) \in Nat
    BY <1>2
  <2> QED
    BY <1>4, <2>1, <2>2, <2>3, <2>4
<1>5. ASSUME NEW h \in Hosts, CheckHost(h)
      PROVE  StepsLeft' < StepsLeft
  <2>1. /\ pc = "check" /\ h \in todo /\ todo' = todo \ {h} /\ pc' \in {"check", "apply"}
    BY <1>5 DEF CheckHost, BeginTransition
  <2>2. Cardinality(todo') = Cardinality(todo) - 1 /\ Cardinality(todo) > 0
    BY <1>1, <2>1, FS_RemoveElement, FS_EmptySet DEF Finite
  <2> QED
    BY <1>1, <1>2, <2>1, <2>2 DEF StepsLeft
<1>6. CASE ApplyResult
  <2>1. pc = "apply" /\ pc' = "check" /\ todo' = todo
    BY <1>6 DEF ApplyResult, EndTransition
  <2> QED
    BY <1>1, <1>2, <2>1 DEF StepsLeft
<1>7. CASE EvaluateCircuit
  <2>1. pc = "check" /\ (pc' = "idle" \/ (pc' = "elect" /\ attempt' = attempt))
    BY <1>7 DEF EvaluateCircuit, Return
  <2> QED
    BY <1>1, <1>2, <1>3, <2>1 DEF StepsLeft, RoundSteps
<1>8. CASE ReloadFails \/ ElectNobody \/ KeepLeader \/ GiveUp \/ RecordLeader
  BY <1>3, <1>8 DEF ReloadFails, ElectNobody, KeepLeader, GiveUp, RecordLeader, Return
<1>9. CASE \/ (\E h \in Hosts : ElectLeader(h)) \/ Disconnect \/ ClearCommands
          \/ ConnectSucceeds \/ UpdateDns \/ UnflagOthers \/ FlagLeader
  BY <1>4, <1>9 DEF ElectLeader, Disconnect, ClearCommands, ConnectSucceeds, UpdateDns,
                    UnflagOthers, FlagLeader, locals, RoundSteps
<1>10. CASE VerifyLeader \/ ConnectFails \/ DemoteLeader
  BY <1>4, <1>10 DEF VerifyLeader, SwitchFirst, ConnectFails, DemoteLeader,
                     BeginTransition, EndTransition, RoundSteps
<1>11. CASE Retry
  <2>1. pc = "retry" /\ pc' = "elect" /\ attempt' = attempt + 1
    BY <1>11 DEF Retry, NextAttempt
  <2> QED
    BY <1>2, <2>1 DEF StepsLeft, RoundSteps, InRound
<1>12. ~LoadSnapshot
  BY DEF LoadSnapshot
<1> QED
  BY <1>5, <1>6, <1>7, <1>8, <1>9, <1>10, <1>11, <1>12 DEF Poll

LEMMA OthersDoNotLengthen ==
    ASSUME TypeOK, Finite, [Next]_vars, ~Poll
    PROVE  StepsLeft' <= StepsLeft
<1>1. StepsLeft \in Nat
  BY StepsPositive
<1>2. CASE pc' = "idle"
  BY <1>1, <1>2 DEF StepsLeft
<1>3. CASE pc' # "idle"
  <2>1. pc' = pc /\ todo' = todo /\ attempt' = attempt
    BY <1>3 DEF Next, Environment, CreateHost, DeleteHost, EditCommands, EditFlag,
                ForceSet, BeginApply, EndApply, Crash, Return, Poller, vars, locals
  <2>2. StepsLeft' = StepsLeft
    BY <2>1 DEF StepsLeft, RoundSteps
  <2> QED
    BY <1>1, <2>2
<1> QED
  BY <1>2, <1>3

(* Every step of a poll brings it closer to its end, and no handler takes it *)
(* further away, whatever fails: a poll of n hosts returns after at most     *)
(* 2n + 10 * maxElectRetries + 11 steps of its own.                          *)
THEOREM PollsAreBounded ==
    ASSUME IsFiniteSet(InitialHosts)
    PROVE  Spec => [](StepsLeft \in Nat) /\ [][Shortens]_vars
<1>1. Init => Finite
  BY FS_EmptySet DEF Init, Finite
<1>2. Finite /\ [Next]_vars => Finite'
  BY FiniteStep
<1>3. TypeOK /\ Finite => StepsLeft \in Nat
  BY StepsPositive
<1>4. TypeOK /\ RoundLeft /\ Finite /\ [Next]_vars => [Shortens]_vars
  <2> SUFFICES ASSUME TypeOK, RoundLeft, Finite, [Next]_vars
               PROVE  Shortens
    OBVIOUS
  <2>1. LoadSnapshot => StepsLeft' = 2 * Cardinality(rows) + 10 * MaxElectRetries + 11
    <3> SUFFICES ASSUME LoadSnapshot
                 PROVE  StepsLeft' = 2 * Cardinality(rows) + 10 * MaxElectRetries + 11
      OBVIOUS
    <3>1. pc' = "check" /\ todo' = rows /\ Cardinality(rows) \in Nat
      BY FS_CardinalityType DEF LoadSnapshot, Finite
    <3> QED
      BY <3>1, BoundAssumption DEF StepsLeft
  <2> QED
    BY <2>1, PollShortens, OthersDoNotLengthen DEF Shortens
<1> QED
  BY <1>1, <1>2, <1>3, <1>4, TypeCorrect, PTL DEF Spec

-----------------------------------------------------------------------------
(* The verdicts of a poll are confirmed: PollObserver.                       *)

LEMMA ExtendGrows ==
    ASSUME NEW t \in Nat \ {0}, NEW r \in 0..t, NEW s \in 0..t, r <= s
    PROVE  Extend(r, t) \in 0..t /\ Extend(r, t) <= Extend(s, t)
BY DEF Extend

LEMMA CountedStep ==
    ASSUME Counted, [ObservedNext]_<<vars, history>>
    PROVE  Counted'
<1>1. CASE ObserveSnapshot
  <2>1. ASSUME NEW h \in Hosts
        PROVE  /\ Extend(misses[h], FailThreshold) \in 0..FailThreshold
               /\ Extend(hits[h], RecoverThreshold) \in 0..RecoverThreshold
    BY ExtendType, ThresholdAssumption DEF Counted
  <2> QED
    BY <1>1, <2>1, ThresholdAssumption DEF ObserveSnapshot, Counted
<1>2. CASE UNCHANGED <<misses, hits>>
  BY <1>2 DEF Counted
<1> QED
  BY <1>1, <1>2 DEF ObservedNext, history

(* A snapshot lengthens the counters as the checks will lengthen the streaks.*)
LEMMA SnapshotNoticed ==
    ASSUME TypeOK, Counted, Noticed, Checked, LoadSnapshot, ObserveSnapshot
    PROVE  Noticed' /\ Checked' /\ VerdictJust'
<1>1. /\ rows' = rows /\ todo' = rows /\ pc' = "check" /\ snap'.state = state
      /\ state' = state /\ todo = {} /\ failStreak' = failStreak
      /\ recoverStreak' = recoverStreak
  BY DEF LoadSnapshot, Checked, database, streaks
<1>2. ASSUME NEW h \in rows
      PROVE  NextFails(h)' <= misses'[h] /\ NextHits(h)' <= hits'[h]
  <2>1. /\ h \in Hosts /\ failStreak[h] \in 0..FailThreshold /\ failStreak[h] <= misses[h]
        /\ recoverStreak[h] \in 0..RecoverThreshold /\ recoverStreak[h] <= hits[h]
        /\ misses[h] \in 0..FailThreshold /\ hits[h] \in 0..RecoverThreshold
    BY <1>1, <1>2 DEF TypeOK, Counted, Noticed
  <2>2. /\ Extend(failStreak[h], FailThreshold) <= Extend(misses[h], FailThreshold)
        /\ Extend(recoverStreak[h], RecoverThreshold) <= Extend(hits[h], RecoverThreshold)
    BY <2>1, ExtendGrows, ThresholdAssumption
  <2>3. /\ misses'[h] = IF h \in snap'.ok THEN 0 ELSE Extend(misses[h], FailThreshold)
        /\ hits'[h] = IF h \in snap'.ok THEN Extend(hits[h], RecoverThreshold) ELSE 0
    BY <2>1 DEF ObserveSnapshot
  <2> QED
    BY <1>1, <2>2, <2>3 DEF NextFails, NextHits
<1>3. Noticed'
  BY <1>1, <1>2 DEF Noticed
<1>4. Checked' /\ VerdictJust'
  BY <1>1 DEF Checked, VerdictJust
<1> QED
  BY <1>3, <1>4

(* A check writes into the streaks what the counters already tell.           *)
LEMMA CheckNoticed ==
    ASSUME TypeOK, Counted, Noticed, NEW g \in Hosts, CheckHost(g), history' = history
    PROVE  Noticed'
<1>1. /\ rows' = rows /\ todo' = todo \ {g} /\ snap' = snap /\ g \in todo
      /\ failStreak' = [failStreak EXCEPT ![g] = NextFails(g)]
      /\ recoverStreak' = [recoverStreak EXCEPT ![g] = NextHits(g)]
      /\ misses' = misses /\ hits' = hits
  BY DEF CheckHost, database, history
<1>2. ASSUME NEW h \in rows
      PROVE  /\ (IF h \in todo' THEN NextFails(h)' ELSE failStreak'[h]) <= misses'[h]
             /\ (IF h \in todo' THEN NextHits(h)' ELSE recoverStreak'[h]) <= hits'[h]
  <2>1. CASE h = g
    BY <1>1, <2>1 DEF Noticed, TypeOK
  <2>2. CASE h # g
    <3>1. failStreak'[h] = failStreak[h] /\ recoverStreak'[h] = recoverStreak[h]
      BY <1>1, <2>2 DEF TypeOK
    <3>2. NextFails(h)' = NextFails(h) /\ NextHits(h)' = NextHits(h)
      BY <1>1, <3>1 DEF NextFails, NextHits
    <3> QED
      BY <1>1, <2>2, <3>1, <3>2 DEF Noticed
  <2> QED
    BY <2>1, <2>2
<1> QED
  BY <1>1, <1>2 DEF Noticed

LEMMA NoticedStep ==
    ASSUME "create" \notin Events,
           TypeOK, Counted, Noticed, Checked, [Next]_vars, ~LoadSnapshot, history' = history
    PROVE  Noticed'
<1>1. ASSUME rows' \subseteq rows, todo' = todo, snap' = snap \/ todo = {},
             UNCHANGED streaks
      PROVE  Noticed'
  BY <1>1 DEF Noticed, NextFails, NextHits, streaks, history
<1>2. CASE Poll
  <2>1. ASSUME NEW g \in Hosts, CheckHost(g)
        PROVE  Noticed'
    BY <2>1, CheckNoticed
  <2>2. CASE ApplyResult \/ EvaluateCircuit \/ ReloadFails
    BY <1>1, <2>2 DEF ApplyResult, EvaluateCircuit, ReloadFails, Return, database
  <2>3. CASE \/ ElectNobody \/ KeepLeader \/ (\E h \in Hosts : ElectLeader(h))
            \/ GiveUp \/ RecordLeader
    BY <1>1, <2>3 DEF ElectNobody, KeepLeader, ElectLeader, GiveUp, RecordLeader, Return,
                      Checked, database
  <2>4. CASE \/ Disconnect \/ ClearCommands \/ VerifyLeader \/ ConnectSucceeds
            \/ ConnectFails
    BY <1>1, <2>4 DEF Disconnect, ClearCommands, VerifyLeader, ConnectSucceeds,
                      ConnectFails, database, locals
  <2>5. CASE \/ DemoteLeader \/ Retry \/ UpdateDns \/ UnflagOthers \/ FlagLeader
    BY <1>1, <2>5 DEF DemoteLeader, Retry, UpdateDns, UnflagOthers, FlagLeader, database,
                      locals
  <2> QED
    BY <1>2, <2>1, <2>2, <2>3, <2>4, <2>5 DEF Poll
<1>3. CASE Environment
  <2>1. ASSUME NEW h \in Hosts, NEW s \in HostState,
               DeleteHost(h) \/ EditCommands(h) \/ EditFlag(h) \/ ForceSet(h, s)
        PROVE  Noticed'
    BY <1>1, <2>1 DEF DeleteHost, EditCommands, EditFlag, ForceSet, Poller, locals
  <2>2. ASSUME NEW h \in Hosts, CreateHost(h)
        PROVE  FALSE
    BY <2>2 DEF CreateHost, Happens
  <2>3. CASE (\E r \in Records : BeginApply(r)) \/ EndApply
    BY <1>1, <2>3 DEF BeginApply, EndApply, Poller, locals, database
  <2>4. CASE Crash
    <3>1. /\ rows' = rows /\ todo' = {} /\ misses' = misses /\ hits' = hits
          /\ \A h \in Hosts : failStreak'[h] = 0 /\ recoverStreak'[h] = 0
      BY <2>4 DEF Crash, Return, database, history
    <3> QED
      BY <3>1 DEF Noticed, TypeOK, Counted
  <2> QED
    BY <1>3, <2>1, <2>2, <2>3, <2>4 DEF Environment, HostState
<1>4. CASE UNCHANGED vars
  BY <1>1, <1>4 DEF vars, database, locals
<1> QED
  BY <1>2, <1>3, <1>4 DEF Next

(* What a check finds is confirmed: an unreachable host has been missed, and *)
(* a host that is revived has been found, as often as the thresholds say.    *)
LEMMA CheckConfirms ==
    ASSUME TypeOK, Counted, Noticed, Checked, NEW h \in rows, CheckHost(h)
    PROVE  /\ ~CheckVerdict(h) => state[h] = "dead" \/ MissesConfirmed(h)
           /\ CheckVerdict(h) /\ state[h] = "dead" => hits[h] >= RecoverThreshold
<1>1. h \in todo /\ h \in Hosts /\ snap.state[h] = state[h]
  BY DEF CheckHost, Checked, TypeOK
<1>2. NextFails(h) <= misses[h] /\ NextHits(h) <= hits[h]
  BY <1>1 DEF Noticed
<1>3. /\ misses[h] \in Nat /\ hits[h] \in Nat
      /\ NextFails(h) \in Nat /\ NextHits(h) \in Nat
  <2>1. /\ failStreak[h] \in 0..FailThreshold /\ recoverStreak[h] \in 0..RecoverThreshold
        /\ misses[h] \in Nat /\ hits[h] \in Nat
    BY <1>1 DEF TypeOK, Counted
  <2> QED
    BY <2>1, ExtendType, ThresholdAssumption DEF NextFails, NextHits
<1> QED
  BY <1>1, <1>2, <1>3, ThresholdAssumption
     DEF CheckVerdict, EffectiveReachable, FailConfirmed, RecoverConfirmed,
         MissesConfirmed

LEMMA CheckedStep ==
    ASSUME "create" \notin Events, "force" \notin Events,
           TypeOK, Counted, Noticed, Checked, VerdictJust,
           [Next]_vars, ~LoadSnapshot, history' = history
    PROVE  Checked'
<1> USE DEF Checked, MissesConfirmed, history
<1>1. CASE Poll
  <2>1. ASSUME NEW h \in Hosts, CheckHost(h)
        PROVE  Checked'
    <3>1. /\ pc = "check" /\ h \in todo /\ todo' = todo \ {h}
          /\ state' = state /\ rows' = rows /\ snap' = snap
          /\ pc' \in {"check", "apply"}
          /\ reach' = IF CheckVerdict(h) THEN reach \cup {h} ELSE reach
      BY <2>1 DEF CheckHost, BeginTransition, database
    <3>2. h \in rows => h \in reach' \/ state[h] = "dead" \/ misses[h] >= FailThreshold
      BY <2>1, <3>1, CheckConfirms
    <3> QED
      BY <3>1, <3>2
  <2>2. CASE ApplyResult
    BY <2>2 DEF ApplyResult, EndTransition, TypeOK, VerdictJust
  <2>3. CASE EvaluateCircuit \/ ReloadFails
    BY <2>3 DEF EvaluateCircuit, ReloadFails, Return
  <2>4. CASE \/ ElectNobody \/ KeepLeader \/ (\E h \in Hosts : ElectLeader(h))
            \/ GiveUp \/ RecordLeader
    BY <2>4 DEF ElectNobody, KeepLeader, ElectLeader, GiveUp, RecordLeader, Return,
                database
  <2>5. CASE \/ Disconnect \/ ClearCommands \/ VerifyLeader \/ ConnectSucceeds
            \/ ConnectFails
    BY <2>5 DEF Disconnect, ClearCommands, VerifyLeader, SwitchFirst, ConnectSucceeds,
                ConnectFails, BeginTransition, database, locals
  <2>6. CASE DemoteLeader
    BY <2>6 DEF DemoteLeader, EndTransition, TypeOK, VerdictJust
  <2>7. CASE Retry \/ UpdateDns \/ UnflagOthers \/ FlagLeader
    BY <2>7 DEF Retry, UpdateDns, UnflagOthers, FlagLeader, database, locals
  <2> QED
    BY <1>1, <2>1, <2>2, <2>3, <2>4, <2>5, <2>6, <2>7 DEF Poll
<1>2. CASE Environment
  <2>1. ASSUME NEW h \in Hosts, DeleteHost(h) \/ EditCommands(h) \/ EditFlag(h)
        PROVE  Checked'
    BY <2>1 DEF DeleteHost, EditCommands, EditFlag, Poller, locals
  <2>2. ASSUME NEW h \in Hosts, NEW s \in HostState, CreateHost(h) \/ ForceSet(h, s)
        PROVE  FALSE
    BY <2>2 DEF CreateHost, ForceSet, Happens
  <2>3. CASE (\E r \in Records : BeginApply(r)) \/ EndApply \/ Crash
    BY <2>3 DEF BeginApply, EndApply, Crash, Return, Poller, locals, database
  <2> QED
    BY <1>2, <2>1, <2>2, <2>3 DEF Environment, HostState
<1>3. CASE UNCHANGED vars
  BY <1>3 DEF vars, database, locals
<1> QED
  BY <1>1, <1>2, <1>3 DEF Next

LEMMA VerdictStep ==
    ASSUME "create" \notin Events, "force" \notin Events,
           TypeOK, Counted, Noticed, Checked, VerdictJust,
           [Next]_vars, ~LoadSnapshot, history' = history
    PROVE  VerdictJust'
<1> USE DEF VerdictJust, MissesConfirmed, history
<1>1. CASE Poll
  <2>1. ASSUME NEW h \in Hosts, CheckHost(h)
        PROVE  VerdictJust'
    <3>1. /\ h \notin todo' /\ state' = state /\ rows' = rows
          /\ pc' = "check" \/ pc' = "apply"
          /\ CheckVerdict(h) => h \in reach'
      BY <2>1 DEF CheckHost, BeginTransition, database
    <3>2. pc' = "apply" => /\ h \in rows /\ pending'.host = h /\ state[h] # pending'.to
                           /\ pending'.to = "dead" <=> ~CheckVerdict(h)
      BY <2>1 DEF CheckHost, BeginTransition, Wanted, CheckTarget
    <3>3. h \in rows => /\ ~CheckVerdict(h) => state[h] = "dead" \/ misses[h] >= FailThreshold
                        /\ CheckVerdict(h) /\ state[h] = "dead"
                               => hits[h] >= RecoverThreshold
      BY <2>1, CheckConfirms
    <3> QED
      BY <3>1, <3>2, <3>3
  <2>2. CASE ApplyResult \/ EvaluateCircuit \/ ReloadFails \/ ElectNobody
    BY <2>2 DEF ApplyResult, EvaluateCircuit, ReloadFails, ElectNobody, Return,
                EndTransition
  <2>3. CASE KeepLeader \/ GiveUp \/ RecordLeader
    BY <2>3 DEF KeepLeader, GiveUp, RecordLeader, Return
  <2>4. CASE (\E h \in Hosts : ElectLeader(h)) \/ Disconnect \/ ClearCommands
    BY <2>4 DEF ElectLeader, Disconnect, ClearCommands
  <2>5. CASE VerifyLeader
    <3>1. leader \in rows \ reach => state[leader] = "dead" \/ MissesConfirmed(leader)
      BY <2>5 DEF VerifyLeader, Checked
    <3> QED
      BY <2>5, <3>1 DEF VerifyLeader, SwitchFirst, BeginTransition, Wanted, database
  <2>6. CASE ConnectSucceeds \/ ConnectFails
    BY <2>6 DEF ConnectSucceeds, ConnectFails, BeginTransition
  <2>7. CASE DemoteLeader \/ Retry \/ UpdateDns \/ UnflagOthers \/ FlagLeader
    BY <2>7 DEF DemoteLeader, Retry, UpdateDns, UnflagOthers, FlagLeader, EndTransition
  <2> QED
    BY <1>1, <2>1, <2>2, <2>3, <2>4, <2>5, <2>6, <2>7 DEF Poll
<1>2. CASE Environment
  <2>1. ASSUME NEW h \in Hosts, DeleteHost(h) \/ EditCommands(h) \/ EditFlag(h)
        PROVE  VerdictJust'
    BY <2>1 DEF DeleteHost, EditCommands, EditFlag, Poller, locals
  <2>2. ASSUME NEW h \in Hosts, NEW s \in HostState, CreateHost(h) \/ ForceSet(h, s)
        PROVE  FALSE
    BY <2>2 DEF CreateHost, ForceSet, Happens
  <2>3. CASE (\E r \in Records : BeginApply(r)) \/ EndApply \/ Crash
    BY <2>3 DEF BeginApply, EndApply, Crash, Return, Poller, locals, database
  <2> QED
    BY <1>2, <2>1, <2>2, <2>3 DEF Environment, HostState
<1>3. CASE UNCHANGED vars
  BY <1>3 DEF vars, database, locals
<1> QED
  BY <1>1, <1>2, <1>3 DEF Next

(* Of the steps that count no event only the two writes of a transition      *)
(* change a state, and each that of the host it was decided for.             *)
LEMMA OnlyVerdicts ==
    ASSUME TypeOK, [Next]_vars, events' = events, NEW h \in Hosts, state'[h] # state[h]
    PROVE  pc \in {"apply", "demote"} /\ h = pending.host /\ state'[h] = pending.to
<1>1. CASE Poll
  <2>1. CASE ApplyResult \/ DemoteLeader
    BY <2>1 DEF ApplyResult, DemoteLeader, EndTransition, TypeOK
  <2>2. CASE ~ApplyResult /\ ~DemoteLeader
    BY <1>1, <2>2
       DEF Poll, LoadSnapshot, CheckHost, EvaluateCircuit, ReloadFails, ElectNobody,
           KeepLeader, ElectLeader, GiveUp, Disconnect, ClearCommands, VerifyLeader,
           ConnectSucceeds, ConnectFails, Retry, UpdateDns, UnflagOthers, FlagLeader,
           RecordLeader, database
  <2> QED
    BY <2>1, <2>2
<1>2. CASE Environment
  <2>1. ASSUME NEW kind, Happens(kind)
        PROVE  FALSE
    BY <2>1, BoundAssumption DEF Happens, TypeOK
  <2>2. EndApply
    BY <1>2, <2>1 DEF Environment, CreateHost, DeleteHost, ForceSet, EditCommands,
                      EditFlag, BeginApply, Crash
  <2> QED
    BY <2>2 DEF EndApply, database
<1>3. CASE UNCHANGED vars
  BY <1>3 DEF vars, database
<1> QED
  BY <1>1, <1>2, <1>3 DEF Next

LEMMA VerdictsTold ==
    ASSUME TypeOK, VerdictJust, [Next]_vars, NEW h \in Hosts, PollStep
    PROVE  /\ Moves(h, {"ready", "full"}, {"dead"})
                => MissesConfirmed(h) \/ (h = leader /\ h \in reach)
           /\ Moves(h, {"dead"}, {"ready", "full"}) => hits[h] >= RecoverThreshold
<1> SUFFICES ASSUME h \in rows, state'[h] # state[h]
             PROVE  /\ state'[h] = "dead" => MissesConfirmed(h) \/ (h = leader /\ h \in reach)
                    /\ state[h] = "dead" => hits[h] >= RecoverThreshold
  BY DEF Moves
<1>1. pc \in {"apply", "demote"} /\ h = pending.host /\ state'[h] = pending.to
  BY OnlyVerdicts DEF PollStep
<1> QED
  BY <1>1 DEF VerdictJust

(* Without forced states and new hosts the verdicts of the polls are right   *)
(* for every pair of thresholds, through lost statements, deletions and      *)
(* crashes: a host dies only after as many snapshots in a row have missed    *)
(* it, or when its pre_command failed, and comes back only after as many     *)
(* have found it.                                                            *)
THEOREM VerdictsHold ==
    ASSUME "create" \notin Events, "force" \notin Events
    PROVE  ObservedSpec => VerdictsConfirmed
<1> DEFINE IInv == TypeOK /\ RoundLeft /\ Counted /\ Noticed /\ Checked /\ VerdictJust
<1>1. ObservedInit => IInv
  BY TypeInit, ThresholdAssumption, SetsAssumption
     DEF ObservedInit, Init, Counted, Noticed, Checked, VerdictJust
<1>2. IInv /\ [ObservedNext]_<<vars, history>> => IInv'
  <2> SUFFICES ASSUME IInv, [ObservedNext]_<<vars, history>>
               PROVE  IInv'
    OBVIOUS
  <2>1. [Next]_vars
    BY DEF ObservedNext, Next, Poll
  <2>2. TypeOK' /\ RoundLeft'
    BY <2>1, TypeStep
  <2>3. Counted'
    BY CountedStep
  <2>4. CASE LoadSnapshot /\ ObserveSnapshot
    BY <2>2, <2>3, <2>4, SnapshotNoticed
  <2>5. CASE ~LoadSnapshot /\ history' = history
    BY <2>1, <2>2, <2>3, <2>5, NoticedStep, CheckedStep, VerdictStep
  <2>6. CASE UNCHANGED <<vars, history>>
    <3>1. ~LoadSnapshot
      BY <2>6 DEF LoadSnapshot, vars
    <3> QED
      BY <2>5, <2>6, <3>1
  <2> QED
    BY <2>4, <2>5, <2>6 DEF ObservedNext, history
<1>3. IInv /\ [ObservedNext]_<<vars, history>>
         => /\ [\A h \in Hosts : PollStep /\ Moves(h, {"ready", "full"}, {"dead"})
                    => misses[h] >= FailThreshold \/ (h = leader /\ h \in reach)]_vars
            /\ [\A h \in Hosts : PollStep /\ Moves(h, {"dead"}, {"ready", "full"})
                    => hits[h] >= RecoverThreshold]_vars
  <2>1. [ObservedNext]_<<vars, history>> => [Next]_vars
    BY DEF ObservedNext, Next, Poll
  <2> QED
    BY <2>1, VerdictsTold DEF MissesConfirmed
<1> QED
  BY <1>1, <1>2, <1>3, PTL DEF ObservedSpec, VerdictsConfirmed, DeathConfirmed, RevivalConfirmed
=============================================================================
