---------------------------- MODULE AgentLink_proofs ---------------------------
(* Theorems about the link between a host's agent and the poller, for any     *)
(* values of the panel's settings.                                           *)
EXTENDS AgentLink, TLAPS

On == phase # "off"        \* the host is up

(* The time until the next report's request is over at the latest.           *)
NextIn ==
    LET left == Limit[phase] - spent
    IN  CASE phase = "fetch" -> left + ProbeLimit + RequestLimit
          [] phase = "probe" -> left + RequestLimit
          [] phase = "post"  -> IF arrived THEN left + Cycle ELSE left
          [] phase = "sleep" -> left + ReportIn
          [] phase = "off"   -> 0

(* From one report to the next at the latest.                                *)
Span == RequestLimit + Cycle

(* A bad report has arrived and its request is not over.                     *)
Spoilt == phase = "post" /\ arrived /\ ~probe

(* A report was bad or lost, so the next one will be good.                   *)
Awaited == Spoilt \/ (good = 0 /\ ~(phase = "post" /\ arrived))

(* The last report is good, and will not be too old before the next one.     *)
Fresh == report /\ age + NextIn <= Span

(* The time until the next bad report arrives at the earliest.               *)
Spare == (Spacing - good) * Interval
Calm ==
    CASE phase = "sleep" -> (Interval - spent) + Spare
      [] phase = "post" /\ arrived ->
            IF ~probe THEN 0 ELSE IF good < Spacing THEN Spare ELSE Interval
      [] OTHER -> Spare

(* The time that so many polls take, in a row.                               *)
FailTime    == fails * MaxGap
LeastFail   == fails * PollInterval
HitTime     == hits * MaxGap
FailLimit   == FailThreshold * MaxGap
HitLimit    == RecoverThreshold * MaxGap

(* The constants' types.                                                     *)
LEMMA LinkConstants ==
    /\ Interval \in Nat /\ RequestLimit \in Nat /\ ProbeLimit \in Nat /\ Timeout \in Nat
    /\ PollInterval \in Nat /\ PollTime \in Nat /\ Spacing \in Nat
    /\ FailThreshold \in Nat \ {0} /\ RecoverThreshold \in Nat \ {0}
BY LinkAssumption

(* The time limit of each phase.                                             *)
LEMMA LimitIs ==
    /\ DOMAIN Limit = {"off", "fetch", "probe", "post", "sleep"}
    /\ Limit["off"] = 0 /\ Limit["fetch"] = RequestLimit /\ Limit["probe"] = ProbeLimit
    /\ Limit["post"] = RequestLimit /\ Limit["sleep"] = Interval
BY DEF Limit

(* One factor more adds the other factor.                                    *)
LEMMA TimesIs ==
    ASSUME NEW m \in Nat, NEW n \in Nat
    PROVE  m * n \in Nat /\ (m + 1) * n = m * n + n
OBVIOUS

(* Two multiples of a number, by how their factors compare.                  *)
LEMMA TimesMonotone ==
    ASSUME NEW k \in Nat, NEW m \in Nat, NEW n \in Nat, k <= m
    PROVE  k * n <= m * n
<1>1. PICK d \in Nat : m = k + d
  <2>1. m - k \in Nat /\ m = k + (m - k)
    OBVIOUS
  <2> QED
    BY <2>1
<1>2. (k + d) * n = k * n + d * n /\ d * n \in Nat /\ k * n \in Nat
  OBVIOUS
<1> QED
  BY <1>1, <1>2

(* The bounds of the model as sums of its parts.                             *)
LEMMA BoundsAre ==
    /\ MaxGap \in Nat /\ PollInterval <= MaxGap
    /\ ReportIn \in Nat /\ RequestLimit <= ReportIn
    /\ Cycle \in Nat /\ Cycle = Interval + ReportIn
    /\ FailLimit \in Nat /\ HitLimit \in Nat /\ MaxGap <= HitLimit
    /\ DetectIn = Timeout + FailLimit /\ RecoverIn = Cycle + ReportIn + HitLimit
    /\ DetectIn \in Nat /\ RecoverIn \in Nat /\ MaxSteady \in Nat
    /\ DetectIn < MaxSteady /\ RecoverIn < MaxSteady
<1>1. /\ MaxGap \in Nat /\ PollInterval <= MaxGap
      /\ ReportIn \in Nat /\ RequestLimit <= ReportIn /\ Cycle \in Nat
  BY LinkConstants DEF MaxGap, ReportIn, Cycle
<1>2. FailLimit \in Nat /\ HitLimit \in Nat
  BY <1>1, LinkConstants, TimesIs DEF FailLimit, HitLimit
<1>3. MaxGap <= HitLimit
  <2>1. 1 * MaxGap <= RecoverThreshold * MaxGap
    BY <1>1, LinkConstants, TimesMonotone
  <2>2. 1 * MaxGap = MaxGap
    BY <1>1
  <2> QED
    BY <2>1, <2>2 DEF HitLimit
<1>4. DetectIn = Timeout + FailLimit /\ RecoverIn = Cycle + ReportIn + HitLimit
  BY DEF DetectIn, RecoverIn, FailLimit, HitLimit
<1>5. DetectIn \in Nat /\ RecoverIn \in Nat
  BY <1>1, <1>2, <1>4, LinkConstants
<1>6. Cycle = Interval + ReportIn
  BY DEF Cycle
<1> QED
  BY <1>1, <1>2, <1>3, <1>4, <1>5, <1>6 DEF MaxSteady

(* A streak below its threshold leaves time for one more poll.               *)
LEMMA TimesAre ==
    ASSUME LinkTypeOK
    PROVE  /\ FailTime \in Nat /\ LeastFail \in Nat /\ HitTime \in Nat
           /\ fails < FailThreshold => FailTime + MaxGap <= FailLimit
           /\ hits < RecoverThreshold => HitTime + MaxGap <= HitLimit
<1> USE LinkConstants, BoundsAre
<1>1. fails \in Nat /\ hits \in Nat
  BY DEF LinkTypeOK
<1>2. FailTime \in Nat /\ LeastFail \in Nat /\ HitTime \in Nat
  BY <1>1, TimesIs DEF FailTime, LeastFail, HitTime
<1>3. ASSUME fails < FailThreshold
      PROVE  FailTime + MaxGap <= FailLimit
  <2>1. (fails + 1) * MaxGap <= FailThreshold * MaxGap
    BY <1>1, <1>3, TimesMonotone
  <2> QED
    BY <1>1, <2>1, TimesIs DEF FailTime, FailLimit
<1>4. ASSUME hits < RecoverThreshold
      PROVE  HitTime + MaxGap <= HitLimit
  <2>1. (hits + 1) * MaxGap <= RecoverThreshold * MaxGap
    BY <1>1, <1>4, TimesMonotone
  <2> QED
    BY <1>1, <2>1, TimesIs DEF HitTime, HitLimit
<1> QED
  BY <1>2, <1>3, <1>4

(* A counter that stops at its limit.                                        *)
LEMMA AddToIs ==
    ASSUME NEW limit \in Nat, NEW n \in 0..limit
    PROVE  AddTo(n, limit) \in 0..limit /\ AddTo(n, limit) \in {n, n + 1}
BY DEF AddTo

(* What a poll does to the streaks.                                          *)
LEMMA StreaksAre ==
    ASSUME LinkTypeOK, NEW base \in BOOLEAN, Streaks(base)
    PROVE  /\ fails' \in 0..FailThreshold /\ hits' \in 0..RecoverThreshold
           /\ base => fails' = 0 /\ hits' = IF hits < RecoverThreshold THEN hits + 1 ELSE hits
           /\ ~base => hits' = 0 /\ fails' = IF fails < FailThreshold THEN fails + 1 ELSE fails
BY LinkConstants DEF LinkTypeOK, Streaks, Judge!Extend

(* What a poll makes of the streaks.                                         *)
LEMMA PollIs ==
    ASSUME LinkTypeOK, Poll
    PROVE  /\ fails' \in 0..FailThreshold /\ hits' \in 0..RecoverThreshold
           /\ BaseReachable \in BOOLEAN
           /\ BaseReachable =>
                 /\ fails' = 0 /\ hits' = IF hits < RecoverThreshold THEN hits + 1 ELSE hits
                 /\ judged' = IF judged = "dead" /\ hits' < RecoverThreshold THEN "dead" ELSE "ready"
           /\ ~BaseReachable =>
                 /\ hits' = 0 /\ fails' = IF fails < FailThreshold THEN fails + 1 ELSE fails
                 /\ judged' = IF judged = "dead" \/ fails' >= FailThreshold THEN "dead" ELSE "ready"
<1>1. BaseReachable \in BOOLEAN
  BY DEF BaseReachable
<1>2. /\ fails' \in 0..FailThreshold /\ hits' \in 0..RecoverThreshold
      /\ BaseReachable => fails' = 0 /\ hits' = IF hits < RecoverThreshold THEN hits + 1 ELSE hits
      /\ ~BaseReachable => hits' = 0 /\ fails' = IF fails < FailThreshold THEN fails + 1 ELSE fails
  BY <1>1, StreaksAre DEF Poll
<1>3. judged \in {"ready", "dead"} /\ fails' \in Nat /\ hits' \in Nat
  BY <1>2, LinkConstants DEF LinkTypeOK
<1>4. CASE BaseReachable
  <2>1. judged = "dead" => judged' = IF hits' >= RecoverThreshold THEN "ready" ELSE "dead"
    BY <1>4 DEF Poll, Judge!CheckTarget, Judge!EffectiveReachable, Judge!RecoverConfirmed
  <2>2. judged = "ready" => judged' = "ready"
    BY <1>4 DEF Poll, Judge!CheckTarget, Judge!EffectiveReachable
  <2>3. judged' = IF judged = "dead" /\ hits' < RecoverThreshold THEN "dead" ELSE "ready"
    BY <1>3, <2>1, <2>2, LinkConstants
  <2> QED
    BY <1>1, <1>2, <1>4, <2>3
<1>5. CASE ~BaseReachable
  <2>1. judged = "dead" => judged' = "dead"
    BY <1>5 DEF Poll, Judge!CheckTarget, Judge!EffectiveReachable
  <2>2. judged = "ready" => judged' = IF fails' >= FailThreshold THEN "dead" ELSE "ready"
    BY <1>5 DEF Poll, Judge!CheckTarget, Judge!EffectiveReachable, Judge!FailConfirmed
  <2>3. judged' = IF judged = "dead" \/ fails' >= FailThreshold THEN "dead" ELSE "ready"
    BY <1>3, <2>1, <2>2
  <2> QED
    BY <1>1, <1>2, <1>5, <2>3
<1> QED
  BY <1>4, <1>5

(* The initial state has the types.                                          *)
LEMMA LinkTypeInit == LinkInit => LinkTypeOK
BY LinkConstants, LimitIs, BoundsAre DEF LinkInit, LinkTypeOK

(* Every step keeps them.                                                    *)
LEMMA LinkTypeStep == LinkTypeOK /\ [LinkNext]_linkVars => LinkTypeOK'
<1> SUFFICES ASSUME LinkTypeOK, [LinkNext]_linkVars
             PROVE  LinkTypeOK'
  OBVIOUS
<1> USE LinkConstants, LimitIs, BoundsAre
<1>0. ASSUME NEW p \in {"off", "fetch", "probe", "post", "sleep"}, EnterPhase(p)
      PROVE  phase' \in DOMAIN Limit /\ spent' \in 0..Limit[phase']
  BY <1>0 DEF EnterPhase
<1>1. CASE EndFetch \/ EndSleep
  BY <1>0, <1>1 DEF LinkTypeOK, EndFetch, EndSleep, panelVars
<1>7. CASE EndProbe
  <2>1. probe' \in BOOLEAN /\ arrived' = FALSE
    <3>1. probe' \in {TRUE, good < Spacing} /\ arrived' = FALSE
      BY <1>7, Zenon DEF EndProbe
    <3>2. (good < Spacing) \in BOOLEAN
      OBVIOUS
    <3> QED
      BY <3>1, <3>2, Zenon
  <2>2. phase' \in DOMAIN Limit /\ spent' \in 0..Limit[phase']
    BY <1>0, <1>7 DEF EndProbe
  <2>3. UNCHANGED <<good, panelVars, steady, seenUp>>
    BY <1>7 DEF EndProbe
  <2> QED
    BY <2>1, <2>2, <2>3 DEF LinkTypeOK, panelVars
<1>8. CASE Arrive
  BY <1>8 DEF LinkTypeOK, Arrive
<1>2. CASE EndPost
  BY <1>0, <1>2, AddToIs DEF LinkTypeOK, EndPost, Missed, panelVars
<1>3. CASE GoDown
  <2>1. phase' \in DOMAIN Limit /\ spent' \in 0..Limit[phase']
    BY <1>0, <1>3 DEF GoDown
  <2>2. UNCHANGED <<probe, arrived, good, panelVars>> /\ steady' = 0 /\ seenUp' = FALSE
    BY <1>3 DEF GoDown
  <2>3. steady' \in 0..MaxSteady
    BY <2>2
  <2> QED
    BY <2>1, <2>2, <2>3 DEF LinkTypeOK, panelVars
<1>9. CASE ComeUp
  <2>1. phase' \in DOMAIN Limit /\ spent' \in 0..Limit[phase']
    BY <1>0, <1>9 DEF ComeUp
  <2>2. UNCHANGED <<probe, arrived, panelVars, seenUp>> /\ steady' = 0 /\ good' = Spacing
    BY <1>9 DEF ComeUp
  <2>3. good' \in 0..Spacing /\ steady' \in 0..MaxSteady
    BY <2>2
  <2> QED
    BY <2>1, <2>2, <2>3 DEF LinkTypeOK, panelVars
<1>4. CASE Poll
  <2>1. judged' \in {"ready", "dead"} /\ fails' \in 0..FailThreshold /\ hits' \in 0..RecoverThreshold
    BY <1>4, PollIs
  <2>2. seenUp' \in BOOLEAN /\ sincePoll' = 0
    BY <1>4 DEF LinkTypeOK, Poll, BaseReachable
  <2>3. UNCHANGED <<agentVars, report, age, steady>>
    BY <1>4 DEF Poll
  <2> QED
    BY <2>1, <2>2, <2>3 DEF LinkTypeOK, agentVars
<1>5. CASE Tick
  <2>1. age' \in 0..(Timeout + 1) /\ steady' \in 0..MaxSteady
    BY <1>5, AddToIs DEF LinkTypeOK, Tick
  <2>2. sincePoll' \in 0..MaxGap /\ spent' \in 0..Limit[phase]
    BY <1>5 DEF LinkTypeOK, Tick, Within
  <2> QED
    BY <1>5, <2>1, <2>2 DEF LinkTypeOK, Tick
<1>6. CASE UNCHANGED linkVars
  BY <1>6 DEF LinkTypeOK, linkVars, agentVars, panelVars
<1> QED
  BY <1>1, <1>2, <1>3, <1>4, <1>5, <1>6, <1>7, <1>8, <1>9 DEF LinkNext

(* Type correctness of the link between an agent and the poller.             *)
THEOREM LinkTyped == LinkSpec => []LinkTypeOK
BY LinkTypeInit, LinkTypeStep, PTL DEF LinkSpec

(* The time until the next report, by phase.                                 *)
LEMMA NextInIs ==
    ASSUME LinkTypeOK
    PROVE  /\ phase = "fetch" => NextIn = RequestLimit - spent + ProbeLimit + RequestLimit
           /\ phase = "probe" => NextIn = ProbeLimit - spent + RequestLimit
           /\ phase = "post" /\ arrived  => NextIn = RequestLimit - spent + Cycle
           /\ phase = "post" /\ ~arrived => NextIn = RequestLimit - spent
           /\ phase = "sleep" => NextIn = Interval - spent + ReportIn
           /\ NextIn \in Nat /\ NextIn <= Span
<1> USE LinkConstants, LimitIs, BoundsAre
<1>1. phase \in {"off", "fetch", "probe", "post", "sleep"} /\ spent \in 0..Limit[phase]
  BY DEF LinkTypeOK
<1>2. CASE phase = "off"
  BY <1>1, <1>2 DEF NextIn, Span
<1>3. CASE phase = "fetch"
  BY <1>1, <1>3 DEF NextIn, Span, Cycle, ReportIn
<1>4. CASE phase = "probe"
  BY <1>1, <1>4 DEF NextIn, Span, Cycle, ReportIn
<1>5. CASE phase = "post"
  BY <1>1, <1>5 DEF NextIn, Span
<1>6. CASE phase = "sleep"
  BY <1>1, <1>6 DEF NextIn, Span, Cycle
<1> QED
  BY <1>1, <1>2, <1>3, <1>4, <1>5, <1>6

(* The good reports still due before the next bad one, as time.              *)
LEMMA SpareIs ==
    ASSUME LinkTypeOK
    PROVE  /\ Spare \in Nat
           /\ good = Spacing => Spare = 0
           /\ good = 0 => Spare = Spacing * Interval
<1> USE LinkConstants
<1>1. good \in 0..Spacing /\ Spacing - good \in Nat
  BY DEF LinkTypeOK
<1>2. Spare \in Nat
  BY <1>1, TimesIs DEF Spare
<1> QED
  BY <1>1, <1>2 DEF Spare

(* The time until the next bad report, by phase.                             *)
LEMMA CalmIs ==
    ASSUME LinkTypeOK
    PROVE  /\ Calm \in Nat
           /\ phase = "sleep" => Calm = Interval - spent + Spare
           /\ phase = "post" /\ arrived /\ ~probe => Calm = 0
           /\ phase = "post" /\ arrived /\ probe =>
                 Calm = IF good < Spacing THEN Spare ELSE Interval
           /\ phase \in {"off", "fetch", "probe"} \/ (phase = "post" /\ ~arrived) => Calm = Spare
<1> USE LinkConstants, SpareIs, LimitIs
<1>1. /\ phase \in {"off", "fetch", "probe", "post", "sleep"} /\ spent \in 0..Limit[phase]
      /\ probe \in BOOLEAN /\ arrived \in BOOLEAN /\ good \in 0..Spacing
  BY DEF LinkTypeOK
<1>2. CASE phase = "sleep"
  BY <1>1, <1>2 DEF Calm
<1>3. CASE phase = "post"
  BY <1>1, <1>3 DEF Calm
<1>4. CASE phase \in {"off", "fetch", "probe"}
  BY <1>1, <1>4 DEF Calm
<1> QED
  BY <1>1, <1>2, <1>3, <1>4

(* Those times, by what the agent is at.                                     *)
Clocks ==
    /\ phase = "fetch" => NextIn = RequestLimit - spent + ProbeLimit + RequestLimit
    /\ phase = "probe" => NextIn = ProbeLimit - spent + RequestLimit
    /\ phase = "post" /\ arrived  => NextIn = RequestLimit - spent + Cycle
    /\ phase = "post" /\ ~arrived => NextIn = RequestLimit - spent
    /\ phase = "sleep" => NextIn = Interval - spent + ReportIn
    /\ NextIn \in Nat /\ NextIn <= Span
    /\ Spare \in Nat
    /\ good = Spacing => Spare = 0
    /\ good = 0 => Spare = Spacing * Interval
    /\ Calm \in Nat
    /\ phase = "sleep" => Calm = Interval - spent + Spare
    /\ phase = "post" /\ arrived /\ ~probe => Calm = 0
    /\ phase = "post" /\ arrived /\ probe => Calm = IF good < Spacing THEN Spare ELSE Interval
    /\ phase \in {"off", "fetch", "probe"} \/ (phase = "post" /\ ~arrived) => Calm = Spare

(* All of them, in this state and in the next.                               *)
LEMMA ClocksAre == LinkTypeOK => Clocks
BY NextInIs, SpareIs, CalmIs DEF Clocks

LEMMA ClocksNext == LinkTypeOK' => Clocks'
BY ClocksAre, PTL

(* What one more poll adds to those times.                                   *)
LEMMA OneMore ==
    ASSUME LinkTypeOK
    PROVE  /\ fails' = fails + 1 => FailTime' = FailTime + MaxGap /\ LeastFail' = LeastFail + PollInterval
           /\ hits' = hits + 1 => HitTime' = HitTime + MaxGap
<1> USE LinkConstants, BoundsAre
<1>1. fails \in Nat /\ hits \in Nat
  BY DEF LinkTypeOK
<1> QED
  BY <1>1, TimesIs DEF FailTime, LeastFail, HitTime

-----------------------------------------------------------------------------
(* What is known while the host is down.  A bad report is only made after    *)
(* Spacing good ones, and a host that is ready has not failed often enough.  *)
(* The last report is at least as old as the outage, so once it is too old   *)
(* every poll counts; fails tells how many polls that were.                  *)
BadWhenFull == phase = "post" /\ ~probe => good = Spacing
ReadyStreak == judged = "ready" => fails < FailThreshold
OffSeen == phase = "off" => ~seenUp
OffAge == phase = "off" => age >= steady \/ age = Timeout + 1
OffReady ==
    phase = "off" /\ judged = "ready" => steady <= Timeout + FailTime + sincePoll

DownInv == LinkTypeOK /\ BadWhenFull /\ ReadyStreak /\ OffSeen /\ OffAge /\ OffReady

(* What is known while the host is down holds initially, ...                 *)
LEMMA DownInit == LinkInit => DownInv
<1> SUFFICES ASSUME LinkInit
             PROVE  DownInv
  OBVIOUS
<1>1. LinkTypeOK
  BY LinkTypeInit
<1> QED
  BY <1>1, LinkConstants
  DEF LinkInit, DownInv, BadWhenFull, ReadyStreak, OffSeen, OffAge, OffReady

(* ... and every step keeps it.                                              *)
LEMMA DownStep == DownInv /\ [LinkNext]_linkVars => DownInv'
<1> SUFFICES ASSUME DownInv, [LinkNext]_linkVars
             PROVE  DownInv'
  OBVIOUS
<1> USE LinkConstants, BoundsAre
<1>0. LinkTypeOK /\ LinkTypeOK'
  BY LinkTypeStep DEF DownInv
<1>10. FailTime \in Nat /\ FailTime' \in Nat /\ (fails' = fails => FailTime' = FailTime)
  <2>1. FailTime \in Nat
    BY <1>0, TimesAre
  <2>2. fails' \in Nat
    BY <1>0 DEF LinkTypeOK
  <2>3. FailTime' \in Nat
    BY <2>2, TimesIs DEF FailTime
  <2> QED
    BY <2>1, <2>3 DEF FailTime
<1>1. CASE EndFetch \/ EndSleep
  BY <1>0, <1>1 DEF DownInv, BadWhenFull, ReadyStreak, OffSeen, OffAge, OffReady,
              EndFetch, EndSleep, EnterPhase, panelVars
<1>2. CASE EndProbe
  <2>1. ~probe' => good = Spacing
    <3>1. probe' = TRUE \/ probe' = (good < Spacing)
      BY <1>2 DEF EndProbe
    <3>2. good \in 0..Spacing
      BY <1>0 DEF LinkTypeOK
    <3>3. probe' = (good < Spacing) => (~probe' => good = Spacing)
      <4>1. ~(good < Spacing) => good = Spacing
        BY <3>2, LinkConstants
      <4> QED
        BY <4>1, Zenon
    <3> QED
      BY <3>1, <3>3
  <2>2. phase' = "post" /\ UNCHANGED <<good, fails, judged>>
    BY <1>2 DEF EndProbe, EnterPhase, panelVars
  <2> QED
    BY <1>0, <2>1, <2>2 DEF DownInv, BadWhenFull, ReadyStreak, OffSeen, OffAge, OffReady
<1>3. CASE Arrive
  BY <1>0, <1>3 DEF DownInv, BadWhenFull, ReadyStreak, OffSeen, OffAge, OffReady, Arrive
<1>4. CASE EndPost
  BY <1>0, <1>4 DEF DownInv, BadWhenFull, ReadyStreak, OffSeen, OffAge, OffReady,
                    EndPost, EnterPhase, panelVars
<1>5. CASE GoDown
  <2>1. /\ phase' = "off" /\ steady' = 0 /\ seenUp' = FALSE
        /\ UNCHANGED <<fails, judged, age, sincePoll>>
    BY <1>5 DEF GoDown, EnterPhase, panelVars
  <2>2. age' >= 0 /\ sincePoll' >= 0
    BY <1>0 DEF LinkTypeOK
  <2> QED
    BY <1>0, <1>10, <2>1, <2>2
    DEF DownInv, BadWhenFull, ReadyStreak, OffSeen, OffAge, OffReady, LinkTypeOK
<1>6. CASE ComeUp
  BY <1>0, <1>6 DEF DownInv, BadWhenFull, ReadyStreak, OffSeen, OffAge, OffReady,
                    ComeUp, EnterPhase, panelVars
<1>7. CASE Poll
  <2>0. UNCHANGED <<phase, probe, good, age, report, steady>> /\ sincePoll' = 0
    BY <1>7 DEF Poll, agentVars
  <2>1. BadWhenFull' /\ OffAge'
    BY <2>0 DEF DownInv, BadWhenFull, OffAge
  <2>2. OffSeen'
    BY <1>7, <2>0 DEF DownInv, OffSeen, Poll
  <2>3. ReadyStreak'
    BY <1>0, <1>7, PollIs DEF ReadyStreak, LinkTypeOK
  <2>4. OffReady'
    <3> SUFFICES ASSUME phase = "off", judged' = "ready"
                 PROVE  steady <= Timeout + FailTime'
      BY <2>0, <1>10 DEF OffReady
    <3>0. steady \in Nat /\ age \in 0..(Timeout + 1) /\ sincePoll \in 0..MaxGap
      BY <1>0 DEF LinkTypeOK
    <3>1. CASE BaseReachable
      <4>1. age <= Timeout
        BY <3>0, <3>1 DEF BaseReachable
      <4>2. age >= steady \/ age = Timeout + 1
        BY DEF DownInv, OffAge
      <4>3. steady <= Timeout
        BY <4>1, <4>2, <3>0
      <4> QED
        <5>1. FailTime' \in Nat
          BY <1>10
        <5>2. steady \in Nat /\ Timeout \in Nat
          BY <3>0
        <5>3. \A s, t, f \in Nat : s <= t => s <= t + f
          OBVIOUS
        <5> QED
          BY <5>1, <5>2, <5>3, <4>3, Zenon
    <3>2. CASE ~BaseReachable
      <4>1. judged = "ready" /\ fails' = fails + 1
        BY <1>0, <1>7, <3>2, PollIs DEF LinkTypeOK
      <4>2. steady <= Timeout + FailTime + sincePoll
        BY <4>1 DEF DownInv, OffReady
      <4>3. FailTime' = FailTime + MaxGap
        BY <1>0, <4>1, OneMore
      <4> QED
        BY <4>2, <4>3, <3>0, <1>10
    <3> QED
      BY <3>1, <3>2
  <2> QED
    BY <1>0, <2>1, <2>2, <2>3, <2>4 DEF DownInv
<1>8. CASE Tick
  <2>1. /\ UNCHANGED <<phase, probe, good, fails, judged, seenUp>> /\ sincePoll' = sincePoll + 1
        /\ age' = AddTo(age, Timeout + 1) /\ steady' = AddTo(steady, MaxSteady)
    BY <1>8 DEF Tick
  <2>2. age \in 0..(Timeout + 1) /\ steady \in 0..MaxSteady /\ sincePoll \in 0..MaxGap
    BY <1>0 DEF LinkTypeOK
  <2>3. OffAge'
    BY <2>1, <2>2 DEF DownInv, OffAge, AddTo
  <2>4. OffReady'
    BY <2>1, <2>2, <1>10 DEF DownInv, OffReady, AddTo
  <2> QED
    BY <1>0, <2>1, <2>3, <2>4 DEF DownInv, BadWhenFull, ReadyStreak, OffSeen
<1>9. CASE UNCHANGED linkVars
  BY <1>0, <1>9, <1>10 DEF DownInv, BadWhenFull, ReadyStreak, OffSeen, OffAge, OffReady,
                    linkVars, agentVars, panelVars
<1> QED
  BY <1>1, <1>2, <1>3, <1>4, <1>5, <1>6, <1>7, <1>8, <1>9 DEF LinkNext

(* It bounds the time to the verdict.                                        *)
LEMMA DownDetected ==
    ASSUME DownInv
    PROVE  phase = "off" /\ steady > DetectIn => judged = "dead"
<1> SUFFICES ASSUME phase = "off", judged = "ready"
             PROVE  steady <= DetectIn
  BY BoundsAre DEF DownInv, LinkTypeOK
<1> USE LinkConstants, BoundsAre
<1>1. fails < FailThreshold /\ sincePoll \in 0..MaxGap /\ steady \in Nat /\ FailTime \in Nat
  BY TimesAre DEF DownInv, ReadyStreak, LinkTypeOK
<1>2. steady <= Timeout + FailTime + sincePoll
  BY DEF DownInv, OffReady
<1>3. FailTime + MaxGap <= FailLimit
  BY <1>1, TimesAre DEF DownInv
<1> QED
  BY <1>1, <1>2, <1>3

(* A host that is down is declared dead in time (poller.go:19), for all      *)
(* limits and intervals.                                                     *)
THEOREM DownInTime == LinkSpec => [](phase = "off" /\ steady > DetectIn => judged = "dead")
<1>1. DownInv => (phase = "off" /\ steady > DetectIn => judged = "dead")
  BY DownDetected
<1> QED
  BY <1>1, DownInit, DownStep, PTL DEF LinkSpec

-----------------------------------------------------------------------------
(* The room the limits and intervals leave.  A good report is not too old    *)
(* before the next one arrives; a report that is bad or lost does not last   *)
(* for FailThreshold polls; a poll comes after the first report of a host    *)
(* that is up; and between two bad reports there is a poll that finds a good *)
(* one.  The first three hold of the code's defaults: 82 <= 90, 142 < 180    *)
(* and 40 < 60 seconds.                                                      *)
RoomLeft ==
    /\ Span <= Timeout
    /\ Span + PollInterval < FailThreshold * PollInterval
    /\ ReportIn < PollInterval
    /\ MaxGap < Spacing * Interval

(* While no good report is sure to come next, the last one is good and will  *)
(* do until the next, or the host has just come up and the poller, if it has *)
(* found it well, has done so after its first report fell due.               *)
ReportDue ==
    On /\ ~Awaited =>
        \/ Fresh
        \/ /\ NextIn <= ReportIn
           /\ seenUp => fails = 0 /\ sincePoll + NextIn <= ReportIn
(* Polls fail on a host that is up for one bad or lost report at a time: the *)
(* polls that have failed fit between the good report before it and the one  *)
(* after it, which arrives before the next poll that could fail; or that one *)
(* has arrived, and the next poll comes before the next bad report.          *)
FailsExplained ==
    On /\ seenUp /\ fails >= 1 =>
        \/ Awaited /\ LeastFail + sincePoll + NextIn <= Span + PollInterval
        \/ Fresh /\ ~Spoilt /\ MaxGap - sincePoll < Calm
(* A host that is up and not yet ready is waiting for its first good report, *)
(* or has sent it and every poll since has extended its streak, or has just  *)
(* sent a bad one, which ends that stretch of good reports.                  *)
Recovering ==
    \/ steady <= Cycle + sincePoll
    \/ hits < RecoverThreshold /\ steady <= Cycle + HitTime + sincePoll
RecoverySoon ==
    On /\ (judged = "dead" \/ ~seenUp) =>
        \/ steady + NextIn <= Cycle
        \/ Fresh /\ ~Spoilt /\ Recovering
        \/ Spoilt /\ steady + RequestLimit - spent <= Cycle + HitLimit + RequestLimit

UpInv == DownInv /\ ReportDue /\ FailsExplained /\ RecoverySoon

-----------------------------------------------------------------------------
(* What each action does to the times above.                                 *)
Advance == EndFetch \/ EndProbe \/ EndSleep

(* The agent goes on to the next phase, without a report.                    *)
LEMMA AdvanceIs ==
    ASSUME LinkTypeOK, LinkTypeOK', Advance
    PROVE  /\ On /\ On' /\ ~Spoilt /\ ~Spoilt' /\ (Awaited' <=> Awaited)
           /\ NextIn' <= NextIn /\ Calm' = Calm
           /\ UNCHANGED <<report, age, sincePoll, fails, hits, judged, steady, seenUp>>
<1> USE LinkConstants, LimitIs, BoundsAre
<1>c. Clocks /\ Clocks'
  BY ClocksAre, ClocksNext
<1> USE DEF Clocks
<1>1. /\ NextIn \in Nat /\ NextIn' \in Nat /\ Spare \in Nat /\ Spare' \in Nat /\ spent \in 0..Limit[phase]
  BY <1>c DEF LinkTypeOK
<1>2. good' = good => Spare' = Spare
  BY DEF Spare
<1>3. CASE EndFetch
  <2>1. phase = "fetch" /\ phase' = "probe" /\ spent' = 0 /\ UNCHANGED <<arrived, good, probe>>
    BY <1>3 DEF EndFetch, EnterPhase
  <2>2. NextIn' <= NextIn
    BY <1>1, <2>1, <1>c
  <2>3. Calm' = Calm
    BY <1>2, <2>1, <1>c
  <2> QED
    BY <1>3, <2>1, <2>2, <2>3 DEF EndFetch, panelVars, On, Spoilt, Awaited
<1>4. CASE EndProbe
  <2>1. phase = "probe" /\ phase' = "post" /\ spent' = 0 /\ ~arrived' /\ good' = good
    BY <1>4 DEF EndProbe, EnterPhase
  <2>2. NextIn' <= NextIn
    BY <1>1, <2>1, <1>c
  <2>3. Calm' = Calm
    BY <1>2, <2>1, <1>c
  <2> QED
    BY <1>4, <2>1, <2>2, <2>3 DEF EndProbe, panelVars, On, Spoilt, Awaited
<1>5. CASE EndSleep
  <2>1. /\ phase = "sleep" /\ spent = Interval /\ phase' = "fetch" /\ spent' = 0
        /\ UNCHANGED <<arrived, good, probe>>
    BY <1>5 DEF EndSleep, EnterPhase
  <2>2. NextIn' <= NextIn
    BY <1>1, <2>1, <1>c DEF ReportIn
  <2>3. Calm' = Calm
    BY <1>1, <1>2, <2>1, <1>c
  <2> QED
    BY <1>5, <2>1, <2>2, <2>3 DEF EndSleep, panelVars, On, Spoilt, Awaited
<1> QED
  BY <1>3, <1>4, <1>5 DEF Advance

(* A report is stored: it is good, or a good one is awaited.                 *)
LEMMA ArriveIs ==
    ASSUME DownInv, LinkTypeOK', Arrive
    PROVE  /\ On /\ On' /\ ~Spoilt /\ (Awaited <=> good = 0) /\ Calm = Spare /\ Spare' = Spare
           /\ UNCHANGED <<sincePoll, fails, hits, judged, steady, seenUp, good, spent, probe>>
           /\ ~probe => Spoilt' /\ Awaited' /\ good = Spacing
           /\ probe =>
                 /\ Fresh' /\ ~Spoilt' /\ ~Awaited'
                 /\ Calm' = IF good < Spacing THEN Spare ELSE Interval
<1> USE LinkConstants, LimitIs, BoundsAre
<1>0. LinkTypeOK
  BY DEF DownInv
<1>c. Clocks /\ Clocks'
  BY ClocksAre, ClocksNext DEF DownInv
<1> USE DEF Clocks
<1>1. /\ phase = "post" /\ ~arrived /\ arrived' /\ report' = probe /\ age' = 0
      /\ UNCHANGED <<phase, spent, probe, good, sincePoll, fails, hits, judged, steady, seenUp>>
  BY DEF Arrive
<1>2. Spare' = Spare
  BY <1>1 DEF Spare
<1>3. Calm = Spare
  BY <1>0, <1>1, <1>c
<1>4. ASSUME probe
      PROVE  Fresh' /\ Calm' = IF good < Spacing THEN Spare ELSE Interval
  <2>1. Fresh'
    BY <1>0, <1>1, <1>4, <1>c DEF Fresh
  <2>2. Calm' = IF good < Spacing THEN Spare ELSE Interval
    BY <1>1, <1>2, <1>4, <1>c
  <2> QED
    BY <2>1, <2>2
<1>5. ~probe => good = Spacing
  BY <1>1 DEF DownInv, BadWhenFull
<1> QED
  BY <1>1, <1>2, <1>3, <1>4, <1>5 DEF On, Spoilt, Awaited

(* A request is over: its report has arrived, or was missed.                 *)
LEMMA EndPostIs ==
    ASSUME LinkTypeOK, LinkTypeOK', EndPost
    PROVE  /\ On /\ On' /\ ~Spoilt'
           /\ UNCHANGED <<report, age, sincePoll, fails, hits, judged, seenUp>>
           /\ NextIn' = Cycle /\ (arrived => NextIn' <= NextIn)
           /\ ~(arrived /\ probe) => /\ good = Spacing /\ steady' = 0 /\ Awaited'
                                     /\ ~Spoilt => Calm = 0 /\ (Awaited => good = 0)
           /\ arrived /\ probe => /\ steady' = steady /\ Calm' = Calm
                                  /\ ~Spoilt /\ ~Awaited
<1> USE LinkConstants, LimitIs, BoundsAre
<1>c. Clocks /\ Clocks'
  BY ClocksAre, ClocksNext
<1> USE DEF Clocks
<1>1. /\ phase = "post" /\ phase' = "sleep" /\ spent' = 0 /\ UNCHANGED <<probe, arrived>>
      /\ UNCHANGED <<report, age, sincePoll, fails, hits, judged, seenUp>>
  BY DEF EndPost, EnterPhase, panelVars
<1>2. good \in 0..Spacing /\ good' \in 0..Spacing /\ spent \in 0..RequestLimit /\ arrived \in BOOLEAN /\ probe \in BOOLEAN
  BY <1>1 DEF LinkTypeOK
<1>3. NextIn' = Cycle /\ (arrived => NextIn' <= NextIn)
  BY <1>1, <1>2, <1>c
<1>4. ASSUME ~(arrived /\ probe)
      PROVE  /\ good = Spacing /\ steady' = 0 /\ Awaited'
             /\ ~Spoilt => Calm = 0 /\ (Awaited => good = 0)
  <2>1. good = Spacing /\ good' = 0 /\ steady' = 0
    BY <1>4 DEF EndPost, Missed
  <2>2. ASSUME ~Spoilt
        PROVE  Calm = 0 /\ (Awaited => good = 0)
    <3>1. ~arrived
      BY <1>1, <1>4, <2>2 DEF Spoilt
    <3> QED
      BY <1>1, <2>1, <2>2, <3>1, <1>c DEF Awaited
  <2> QED
    BY <1>1, <2>1, <2>2 DEF Awaited
<1>5. ASSUME arrived, probe
      PROVE  steady' = steady /\ Calm' = Calm /\ ~Spoilt /\ ~Awaited
  <2>1. steady' = steady /\ good' = IF good < Spacing THEN good + 1 ELSE Spacing
    BY <1>5 DEF EndPost, AddTo
  <2>2. Calm' = Interval + Spare' /\ Calm = IF good < Spacing THEN Spare ELSE Interval
    BY <1>1, <1>5, <1>c
  <2>3. ASSUME good < Spacing
        PROVE  Calm' = Calm
    <3>1. Spare = Spare' + Interval
      <4>1. Spacing - good = (Spacing - good') + 1 /\ Spacing - good' \in Nat
        BY <1>2, <2>1, <2>3
      <4> QED
        BY <4>1, TimesIs DEF Spare
    <3>2. Spare' \in Nat
      BY <1>c
    <3>3. \A n \in Nat : n + Interval = Interval + n
      OBVIOUS
    <3> QED
      BY <2>2, <2>3, <3>1, <3>2, <3>3, Zenon
  <2>4. ASSUME ~(good < Spacing)
        PROVE  Calm' = Calm
    <3>1. good' = Spacing /\ Calm = Interval
      BY <2>1, <2>2, <2>4
    <3>2. Spare' = 0
      BY <3>1, <1>c
    <3> QED
      BY <2>2, <3>1, <3>2
  <2> QED
    BY <1>1, <1>5, <2>1, <2>3, <2>4 DEF Spoilt, Awaited
<1> QED
  BY <1>1, <1>3, <1>4, <1>5 DEF On, Spoilt

(* The agent starts.                                                         *)
LEMMA ComeUpIs ==
    ASSUME DownInv, LinkTypeOK', ComeUp
    PROVE  NextIn' = ReportIn /\ steady' = 0 /\ ~seenUp'
<1> USE LinkConstants, LimitIs, BoundsAre
<1>c. Clocks /\ Clocks'
  BY ClocksAre, ClocksNext DEF DownInv
<1> USE DEF Clocks
<1>1. phase = "off" /\ phase' = "fetch" /\ spent' = 0 /\ steady' = 0 /\ seenUp' = seenUp
  BY DEF ComeUp, EnterPhase
<1>2. ~seenUp
  BY <1>1 DEF DownInv, OffSeen
<1>3. NextIn' = ReportIn
  BY <1>1, <1>c DEF ReportIn
<1> QED
  BY <1>1, <1>2, <1>3

(* Time passes: everything that is due comes nearer by as much.              *)
LEMMA TickIs ==
    ASSUME LinkTypeOK, LinkTypeOK', Tick, On
    PROVE  /\ On' /\ NextIn = NextIn' + 1 /\ Calm <= Calm' + 1
           /\ (Spoilt' <=> Spoilt) /\ (Awaited' <=> Awaited)
           /\ spent' = spent + 1 /\ sincePoll' = sincePoll + 1 /\ sincePoll < MaxGap
           /\ steady' \in {steady, steady + 1}
           /\ UNCHANGED <<fails, hits, judged, seenUp>>
           /\ Fresh => Fresh'
<1> USE LinkConstants, LimitIs, BoundsAre
<1>c. Clocks /\ Clocks'
  BY ClocksAre, ClocksNext
<1> USE DEF Clocks
<1>1. /\ UNCHANGED <<phase, probe, arrived, good, report, fails, hits, judged, seenUp>>
      /\ phase # "off" /\ spent < Limit[phase] /\ spent' = spent + 1
      /\ sincePoll < MaxGap /\ sincePoll' = sincePoll + 1
      /\ age' = AddTo(age, Timeout + 1) /\ steady' = AddTo(steady, MaxSteady)
  BY DEF Tick, Within, On
<1>2. /\ phase \in {"fetch", "probe", "post", "sleep"} /\ spent \in Nat
      /\ age \in 0..(Timeout + 1) /\ steady \in 0..MaxSteady /\ arrived \in BOOLEAN /\ probe \in BOOLEAN
  BY <1>1 DEF LinkTypeOK
<1>3. NextIn = NextIn' + 1
  <2>1. CASE phase = "fetch"
    BY <1>1, <1>2, <2>1, <1>c
  <2>2. CASE phase = "probe"
    BY <1>1, <1>2, <2>2, <1>c
  <2>3. CASE phase = "post"
    <3>1. CASE arrived
      <4>1. NextIn = RequestLimit - spent + Cycle /\ NextIn' = RequestLimit - (spent + 1) + Cycle
        BY <1>1, <2>3, <3>1, <1>c
      <4> QED
        BY <1>2, <4>1
    <3>2. CASE ~arrived
      <4>1. NextIn = RequestLimit - spent /\ NextIn' = RequestLimit - (spent + 1)
        BY <1>1, <2>3, <3>2, <1>c
      <4> QED
        BY <1>2, <4>1
    <3> QED
      BY <3>1, <3>2
  <2>4. CASE phase = "sleep"
    BY <1>1, <1>2, <2>4, <1>c
  <2> QED
    BY <1>2, <2>1, <2>2, <2>3, <2>4
<1>4. Spare' = Spare /\ Spare \in Nat
  BY <1>1, <1>c DEF Spare
<1>5. Calm <= Calm' + 1
  <2>1. CASE phase = "sleep"
    BY <1>1, <1>2, <1>4, <2>1, <1>c
  <2>2. CASE phase # "sleep"
    <3>1. Calm' = Calm
      BY <1>1, <1>2, <1>4, <2>2, <1>c
    <3>2. Calm \in Nat
      BY <1>c
    <3> QED
      BY <3>1, <3>2
  <2> QED
    BY <2>1, <2>2
<1>6. steady' \in {steady, steady + 1} /\ age' \in {age, age + 1}
  <2>1. AddTo(age, Timeout + 1) \in {age, age + 1}
    BY <1>2, AddToIs
  <2>2. AddTo(steady, MaxSteady) \in {steady, steady + 1}
    BY <1>2, AddToIs
  <2> QED
    BY <1>1, <2>1, <2>2
<1>7. Fresh => Fresh'
  <2>1. NextIn \in Nat /\ NextIn' \in Nat /\ Span \in Nat
    BY <1>c DEF Span
  <2>4. \A a, n, m, s \in Nat : n = m + 1 /\ a + n <= s => a + m <= s /\ (a + 1) + m <= s
    OBVIOUS
  <2>5. age \in Nat
    BY <1>2
  <2>2. \A n, m \in Nat : n = m + 1 /\ age + n <= Span => age' + m <= Span
    BY <1>6, <2>1, <2>4, <2>5, Zenon
  <2>3. age + NextIn <= Span => age' + NextIn' <= Span
    BY <1>3, <2>1, <2>2, Zenon
  <2> QED
    BY <1>1, <2>3 DEF Fresh
<1> QED
  BY <1>1, <1>3, <1>5, <1>6, <1>7 DEF On, Spoilt, Awaited

-----------------------------------------------------------------------------
(* Each part of the invariant is kept by every step.                         *)
(* A report that will do until the next one does now.                        *)
LEMMA FreshReaches ==
    ASSUME LinkTypeOK, RoomLeft, Fresh
    PROVE  BaseReachable
<1>1. NextIn \in Nat /\ age \in Nat /\ Span \in Nat
  BY ClocksAre, BoundsAre, LinkConstants DEF Clocks, LinkTypeOK, Span
<1> QED
  BY <1>1, LinkConstants DEF Fresh, RoomLeft, BaseReachable

(* A good report is fresh, or due in time.                                   *)
LEMMA ReportDueStep ==
    ASSUME RoomLeft, UpInv, LinkTypeOK', LinkNext
    PROVE  ReportDue'
<1> SUFFICES ASSUME On', ~Awaited'
             PROVE  \/ Fresh'
                    \/ /\ NextIn' <= ReportIn
                       /\ seenUp' => fails' = 0 /\ sincePoll' + NextIn' <= ReportIn
  BY DEF ReportDue
<1> USE LinkConstants, BoundsAre
<1>1. /\ DownInv /\ LinkTypeOK /\ ReportDue
      /\ NextIn \in Nat /\ NextIn' \in Nat /\ Span \in Nat
      /\ age \in Nat /\ age' \in Nat /\ sincePoll \in Nat
  <2>1. DownInv /\ LinkTypeOK /\ ReportDue
    BY DEF UpInv, DownInv
  <2>2. NextIn \in Nat /\ NextIn' \in Nat
    BY <2>1, ClocksAre, ClocksNext DEF Clocks
  <2>3. age \in Nat /\ age' \in Nat /\ sincePoll \in Nat
    BY <2>1 DEF LinkTypeOK
  <2> QED
    BY <2>1, <2>2, <2>3 DEF Span
<1>2. ASSUME On, ~Awaited, UNCHANGED <<report, age, sincePoll, fails, seenUp>>, NextIn' <= NextIn
      PROVE  \/ Fresh'
             \/ /\ NextIn' <= ReportIn
                /\ seenUp' => fails' = 0 /\ sincePoll' + NextIn' <= ReportIn
  <2>1. \A a, b, m, n \in Nat : a + n <= b /\ m <= n => a + m <= b
    OBVIOUS
  <2>2. \A b, m, n \in Nat : n <= b /\ m <= n => m <= b
    OBVIOUS
  <2>3. Fresh => Fresh'
    BY <1>1, <1>2, <2>1, Zenon DEF Fresh
  <2>4. NextIn <= ReportIn => NextIn' <= ReportIn
    BY <1>1, <1>2, <2>2, Zenon
  <2>5. sincePoll + NextIn <= ReportIn => sincePoll' + NextIn' <= ReportIn
    BY <1>1, <1>2, <2>1, Zenon
  <2> QED
    BY <1>1, <1>2, <2>3, <2>4, <2>5, Zenon DEF ReportDue
<1>3. CASE Advance
  BY <1>1, <1>2, <1>3, AdvanceIs
<1>4. CASE Arrive
  BY <1>1, <1>4, ArriveIs
<1>5. CASE EndPost
  BY <1>1, <1>2, <1>5, EndPostIs
<1>6. CASE GoDown
  BY <1>6 DEF GoDown, EnterPhase, On
<1>7. CASE ComeUp
  BY <1>1, <1>7, ComeUpIs
<1>8. CASE Poll
  <2>1. /\ UNCHANGED <<phase, spent, probe, arrived, good, report, age>>
        /\ sincePoll >= PollInterval /\ sincePoll' = 0
        /\ seenUp' = (seenUp \/ (BaseReachable /\ phase # "off"))
    BY <1>8 DEF Poll, agentVars
  <2>2. NextIn' = NextIn /\ (Fresh' <=> Fresh) /\ (Awaited' <=> Awaited)
    BY <2>1 DEF NextIn, Fresh, Awaited, Spoilt
  <2>3. ASSUME ~Fresh
        PROVE  NextIn <= ReportIn /\ ~seenUp
    <3>1. NextIn <= ReportIn /\ (seenUp => sincePoll + NextIn <= ReportIn)
      BY <1>1, <2>1, <2>2, <2>3 DEF ReportDue, On
    <3>2. ~(sincePoll + NextIn <= ReportIn)
      BY <1>1, <2>1 DEF RoomLeft
    <3> QED
      BY <3>1, <3>2
  <2>4. BaseReachable => fails' = 0
    BY <1>1, <1>8, PollIs
  <2>6. CASE Fresh
    BY <2>2, <2>6
  <2>7. CASE ~Fresh
    <3>1. seenUp' => fails' = 0
      BY <2>1, <2>3, <2>4, <2>7
    <3>2. NextIn' <= ReportIn /\ sincePoll' + NextIn' <= ReportIn
      BY <1>1, <2>1, <2>2, <2>3, <2>7
    <3> QED
      BY <3>1, <3>2
  <2> QED
    BY <2>6, <2>7
<1>9. CASE Tick
  <2>1. CASE On
    <3>1. /\ ~Awaited /\ NextIn = NextIn' + 1 /\ sincePoll' = sincePoll + 1
          /\ UNCHANGED <<fails, seenUp>> /\ (Fresh => Fresh')
      BY <1>1, <1>9, <2>1, TickIs
    <3>2. \A b, m, n \in Nat : n = m + 1 /\ n <= b => m <= b
      OBVIOUS
    <3>3. \A b, m, n, s \in Nat : n = m + 1 /\ s + n <= b => (s + 1) + m <= b
      OBVIOUS
    <3>4. NextIn <= ReportIn => NextIn' <= ReportIn
      BY <1>1, <3>1, <3>2, Zenon
    <3>5. sincePoll + NextIn <= ReportIn => sincePoll' + NextIn' <= ReportIn
      BY <1>1, <3>1, <3>3, Zenon
    <3> QED
      BY <1>1, <2>1, <3>1, <3>4, <3>5, Zenon DEF ReportDue
  <2>2. CASE ~On
    BY <1>9, <2>2 DEF Tick, On
  <2> QED
    BY <2>1, <2>2
<1> QED
  BY <1>3, <1>4, <1>5, <1>6, <1>7, <1>8, <1>9 DEF LinkNext, Advance

(* What a poll does to them.                                                 *)
LEMMA PollKeeps ==
    ASSUME Poll
    PROVE  /\ NextIn' = NextIn /\ Calm' = Calm /\ (On' <=> On) /\ (Fresh' <=> Fresh)
           /\ (Awaited' <=> Awaited) /\ (Spoilt' <=> Spoilt)
           /\ UNCHANGED <<steady, spent>> /\ sincePoll >= PollInterval /\ sincePoll' = 0
           /\ seenUp' = (seenUp \/ (BaseReachable /\ On))
<1>1. /\ UNCHANGED <<phase, spent, probe, arrived, good, report, age, steady>>
      /\ sincePoll >= PollInterval /\ sincePoll' = 0
      /\ seenUp' = (seenUp \/ (BaseReachable /\ phase # "off"))
  BY DEF Poll, agentVars
<1>2. NextIn' = NextIn
  BY <1>1 DEF NextIn
<1> QED
  BY <1>1, <1>2 DEF Calm, Spare, On, Fresh, Awaited, Spoilt

(* The polls that have failed fit between two good reports.                  *)
LEMMA FailsExplainedStep ==
    ASSUME RoomLeft, UpInv, LinkTypeOK', LinkNext
    PROVE  FailsExplained'
<1> SUFFICES ASSUME On', seenUp', fails' >= 1
             PROVE  \/ Awaited' /\ LeastFail' + sincePoll' + NextIn' <= Span + PollInterval
                    \/ Fresh' /\ ~Spoilt' /\ MaxGap - sincePoll' < Calm'
  BY DEF FailsExplained
<1> USE LinkConstants, BoundsAre
<1>1. /\ DownInv /\ LinkTypeOK /\ ReportDue /\ FailsExplained
      /\ NextIn \in Nat /\ NextIn' \in Nat /\ NextIn <= Span /\ Span \in Nat
      /\ Calm \in Nat /\ Calm' \in Nat /\ LeastFail \in Nat
      /\ sincePoll \in 0..MaxGap /\ fails \in Nat
      /\ Spacing # 0 /\ good \in 0..Spacing
  <2>1. DownInv /\ LinkTypeOK /\ ReportDue /\ FailsExplained
    BY DEF UpInv, DownInv
  <2>2. /\ NextIn \in Nat /\ NextIn' \in Nat /\ NextIn <= Span
        /\ Calm \in Nat /\ Calm' \in Nat /\ LeastFail \in Nat
    BY <2>1, ClocksAre, ClocksNext, TimesAre DEF Clocks
  <2>3. sincePoll \in 0..MaxGap /\ fails \in Nat /\ good \in 0..Spacing
    BY <2>1 DEF LinkTypeOK
  <2>4. Spacing # 0
    BY DEF RoomLeft
  <2> QED
    BY <2>1, <2>2, <2>3, <2>4 DEF Span
<1>2. ASSUME On, seenUp, fails >= 1
      PROVE  \/ Awaited /\ LeastFail + sincePoll + NextIn <= Span + PollInterval
             \/ Fresh /\ ~Spoilt /\ MaxGap - sincePoll < Calm
  BY <1>1, <1>2 DEF FailsExplained
<1>3. ASSUME fails' = fails
      PROVE  LeastFail' = LeastFail /\ fails >= 1
  BY <1>3 DEF LeastFail
<1>4. ASSUME NextIn' <= NextIn, UNCHANGED <<fails, sincePoll>>,
             LeastFail + sincePoll + NextIn <= Span + PollInterval
      PROVE  LeastFail' + sincePoll' + NextIn' <= Span + PollInterval
  <2>1. \A f, p, n, m, b \in Nat : m <= n /\ f + p + n <= b => f + p + m <= b
    OBVIOUS
  <2>2. sincePoll \in Nat /\ Span + PollInterval \in Nat
    BY <1>1
  <2>3. LeastFail' = LeastFail
    BY <1>3, <1>4
  <2> QED
    BY <1>1, <1>4, <2>1, <2>2, <2>3, Zenon
<1>5. ASSUME Fresh, NextIn' <= NextIn, UNCHANGED <<report, age>>
      PROVE  Fresh'
  <2>1. \A a, b, m, n \in Nat : a + n <= b /\ m <= n => a + m <= b
    OBVIOUS
  <2>2. age \in Nat
    BY <1>1 DEF LinkTypeOK
  <2> QED
    BY <1>1, <1>5, <2>1, <2>2, Zenon DEF Fresh
<1>6. CASE Advance
  <2>1. /\ On /\ seenUp /\ fails >= 1 /\ ~Spoilt /\ ~Spoilt' /\ (Awaited' <=> Awaited)
        /\ NextIn' <= NextIn /\ Calm' = Calm
        /\ UNCHANGED <<report, age, sincePoll, fails>>
    BY <1>1, <1>6, AdvanceIs
  <2>2. CASE Awaited /\ LeastFail + sincePoll + NextIn <= Span + PollInterval
    BY <1>4, <2>1, <2>2
  <2>3. CASE Fresh /\ ~Spoilt /\ MaxGap - sincePoll < Calm
    BY <1>5, <2>1, <2>3
  <2> QED
    BY <1>2, <2>1, <2>2, <2>3
<1>7. CASE Arrive
  <2>1. /\ On /\ seenUp /\ fails >= 1 /\ ~Spoilt /\ (Awaited <=> good = 0)
        /\ sincePoll' = sincePoll /\ Calm = Spare /\ Spare' = Spare
        /\ ~probe => good = Spacing
        /\ probe => Fresh' /\ ~Spoilt' /\ Calm' = IF good < Spacing THEN Spare ELSE Interval
    BY <1>1, <1>7, ArriveIs
  <2>2. MaxGap - sincePoll < Spare /\ good < Spacing
    <3>1. CASE Awaited
      <4>1. good = 0 /\ Spare = Spacing * Interval
        BY <1>1, <2>1, <3>1, ClocksAre DEF Clocks
      <4>2. Spacing * Interval \in Nat
        BY TimesIs
      <4> QED
        BY <1>1, <4>1, <4>2 DEF RoomLeft
    <3>2. CASE ~Awaited
      <4>1. MaxGap - sincePoll < Spare
        BY <1>2, <2>1, <3>2
      <4>2. good # Spacing
        BY <1>1, <4>1, ClocksAre DEF Clocks
      <4> QED
        BY <1>1, <4>1, <4>2
    <3> QED
      BY <3>1, <3>2
  <2> QED
    BY <1>1, <2>1, <2>2
<1>8. CASE EndPost
  <2>1. /\ On /\ seenUp /\ fails >= 1 /\ ~Spoilt'
        /\ UNCHANGED <<report, age, sincePoll, fails>>
        /\ arrived => NextIn' <= NextIn
    BY <1>1, <1>8, EndPostIs
  <2>2. CASE arrived /\ probe
    <3>1. Calm' = Calm /\ ~Awaited
      BY <1>1, <1>8, <2>2, EndPostIs
    <3>2. Fresh /\ MaxGap - sincePoll < Calm
      BY <1>2, <2>1, <3>1
    <3> QED
      BY <1>5, <2>1, <2>2, <3>1, <3>2
  <2>3. CASE ~(arrived /\ probe)
    <3>1. good = Spacing /\ Awaited' /\ (~Spoilt => Calm = 0 /\ (Awaited => good = 0))
      BY <1>1, <1>8, <2>3, EndPostIs
    <3>2. Spoilt
      <4>1. SUFFICES ASSUME ~Spoilt
                     PROVE  FALSE
        OBVIOUS
      <4>2. Calm = 0 /\ ~Awaited
        BY <1>1, <3>1, <4>1
      <4> QED
        BY <1>1, <1>2, <2>1, <4>2
    <3>3. arrived
      BY <3>2 DEF Spoilt
    <3> QED
      BY <1>2, <1>4, <2>1, <3>1, <3>2, <3>3
  <2> QED
    BY <2>2, <2>3
<1>9. CASE GoDown
  BY <1>9 DEF GoDown, EnterPhase, On
<1>10. CASE ComeUp
  BY <1>1, <1>10, ComeUpIs
<1>11. CASE Poll
  <2>1. /\ NextIn' = NextIn /\ On /\ (Fresh' <=> Fresh)
        /\ (Awaited' <=> Awaited) /\ sincePoll >= PollInterval /\ sincePoll' = 0
        /\ seenUp' = (seenUp \/ (BaseReachable /\ On))
    BY <1>11, PollKeeps
  <2>2. ~BaseReachable
    BY <1>1, <1>11, PollIs
  <2>3. ~Fresh /\ seenUp
    BY <1>1, <2>1, <2>2, FreshReaches
  <2>4. Awaited
    <3>1. SUFFICES ASSUME ~Awaited
                   PROVE  FALSE
      OBVIOUS
    <3>2. sincePoll + NextIn <= ReportIn
      BY <1>1, <2>1, <2>3, <3>1 DEF ReportDue
    <3> QED
      BY <1>1, <2>1, <3>2 DEF RoomLeft
  <2>5. LeastFail' \in Nat /\ LeastFail' + NextIn <= Span + PollInterval
    <3>1. CASE fails = 0
      <4>1. fails' = 1
        BY <1>1, <1>11, <2>2, <3>1, PollIs
      <4>2. LeastFail' = PollInterval
        BY <4>1 DEF LeastFail
      <4> QED
        BY <1>1, <4>2
    <3>2. CASE fails # 0
      <4>1. LeastFail + sincePoll + NextIn <= Span + PollInterval
        BY <1>1, <1>2, <2>1, <2>3, <3>2
      <4>2. LeastFail' \in {LeastFail, LeastFail + PollInterval}
        <5>1. fails' = fails \/ fails' = fails + 1
          BY <1>1, <1>11, <2>2, PollIs
        <5>2. fails' = fails => LeastFail' = LeastFail
          BY DEF LeastFail
        <5> QED
          BY <1>1, <5>1, <5>2, OneMore
      <4>3. \A n \in {LeastFail, LeastFail + PollInterval} :
               n \in Nat /\ n + NextIn <= Span + PollInterval
        BY <1>1, <2>1, <4>1
      <4> QED
        BY <4>2, <4>3, Zenon
    <3> QED
      BY <3>1, <3>2
  <2>6. LeastFail' + sincePoll' + NextIn' <= Span + PollInterval
    <3>1. \A n \in Nat : n + 0 = n
      OBVIOUS
    <3> QED
      BY <2>1, <2>5, <3>1, Zenon
  <2> QED
    BY <2>1, <2>4, <2>6
<1>12. CASE Tick
  <2>1. CASE On
    <3>1. /\ seenUp /\ fails >= 1 /\ fails' = fails /\ sincePoll' = sincePoll + 1
          /\ NextIn = NextIn' + 1 /\ Calm <= Calm' + 1
          /\ (Spoilt' <=> Spoilt) /\ (Awaited' <=> Awaited) /\ (Fresh => Fresh')
      BY <1>1, <1>12, <2>1, TickIs
    <3>2. CASE Awaited /\ LeastFail + sincePoll + NextIn <= Span + PollInterval
      <4>1. \A f, p, n, m, b \in Nat : n = m + 1 /\ f + p + n <= b => f + (p + 1) + m <= b
        OBVIOUS
      <4>2. sincePoll \in Nat /\ Span + PollInterval \in Nat
        BY <1>1
      <4>3. LeastFail' + sincePoll' + NextIn' <= Span + PollInterval
        BY <1>1, <1>3, <3>1, <3>2, <4>1, <4>2, Zenon
      <4> QED
        BY <3>1, <3>2, <4>3
    <3>3. CASE Fresh /\ ~Spoilt /\ MaxGap - sincePoll < Calm
      <4>1. \A g, p, c, d \in Nat : c <= d + 1 /\ g - p < c => g - (p + 1) < d
        OBVIOUS
      <4>2. MaxGap - sincePoll' < Calm'
        <5>1. sincePoll \in Nat
          BY <1>1
        <5> QED
          BY <1>1, <3>1, <3>3, <4>1, <5>1, Zenon
      <4> QED
        BY <3>1, <3>3, <4>2
    <3> QED
      BY <1>2, <2>1, <3>1, <3>2, <3>3
  <2>2. CASE ~On
    BY <1>12, <2>2 DEF Tick, On
  <2> QED
    BY <2>1, <2>2
<1> QED
  BY <1>6, <1>7, <1>8, <1>9, <1>10, <1>11, <1>12 DEF LinkNext, Advance

(* A poll does not find a host dead that is up and was found well since.     *)
LEMMA NoFalseDeath ==
    ASSUME RoomLeft, UpInv, LinkTypeOK', LinkNext, judged = "ready", judged' = "dead"
    PROVE  phase = "off" \/ ~seenUp
<1> SUFFICES ASSUME On, seenUp
             PROVE  FALSE
  BY DEF On
<1> USE LinkConstants, BoundsAre
<1>1. LinkTypeOK /\ DownInv
  BY DEF UpInv, DownInv
<1>2. Poll
  BY DEF LinkNext, EndFetch, EndProbe, Arrive, EndPost, EndSleep, GoDown, ComeUp, Tick, panelVars
<1>3. /\ NextIn' = NextIn /\ On' /\ (Fresh' <=> Fresh) /\ sincePoll' = 0
      /\ seenUp' = (seenUp \/ (BaseReachable /\ On))
  BY <1>2, PollKeeps
<1>4. ~BaseReachable /\ fails' >= FailThreshold /\ fails' \in 0..FailThreshold
  BY <1>1, <1>2, PollIs
<1>5. ~Fresh
  BY <1>1, <1>4, FreshReaches
<1>6. LeastFail' + sincePoll' + NextIn' <= Span + PollInterval
  <2>1. fails' >= 1 /\ seenUp' /\ On' /\ ~Fresh'
    <3>1. fails' >= 1
      BY <1>4
    <3> QED
      BY <1>3, <1>5, <3>1, Zenon
  <2>2. FailsExplained'
    BY FailsExplainedStep
  <2> QED
    BY <2>1, <2>2, Zenon DEF FailsExplained
<1>7. LeastFail' = FailThreshold * PollInterval
  <2>1. fails' = FailThreshold
    BY <1>4
  <2> QED
    BY <2>1 DEF LeastFail
<1>8. NextIn \in Nat /\ FailThreshold * PollInterval \in Nat /\ Span \in Nat
  BY <1>1, ClocksAre, TimesIs DEF Clocks, Span
<1>9. FailThreshold * PollInterval + 0 + NextIn <= Span + PollInterval
  BY <1>3, <1>6, <1>7, Zenon
<1> QED
  BY <1>8, <1>9 DEF RoomLeft

(* A host that is up is ready again in time.                                 *)
LEMMA RecoverySoonStep ==
    ASSUME RoomLeft, UpInv, LinkTypeOK', LinkNext
    PROVE  RecoverySoon'
<1> SUFFICES ASSUME On', judged' = "dead" \/ ~seenUp'
             PROVE  \/ steady' + NextIn' <= Cycle
                    \/ Fresh' /\ ~Spoilt' /\ Recovering'
                    \/ Spoilt' /\ steady' + RequestLimit - spent' <= Cycle + HitLimit + RequestLimit
  BY DEF RecoverySoon
<1> USE LinkConstants, BoundsAre
<1>1. /\ DownInv /\ LinkTypeOK /\ RecoverySoon
      /\ NextIn \in Nat /\ NextIn' \in Nat /\ HitTime \in Nat
      /\ steady \in Nat /\ steady' \in Nat /\ hits \in 0..RecoverThreshold
      /\ age \in Nat /\ sincePoll \in 0..MaxGap
  <2>1. DownInv /\ LinkTypeOK /\ RecoverySoon
    BY DEF UpInv, DownInv
  <2>2. NextIn \in Nat /\ NextIn' \in Nat /\ HitTime \in Nat
    BY <2>1, ClocksAre, ClocksNext, TimesAre DEF Clocks
  <2>3. /\ steady \in Nat /\ steady' \in Nat /\ hits \in 0..RecoverThreshold
        /\ age \in Nat /\ sincePoll \in 0..MaxGap
    BY <2>1 DEF LinkTypeOK
  <2> QED
    BY <2>1, <2>2, <2>3
<1>2. ASSUME On, judged = "dead" \/ ~seenUp
      PROVE  \/ steady + NextIn <= Cycle
             \/ Fresh /\ ~Spoilt /\ Recovering
             \/ Spoilt /\ steady + RequestLimit - spent <= Cycle + HitLimit + RequestLimit
  BY <1>1, <1>2 DEF RecoverySoon
<1>3. ASSUME NextIn' <= NextIn, UNCHANGED steady, steady + NextIn <= Cycle
      PROVE  steady' + NextIn' <= Cycle
  <2>1. \A a, b, m, n \in Nat : a + n <= b /\ m <= n => a + m <= b
    OBVIOUS
  <2> QED
    BY <1>1, <1>3, <2>1, Zenon
<1>4. ASSUME NextIn' <= NextIn, UNCHANGED <<report, age>>, Fresh
      PROVE  Fresh'
  <2>1. \A a, b, m, n \in Nat : a + n <= b /\ m <= n => a + m <= b
    OBVIOUS
  <2>2. Span \in Nat
    BY DEF Span
  <2> QED
    BY <1>1, <1>4, <2>1, <2>2, Zenon DEF Fresh
<1>5. ASSUME UNCHANGED <<sincePoll, hits, steady>>, Recovering
      PROVE  Recovering'
  BY <1>5 DEF Recovering, HitTime
<1>6. Recovering => steady <= Cycle + HitLimit
  <2>1. hits < RecoverThreshold => HitTime + MaxGap <= HitLimit
    BY <1>1, TimesAre
  <2> QED
    BY <1>1, <2>1 DEF Recovering
<1>7. CASE Advance
  <2>1. /\ On /\ (judged = "dead" \/ ~seenUp) /\ ~Spoilt /\ ~Spoilt' /\ NextIn' <= NextIn
        /\ UNCHANGED <<report, age, sincePoll, hits, steady>>
    BY <1>1, <1>7, AdvanceIs
  <2>2. CASE steady + NextIn <= Cycle
    BY <1>3, <2>1, <2>2
  <2>3. CASE Fresh /\ ~Spoilt /\ Recovering
    BY <1>4, <1>5, <2>1, <2>3
  <2> QED
    BY <1>2, <2>1, <2>2, <2>3
<1>8. CASE Arrive
  <2>1. /\ On /\ (judged = "dead" \/ ~seenUp) /\ ~Spoilt
        /\ UNCHANGED <<sincePoll, hits, steady, spent>>
        /\ ~probe => Spoilt'
        /\ probe => Fresh' /\ ~Spoilt'
    BY <1>1, <1>8, ArriveIs
  <2>2. steady <= Cycle + HitLimit /\ Recovering
    <3>1. CASE steady + NextIn <= Cycle
      <4>1. steady <= Cycle
        BY <1>1, <3>1
      <4> QED
        BY <1>1, <4>1 DEF Recovering
    <3>2. CASE Recovering
      BY <1>6, <3>2
    <3> QED
      BY <1>2, <2>1, <3>1, <3>2
  <2>3. CASE probe
    BY <1>5, <2>1, <2>2, <2>3
  <2>4. CASE ~probe
    <3>1. spent \in 0..RequestLimit
      BY <1>1, <1>8, LimitIs DEF LinkTypeOK, Arrive
    <3>2. steady + RequestLimit - spent <= Cycle + HitLimit + RequestLimit
      BY <1>1, <2>2, <3>1
    <3> QED
      BY <2>1, <2>4, <3>2
  <2> QED
    BY <2>3, <2>4
<1>9. CASE EndPost
  <2>1. /\ On /\ (judged = "dead" \/ ~seenUp) /\ ~Spoilt' /\ NextIn' = Cycle
        /\ UNCHANGED <<report, age, sincePoll, hits>>
        /\ arrived => NextIn' <= NextIn
    BY <1>1, <1>9, EndPostIs
  <2>2. CASE arrived /\ probe
    <3>1. ~Spoilt /\ steady' = steady
      BY <1>1, <1>9, <2>2, EndPostIs
    <3>2. CASE steady + NextIn <= Cycle
      BY <1>3, <2>1, <2>2, <3>1, <3>2
    <3>3. CASE Fresh /\ Recovering
      BY <1>4, <1>5, <2>1, <2>2, <3>1, <3>3
    <3> QED
      BY <1>2, <2>1, <3>1, <3>2, <3>3
  <2>3. CASE ~(arrived /\ probe)
    <3>1. steady' = 0
      BY <1>1, <1>9, <2>3, EndPostIs
    <3>2. 0 + Cycle <= Cycle
      OBVIOUS
    <3>3. steady' + NextIn' <= Cycle
      BY <2>1, <3>1, <3>2, Zenon
    <3> QED
      BY <3>3
  <2> QED
    BY <2>2, <2>3
<1>10. CASE GoDown
  BY <1>10 DEF GoDown, EnterPhase, On
<1>11. CASE ComeUp
  <2>1. NextIn' = ReportIn /\ steady' = 0
    BY <1>1, <1>11, ComeUpIs
  <2>2. 0 + ReportIn <= Cycle
    OBVIOUS
  <2>3. steady' + NextIn' <= Cycle
    BY <2>1, <2>2, Zenon
  <2> QED
    BY <2>3
<1>12. CASE Poll
  <2>1. /\ NextIn' = NextIn /\ On /\ (Fresh' <=> Fresh) /\ (Spoilt' <=> Spoilt)
        /\ UNCHANGED <<steady, spent>> /\ sincePoll' = 0
        /\ seenUp' = (seenUp \/ (BaseReachable /\ On))
    BY <1>12, PollKeeps
  <2>2. judged = "dead" \/ ~seenUp
    <3>1. judged' = "dead" /\ judged = "ready" => ~seenUp
      BY <2>1, NoFalseDeath DEF On
    <3>2. judged \in {"ready", "dead"}
      BY <1>1 DEF LinkTypeOK
    <3> QED
      BY <2>1, <3>1, <3>2
  <2>3. CASE steady + NextIn <= Cycle
    BY <2>1, <2>3
  <2>4. CASE Spoilt /\ steady + RequestLimit - spent <= Cycle + HitLimit + RequestLimit
    BY <2>1, <2>4
  <2>5. CASE Fresh /\ ~Spoilt /\ Recovering
    <3>1. BaseReachable
      BY <1>1, <2>5, FreshReaches
    <3>2. seenUp' /\ judged' = "dead"
      BY <2>1, <3>1
    <3>3. hits' = hits + 1 /\ hits' < RecoverThreshold
      <4>1. /\ hits' = IF hits < RecoverThreshold THEN hits + 1 ELSE hits
            /\ hits' < RecoverThreshold
        BY <1>1, <1>12, <3>1, <3>2, PollIs
      <4> QED
        BY <1>1, <4>1
    <3>4. HitTime' = HitTime + MaxGap
      BY <1>1, <3>3, OneMore
    <3>5. steady <= Cycle + (HitTime + MaxGap) + 0
      BY <1>1, <2>5 DEF Recovering
    <3>6. Recovering'
      BY <2>1, <3>3, <3>4, <3>5, Zenon DEF Recovering
    <3> QED
      BY <2>1, <2>5, <3>6
  <2> QED
    BY <1>2, <2>1, <2>2, <2>3, <2>4, <2>5
<1>13. CASE Tick
  <2>1. CASE On
    <3>1. /\ (judged = "dead" \/ ~seenUp) /\ hits' = hits /\ sincePoll' = sincePoll + 1
          /\ NextIn = NextIn' + 1 /\ spent' = spent + 1
          /\ steady' \in {steady, steady + 1}
          /\ (Spoilt' <=> Spoilt) /\ (Fresh => Fresh')
      BY <1>1, <1>13, <2>1, TickIs
    <3>2. CASE steady + NextIn <= Cycle
      <4>1. \A s, n, m, c \in Nat : n = m + 1 /\ s + n <= c => s + m <= c /\ (s + 1) + m <= c
        OBVIOUS
      <4>2. steady' + NextIn' <= Cycle
        BY <1>1, <3>1, <3>2, <4>1, BoundsAre, Zenon
      <4> QED
        BY <4>2
    <3>3. CASE Fresh /\ ~Spoilt /\ Recovering
      <4>1. HitTime' = HitTime
        BY <3>1 DEF HitTime
      <4>2. steady <= Cycle + sincePoll => steady' <= Cycle + sincePoll'
        BY <1>1, <3>1
      <4>3. steady <= Cycle + HitTime + sincePoll => steady' <= Cycle + HitTime + sincePoll'
        BY <1>1, <3>1
      <4>4. Recovering'
        BY <3>1, <3>3, <4>1, <4>2, <4>3, Zenon DEF Recovering
      <4> QED
        BY <3>1, <3>3, <4>4
    <3>4. CASE Spoilt /\ steady + RequestLimit - spent <= Cycle + HitLimit + RequestLimit
      <4>1. spent \in 0..RequestLimit
        BY <1>1, <3>4, LimitIs DEF LinkTypeOK, Spoilt
      <4>2. steady' + RequestLimit - spent' <= Cycle + HitLimit + RequestLimit
        <5>1. \A n \in {steady, steady + 1} :
                 n + RequestLimit - (spent + 1) <= Cycle + HitLimit + RequestLimit
          BY <1>1, <3>4, <4>1
        <5> QED
          BY <3>1, <5>1, Zenon
      <4> QED
        BY <3>1, <3>4, <4>2
    <3> QED
      BY <1>2, <2>1, <3>1, <3>2, <3>3, <3>4
  <2>2. CASE ~On
    BY <1>13, <2>2 DEF Tick, On
  <2> QED
    BY <2>1, <2>2
<1> QED
  BY <1>7, <1>8, <1>9, <1>10, <1>11, <1>12, <1>13 DEF LinkNext, Advance

(* The invariant holds initially, ...                                        *)
LEMMA UpInit == RoomLeft /\ LinkInit => UpInv
<1> SUFFICES ASSUME RoomLeft, LinkInit
             PROVE  UpInv
  OBVIOUS
<1> USE LinkConstants, BoundsAre
<1>1. DownInv /\ LinkTypeOK
  BY DownInit, LinkTypeInit
<1>2. phase = "sleep" /\ spent = 0 /\ report /\ age = 0 /\ fails = 0 /\ judged = "ready" /\ seenUp
  BY DEF LinkInit
<1>3. NextIn = Cycle
  BY <1>1, <1>2, ClocksAre DEF Clocks
<1>4. Fresh
  BY <1>2, <1>3 DEF Fresh, Span
<1> QED
  BY <1>1, <1>2, <1>4 DEF UpInv, ReportDue, FailsExplained, RecoverySoon

(* ... and every step keeps it.                                              *)
LEMMA UpStep == RoomLeft /\ UpInv /\ [LinkNext]_linkVars => UpInv'
<1> SUFFICES ASSUME RoomLeft, UpInv, [LinkNext]_linkVars
             PROVE  UpInv'
  OBVIOUS
<1>1. DownInv'
  BY DownStep DEF UpInv
<1>2. LinkTypeOK'
  BY <1>1 DEF DownInv
<1>3. CASE LinkNext
  BY <1>1, <1>2, <1>3, ReportDueStep, FailsExplainedStep, RecoverySoonStep DEF UpInv
<1>4. CASE UNCHANGED linkVars
  <2>1. /\ UNCHANGED <<phase, spent, probe, arrived, good, report, age, sincePoll>>
        /\ UNCHANGED <<fails, hits, judged, steady, seenUp>>
    BY <1>4 DEF linkVars, agentVars, panelVars
  <2>2. NextIn' = NextIn
    BY <2>1 DEF NextIn
  <2>3. Calm' = Calm /\ HitTime' = HitTime /\ LeastFail' = LeastFail
    BY <2>1 DEF Calm, Spare, HitTime, LeastFail
  <2>4. (On' <=> On) /\ (Fresh' <=> Fresh) /\ (Awaited' <=> Awaited) /\ (Spoilt' <=> Spoilt)
    BY <2>1, <2>2 DEF On, Fresh, Awaited, Spoilt
  <2>5. ReportDue'
    BY <2>1, <2>2, <2>4, Zenon DEF UpInv, ReportDue
  <2>6. FailsExplained'
    BY <2>1, <2>2, <2>3, <2>4, Zenon DEF UpInv, FailsExplained
  <2>7. RecoverySoon'
    BY <2>1, <2>2, <2>3, <2>4, Zenon DEF UpInv, RecoverySoon, Recovering
  <2> QED
    BY <1>1, <2>5, <2>6, <2>7 DEF UpInv
<1> QED
  BY <1>3, <1>4

(* It bounds the time to both verdicts.                                      *)
LEMMA VerdictsFollow ==
    ASSUME UpInv
    PROVE  VerdictInTime
<1> USE LinkConstants, BoundsAre
<1>1. DownInv /\ LinkTypeOK
  BY DEF UpInv, DownInv
<1>2. ASSUME phase # "off", steady > RecoverIn, judged # "ready"
      PROVE  FALSE
  <2>1. /\ judged = "dead" /\ steady \in Nat /\ sincePoll \in 0..MaxGap /\ HitTime \in Nat
        /\ NextIn \in Nat /\ (hits < RecoverThreshold => HitTime + MaxGap <= HitLimit)
    BY <1>1, <1>2, ClocksAre, TimesAre DEF LinkTypeOK, Clocks
  <2>2. CASE steady + NextIn <= Cycle
    BY <1>2, <2>1, <2>2
  <2>3. CASE Recovering
    BY <1>2, <2>1, <2>3 DEF Recovering
  <2>4. CASE Spoilt /\ steady + RequestLimit - spent <= Cycle + HitLimit + RequestLimit
    <3>1. spent \in 0..RequestLimit
      BY <1>1, <2>4, LimitIs DEF LinkTypeOK, Spoilt
    <3> QED
      BY <1>2, <2>1, <2>4, <3>1
  <2> QED
    BY <1>2, <2>1, <2>2, <2>3, <2>4 DEF UpInv, RecoverySoon, On
<1> QED
  BY <1>1, <1>2, DownDetected DEF VerdictInTime

(* A host that is down is declared dead in time, and one that is up and      *)
(* reports well is ready again in time (poller.go:19, 22), whatever the      *)
(* phases of the agent's clock and the poller's.                             *)
THEOREM VerdictsInTime == RoomLeft => (LinkSpec => []VerdictInTime)
<1> SUFFICES ASSUME RoomLeft
             PROVE  LinkSpec => []VerdictInTime
  OBVIOUS
<1>1. LinkInit => UpInv
  BY UpInit
<1>2. UpInv /\ [LinkNext]_linkVars => UpInv'
  BY UpStep
<1>3. UpInv => VerdictInTime
  BY VerdictsFollow
<1> QED
  BY <1>1, <1>2, <1>3, PTL DEF LinkSpec

(* No poll declares a host dead that is up and was found well since it came  *)
(* up (config/legacy.go:33, main.go:140, poller.go:21).                      *)
THEOREM HealthyHostsStay == RoomLeft => (LinkSpec => HealthyStaysUp)
<1> SUFFICES ASSUME RoomLeft
             PROVE  LinkSpec => HealthyStaysUp
  OBVIOUS
<1>1. LinkInit => UpInv
  BY UpInit
<1>2. UpInv /\ [LinkNext]_linkVars => UpInv'
  BY UpStep
<1>3. UpInv /\ UpInv' /\ [LinkNext]_linkVars
        => [judged = "ready" /\ judged' = "dead" => phase = "off" \/ ~seenUp]_linkVars
  BY NoFalseDeath DEF UpInv, DownInv
<1> QED
  BY <1>1, <1>2, <1>3, PTL DEF LinkSpec, HealthyStaysUp
================================================================================
