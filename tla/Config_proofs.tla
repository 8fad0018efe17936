---------------------------- MODULE Config_proofs ----------------------------
(* Theorems about the configuration: DdnsRules, for any number of tabs,      *)
(* pools, names and keys and any length of the list, and ConfigStore, for    *)
(* any number of agents, requests and templates.                             *)
EXTENDS DdnsRules, ConfigStore, SequenceTheorems, TLAPS

-----------------------------------------------------------------------------
(* The DDNS rules.                                                           *)

Rows == RowsWith(Typed, {Blank})

Request == [step : {"none", "normalize", "store", "apply"},
            rows : Seq(Rows), result : Seq(Stored),
            blind : BOOLEAN, stale : BOOLEAN]

(* The rules a request has found.                                            *)
Found(rs, save) == IF save.blind THEN <<>> ELSE rs

(* What a request is about to store has passed the checks and is, unless     *)
(* another write came in between, what it makes of its rows and the rules    *)
(* that are stored, or of no rules if it could not read them.                *)
ReadyToStore(rs, save) ==
    save.step = "store" =>
        /\ Distinct(save.rows) /\ Distinct(save.result)
        /\ ~save.stale => save.result = Normalized(save.rows, Found(rs, save))

RulesInv ==
    /\ RulesTypeOK /\ Distinct(rules)
    /\ \A t \in Tabs : ReadyToStore(rules, saving[t])

-----------------------------------------------------------------------------
(* The operators.  Of a list that names no pool twice, Existing picks the    *)
(* one rule of the pool.                                                     *)
LEMMA ExistingAt ==
    ASSUME NEW list \in Seq(Stored), Distinct(list), NEW i \in DOMAIN list
    PROVE  Existing(list, list[i].pool) = list[i]
<1> DEFINE at == {j \in DOMAIN list : list[j].pool = list[i].pool}
<1>1. i \in Int
  OBVIOUS
<1>2. at = {i}
  BY DEF Distinct
<1>3. Existing(list, list[i].pool) =
        IF at = {} THEN Rule(list[i].pool, Blank, Blank, Blank)
        ELSE list[CHOOSE k \in at : \A j \in at : j <= k]
  BY DEF Existing
<1> HIDE DEF at
<1>4. \A k \in at : k = i
  BY <1>2
<1>5. \E k \in at : \A j \in at : j <= k
  BY <1>1, <1>2
<1>6. (CHOOSE k \in at : \A j \in at : j <= k) \in at
  BY <1>5
<1> QED
  BY <1>2, <1>3, <1>4, <1>6

LEMMA ExistingType ==
    ASSUME NEW list \in Seq(Stored), Distinct(list), NEW p \in RulePools
    PROVE  /\ Existing(list, p).key \in Secrets \cup {Blank}
           /\ Existing(list, p).token \in Secrets \cup {Blank}
<1>1. CASE {i \in DOMAIN list : list[i].pool = p} = {}
  BY <1>1 DEF Existing, Rule
<1>2. CASE {i \in DOMAIN list : list[i].pool = p} # {}
  <2>1. PICK i \in DOMAIN list : list[i].pool = p
    BY <1>2
  <2>2. list[i] \in Stored
    BY <2>1, ElementOfSeq
  <2> QED
    BY <2>1, <2>2, ExistingAt DEF Stored, RowsWith
<1> QED
  BY <1>1, <1>2

LEMMA NormalizedType ==
    ASSUME NEW rows \in Seq(Rows), NEW list \in Seq(Stored), Distinct(list)
    PROVE  /\ Normalized(rows, list) \in Seq(Stored)
           /\ Len(Normalized(rows, list)) = Len(rows)
           /\ Distinct(rows) => Distinct(Normalized(rows, list))
<1> DEFINE n == Normalized(rows, list)
<1>1. DOMAIN rows = 1..Len(rows) /\ DOMAIN n = 1..Len(rows) /\ Len(rows) \in Nat
  BY DEF Normalized
<1>2. ASSUME NEW i \in 1..Len(rows)
      PROVE  n[i] \in Stored /\ n[i].pool = rows[i].pool /\ n[i].name = rows[i].name
  <2>1. rows[i] \in Rows
    BY ElementOfSeq
  <2>2. n[i] = [rows[i] EXCEPT !.key = Unmasked(@, Existing(list, rows[i].pool).key),
                               !.token = Unmasked(@, Existing(list, rows[i].pool).token)]
    BY <1>1 DEF Normalized
  <2>3. /\ Existing(list, rows[i].pool).key \in Secrets \cup {Blank}
        /\ Existing(list, rows[i].pool).token \in Secrets \cup {Blank}
    BY <2>1, ExistingType DEF Rows, RowsWith
  <2>4. \A old \in Secrets \cup {Blank} :
            /\ Unmasked(rows[i].key, old) \in Secrets \cup {Blank}
            /\ Unmasked(rows[i].token, old) \in Secrets \cup {Blank}
    BY <2>1 DEF Rows, RowsWith, Unmasked, Typed, Secrets
  <2> QED
    BY <2>1, <2>2, <2>3, <2>4 DEF Stored, Rows, RowsWith
<1>3. n \in Seq(Stored) /\ Len(n) = Len(rows)
  <2>1. n = [i \in 1..Len(rows) |-> n[i]]
    BY <1>1 DEF Normalized
  <2> HIDE DEF n
  <2>2. n \in [1..Len(rows) -> Stored]
    BY <1>2, <2>1
  <2> QED
    BY <1>1, <2>2, SeqDef
<1>4. Distinct(rows) => Distinct(n)
  BY <1>1, <1>2 DEF Distinct
<1> QED
  BY <1>3, <1>4

(* A read or a save that comes in between makes the others late and changes  *)
(* nothing else of them.                                                     *)
LEMMA LateSavesType ==
    ASSUME saving \in [Tabs -> Request]
    PROVE  /\ LateSaves \in [Tabs -> Request]
           /\ \A t \in Tabs :
                 /\ LateSaves[t].step = saving[t].step
                 /\ LateSaves[t].rows = saving[t].rows
                 /\ LateSaves[t].result = saving[t].result
                 /\ saving[t].step = "store" => LateSaves[t].stale
BY DEF LateSaves, Request

-----------------------------------------------------------------------------
LEMMA EmptyRules ==
    <<>> \in Seq(Stored) /\ Len(<<>>) = 0 /\ Distinct(<<>>)
BY EmptySeq DEF Distinct

LEMMA NoRulesList == IsList(<<>>, Stored) /\ Distinct(<<>>)
BY EmptyRules, RulesAssumption DEF IsList

LEMMA NotSavingType == NotSaving \in Request
BY EmptySeq DEF NotSaving, Request

LEMMA RulesInvInit == RulesInit => RulesInv
<1> SUFFICES ASSUME RulesInit PROVE RulesInv
  OBVIOUS
<1> USE RulesAssumption DEF RulesInit
<1>1. saving \in [Tabs -> Request] /\ form = [t \in Tabs |-> <<>>]
  BY NotSavingType
<1>2. IsList(<<>>, Stored) /\ Distinct(<<>>)
  BY NoRulesList
<1>3. ASSUME NEW n \in RecordNames
      PROVE  /\ IsList(<<Rule(LegacyPool, n, Blank, OldToken)>>, Stored)
             /\ Distinct(<<Rule(LegacyPool, n, Blank, OldToken)>>)
  <2> DEFINE r == Rule(LegacyPool, n, Blank, OldToken)
  <2>1. r \in Stored
    BY DEF Rule, Stored, RowsWith, Secrets
  <2> HIDE DEF r
  <2>2. <<r>> \in Seq(Stored) /\ Len(<<r>>) = 1 /\ DOMAIN <<r>> = {1}
    BY <2>1
  <2> QED
    BY <2>2 DEF IsList, Distinct, r
<1>4. IsList(rules, Stored) /\ Distinct(rules)
  BY <1>2, <1>3
<1>5. RulesTypeOK
  <2>1. \A t \in Tabs : form[t] = <<>> /\ saving[t] = NotSaving
    OBVIOUS
  <2>2. form \in [Tabs -> Seq(RowsWith(Typed, {Blank, Mask}))]
    BY <1>1, EmptySeq
  <2>3. \A t \in Tabs : \A list \in {form[t], saving[t].rows, saving[t].result} :
            Len(list) <= MaxRules
    BY <2>1, EmptyRules DEF NotSaving
  <2>4. ruleSaves \in 0..MaxRuleSaves
    OBVIOUS
  <2> QED
    BY <1>1, <1>4, <2>2, <2>3, <2>4 DEF RulesTypeOK, Request, Rows
<1>6. \A t \in Tabs : ReadyToStore(rules, saving[t])
  BY DEF ReadyToStore, NotSaving
<1> QED
  BY <1>4, <1>5, <1>6 DEF RulesInv

-----------------------------------------------------------------------------
(* The requests: types, bounds and what those about to store must hold.      *)
Sized(rq) ==
    /\ rq \in [Tabs -> Request]
    /\ \A t \in Tabs : Len(rq[t].rows) <= MaxRules /\ Len(rq[t].result) <= MaxRules

SavesOf(rs, rq) == Sized(rq) /\ \A t \in Tabs : ReadyToStore(rs, rq[t])

FormsOf(fs) ==
    /\ fs \in [Tabs -> Seq(RowsWith(Typed, {Blank, Mask}))]
    /\ \A t \in Tabs : Len(fs[t]) <= MaxRules

LEMMA InvParts ==
    RulesInv <=> /\ IsList(rules, Stored) /\ Distinct(rules)
            /\ FormsOf(form) /\ SavesOf(rules, saving)
            /\ ruleSaves \in 0..MaxRuleSaves
BY DEF RulesInv, RulesTypeOK, FormsOf, SavesOf, Sized, Request, Rows

(* The rules become rs while a save or a failing read makes the others late. *)
LEMMA LateSavesOf ==
    ASSUME NEW rs, SavesOf(rules, saving)
    PROVE  SavesOf(rs, LateSaves)
<1>1. saving \in [Tabs -> Request]
  BY DEF SavesOf, Sized
<1>2. \A t \in Tabs : ReadyToStore(rs, LateSaves[t])
  BY <1>1, LateSavesType DEF ReadyToStore, SavesOf
<1> QED
  BY <1>1, <1>2, LateSavesType DEF SavesOf, Sized

(* One request changes, into r.                                              *)
LEMMA OneRequest ==
    ASSUME NEW rs, NEW rq, SavesOf(rs, rq), NEW t \in Tabs, NEW r \in Request,
           Len(r.rows) <= MaxRules, Len(r.result) <= MaxRules, ReadyToStore(rs, r)
    PROVE  SavesOf(rs, [rq EXCEPT ![t] = r])
<1>1. [rq EXCEPT ![t] = r] \in [Tabs -> Request]
  BY DEF SavesOf, Sized
<1>2. \A u \in Tabs : [rq EXCEPT ![t] = r][u] = IF u = t THEN r ELSE rq[u]
  BY DEF SavesOf, Sized
<1> QED
  BY <1>1, <1>2 DEF SavesOf, Sized

LEMMA NotSavingOK ==
    ASSUME NEW rs
    PROVE  /\ Len(NotSaving.rows) <= MaxRules /\ Len(NotSaving.result) <= MaxRules
           /\ ReadyToStore(rs, NotSaving)
BY EmptyRules, RulesAssumption DEF NotSaving, ReadyToStore

(* GetAs keeps the invariant when what becomes of the request fits the rules *)
(* that are stored then.                                                     *)
LEMMA ReadInv ==
    ASSUME RulesInv, NEW t \in Tabs, NEW list \in {rules, <<>>}, NEW next \in Request,
           Len(next.rows) <= MaxRules, Len(next.result) <= MaxRules,
           ReadyToStore(rules', next),
           ReadRules(t, list, next), UNCHANGED <<form, ruleSaves>>
    PROVE  RulesInv'
<1>1. IsList(rules', Stored) /\ Distinct(rules')
  BY NoRulesList, InvParts DEF ReadRules, DefaultReturned
<1>2. SavesOf(rules', IF rules' = rules THEN saving ELSE LateSaves)
  BY InvParts, LateSavesOf
<1>3. SavesOf(rules', saving')
  BY <1>2, OneRequest DEF ReadRules
<1>4. FormsOf(form)' /\ (ruleSaves \in 0..MaxRuleSaves)'
  BY InvParts DEF FormsOf
<1> QED
  BY <1>1, <1>3, <1>4 DEF RulesInv, RulesTypeOK, FormsOf, SavesOf, Sized, Request, Rows

(* A request that has read the rules has not had them replaced meanwhile.    *)
LEMMA ReadKeeps ==
    ASSUME NEW t, NEW list, NEW next, ReadRules(t, list, next), list = rules
    PROVE  rules' = rules
BY DEF ReadRules, DefaultReturned

-----------------------------------------------------------------------------
(* The page.                                                                 *)
Page == RowsWith(Typed, {Blank, Mask})

LEMMA ShownType ==
    ASSUME NEW list \in Seq(Stored)
    PROVE  Shown(list) \in Seq(Page) /\ Len(Shown(list)) = Len(list)
<1>1. DOMAIN list = 1..Len(list) /\ Len(list) \in Nat
  OBVIOUS
<1>2. ASSUME NEW i \in 1..Len(list)
      PROVE  [list[i] EXCEPT !.key = Masked(@), !.token = Masked(@)] \in Page
  <2>1. list[i] \in Stored
    BY ElementOfSeq
  <2> QED
    BY <2>1 DEF Stored, Page, RowsWith, Masked, Typed
<1>3. Shown(list) = [i \in 1..Len(list) |->
                        [list[i] EXCEPT !.key = Masked(@), !.token = Masked(@)]]
  BY <1>1 DEF Shown
<1>4. Shown(list) \in [1..Len(list) -> Page]
  BY <1>2, <1>3
<1> QED
  BY <1>1, <1>4, SeqDef

LEMMA CollectedType ==
    ASSUME NEW list \in Seq(Page)
    PROVE  Collected(list) \in Seq(Rows) /\ Len(Collected(list)) = Len(list)
<1>1. DOMAIN list = 1..Len(list) /\ Len(list) \in Nat
  OBVIOUS
<1>2. ASSUME NEW i \in 1..Len(list)
      PROVE  [list[i] EXCEPT !.token = Blank] \in Rows
  <2>1. list[i] \in Page
    BY ElementOfSeq
  <2> QED
    BY <2>1 DEF Page, Rows, RowsWith
<1>3. Collected(list) = [i \in 1..Len(list) |-> [list[i] EXCEPT !.token = Blank]]
  BY <1>1 DEF Collected
<1>4. Collected(list) \in [1..Len(list) -> Rows]
  BY <1>2, <1>3
<1> QED
  BY <1>1, <1>4, SeqDef

LEMMA EditedType ==
    ASSUME NEW list \in Seq(Page), Len(list) <= MaxRules, NEW e \in Edited(list)
    PROVE  e \in Seq(Page) /\ Len(e) <= MaxRules
<1>1. ASSUME NEW i \in DOMAIN list, NEW r \in Page
      PROVE  [list EXCEPT ![i] = r] \in Seq(Page) /\ Len([list EXCEPT ![i] = r]) <= MaxRules
  BY <1>1
<1>2. \A i \in DOMAIN list : list[i] \in Page
  BY ElementOfSeq
<1>3. CASE e = list
  BY <1>3
<1>4. ASSUME NEW i \in DOMAIN list, NEW k \in ApiKeys, e = [list EXCEPT ![i].key = k]
      PROVE  e \in Seq(Page) /\ Len(e) <= MaxRules
  <2>1. [list[i] EXCEPT !.key = k] \in Page
    BY <1>2 DEF Page, RowsWith, Typed
  <2> QED
    BY <1>1, <1>4, <2>1
<1>5. ASSUME NEW i \in DOMAIN list, NEW p \in RulePools, e = [list EXCEPT ![i].pool = p]
      PROVE  e \in Seq(Page) /\ Len(e) <= MaxRules
  <2>1. [list[i] EXCEPT !.pool = p] \in Page
    BY <1>2 DEF Page, RowsWith
  <2> QED
    BY <1>1, <1>5, <2>1
<1>6. ASSUME NEW i \in DOMAIN list, NEW n \in RecordNames \cup {Blank},
             e = [list EXCEPT ![i].name = n]
      PROVE  e \in Seq(Page) /\ Len(e) <= MaxRules
  <2>1. [list[i] EXCEPT !.name = n] \in Page
    BY <1>2 DEF Page, RowsWith
  <2> QED
    BY <1>1, <1>6, <2>1
<1>7. CASE Len(list) > 0 /\ e = Tail(list)
  BY <1>7, EmptySeq, RulesAssumption, HeadTailProperties
<1>8. ASSUME NEW p \in RulePools, NEW n \in RecordNames, NEW k \in ApiKeys,
             Len(list) < MaxRules, e = Append(list, Rule(p, n, k, Blank))
      PROVE  e \in Seq(Page) /\ Len(e) <= MaxRules
  <2>1. Rule(p, n, k, Blank) \in Page
    BY DEF Rule, Page, RowsWith, Typed
  <2> HIDE DEF Page
  <2> QED
    BY <1>8, <2>1, AppendProperties, RulesAssumption
<1>9. \/ e = list
      \/ \E i \in DOMAIN list, k \in ApiKeys : e = [list EXCEPT ![i].key = k]
      \/ \E i \in DOMAIN list, p \in RulePools : e = [list EXCEPT ![i].pool = p]
      \/ \E i \in DOMAIN list, n \in RecordNames \cup {Blank} :
            e = [list EXCEPT ![i].name = n]
      \/ Len(list) > 0 /\ e = Tail(list)
      \/ Len(list) < MaxRules
         /\ \E p \in RulePools, n \in RecordNames, k \in ApiKeys :
               e = Append(list, Rule(p, n, k, Blank))
  BY DEF Edited
<1> QED
  BY <1>3, <1>4, <1>5, <1>6, <1>7, <1>8, <1>9

LEMMA LoadInv ==
    ASSUME RulesInv, NEW t \in Tabs, LoadRules(t)
    PROVE  RulesInv'
<1>1. PICK list \in {Shown(rules), <<>>} : form' = [form EXCEPT ![t] = list]
  BY DEF LoadRules
<1>2. list \in Seq(Page) /\ Len(list) <= MaxRules
  <2>1. rules \in Seq(Stored) /\ Len(rules) <= MaxRules
    BY DEF RulesInv, RulesTypeOK, IsList
  <2>2. <<>> \in Seq(Page) /\ Len(<<>>) <= MaxRules
    BY EmptySeq, RulesAssumption
  <2> QED
    BY <1>1, <2>1, <2>2, ShownType
<1>3. FormsOf(form')
  BY <1>1, <1>2, InvParts DEF FormsOf, Page
<1> QED
  BY <1>3 DEF LoadRules, RulesInv, RulesTypeOK, FormsOf, ReadyToStore

LEMMA SaveInv ==
    ASSUME RulesInv, NEW t \in Tabs, SaveRules(t)
    PROVE  RulesInv'
<1>1. PICK list \in Edited(form[t]) :
         saving' = [saving EXCEPT ![t] =
                       [NotSaving EXCEPT !.step = "normalize", !.rows = Collected(list)]]
  BY DEF SaveRules
<1> DEFINE r == [NotSaving EXCEPT !.step = "normalize", !.rows = Collected(list)]
<1>2. Collected(list) \in Seq(Rows) /\ Len(Collected(list)) <= MaxRules
  BY EditedType, CollectedType, InvParts DEF FormsOf, Page
<1>3. r \in Request /\ Len(r.rows) <= MaxRules /\ Len(r.result) <= MaxRules
      /\ ReadyToStore(rules, r)
  BY <1>2, NotSavingType, NotSavingOK DEF NotSaving, Request, ReadyToStore
<1>4. SavesOf(rules, saving')
  BY <1>1, <1>3, OneRequest, InvParts
<1>5. (ruleSaves \in 0..MaxRuleSaves)' /\ UNCHANGED <<rules, form>>
  BY RulesAssumption DEF SaveRules, RulesInv, RulesTypeOK
<1> QED
  BY <1>4, <1>5 DEF RulesInv, RulesTypeOK, SavesOf, Sized, Request, Rows

-----------------------------------------------------------------------------
(* The server.                                                               *)
LEMMA NormalizeInv ==
    ASSUME RulesInv, NEW t \in Tabs, NormalizeRules(t)
    PROVE  RulesInv'
<1> DEFINE rows == saving[t].rows
           next(list) == [saving[t] EXCEPT !.step = "store", !.blind = list # rules,
                                           !.result = Normalized(rows, list)]
<1>1. PICK list \in {rules, <<>>} :
         ReadRules(t, list, IF Distinct(rows) THEN next(list) ELSE NotSaving)
  BY DEF NormalizeRules
<1>2. list \in Seq(Stored) /\ Distinct(list)
  BY EmptyRules DEF RulesInv, RulesTypeOK, IsList
<1>3. saving[t] \in Request /\ Len(rows) <= MaxRules
  BY InvParts DEF SavesOf, Sized
<1>4. Normalized(rows, list) \in Seq(Stored) /\ Len(Normalized(rows, list)) <= MaxRules
      /\ (Distinct(rows) => Distinct(Normalized(rows, list)))
  BY <1>2, <1>3, NormalizedType DEF Request
<1>5. Found(rules', next(list)) = list
  <2>1. next(list).blind = (list # rules)
    BY <1>3 DEF Request
  <2> QED
    BY <1>1, <2>1, ReadKeeps DEF Found
<1>6. ASSUME Distinct(rows)
      PROVE  /\ next(list) \in Request
             /\ Len(next(list).rows) <= MaxRules /\ Len(next(list).result) <= MaxRules
             /\ ReadyToStore(rules', next(list))
  <2>1. /\ next(list).rows = rows /\ next(list).result = Normalized(rows, list)
        /\ next(list) \in Request
    BY <1>3, <1>4 DEF Request
  <2> HIDE DEF next
  <2> QED
    BY <1>3, <1>4, <1>5, <1>6, <2>1 DEF ReadyToStore
<1> DEFINE r == IF Distinct(rows) THEN next(list) ELSE NotSaving
<1>7. /\ r \in Request /\ Len(r.rows) <= MaxRules /\ Len(r.result) <= MaxRules
      /\ ReadyToStore(rules', r)
  BY <1>6, NotSavingOK, NotSavingType
<1>8. ReadRules(t, list, r)
  BY <1>1
<1> HIDE DEF r, next, rows
<1> QED
  BY <1>7, <1>8, ReadInv DEF NormalizeRules

LEMMA StoreInv ==
    ASSUME RulesInv, NEW t \in Tabs, StoreRules(t)
    PROVE  RulesInv'
<1> DEFINE r == [saving[t] EXCEPT !.step = "apply"]
<1>1. SavesOf(rules, saving) /\ saving[t].step = "store"
  BY InvParts DEF StoreRules
<1>2. IsList(rules', Stored) /\ Distinct(rules')
  BY <1>1 DEF StoreRules, SavesOf, Sized, Request, ReadyToStore, IsList
<1>3. SavesOf(rules', LateSaves)
  BY <1>1, LateSavesOf
<1>4. r \in Request /\ Len(r.rows) <= MaxRules /\ Len(r.result) <= MaxRules
      /\ ReadyToStore(rules', r)
  BY <1>1 DEF SavesOf, Sized, Request, ReadyToStore
<1>5. SavesOf(rules', saving')
  BY <1>3, <1>4, OneRequest DEF StoreRules
<1> QED
  BY <1>2, <1>5, InvParts
     DEF StoreRules, RulesInv, RulesTypeOK, FormsOf, SavesOf, Sized, Request, Rows

LEMMA StoreFailsInv ==
    ASSUME RulesInv, NEW t \in Tabs, StoreRulesFails(t)
    PROVE  RulesInv'
<1>1. SavesOf(rules, saving')
  BY InvParts, OneRequest, NotSavingOK, NotSavingType DEF StoreRulesFails
<1> QED
  BY <1>1, InvParts
     DEF StoreRulesFails, RulesInv, RulesTypeOK, FormsOf, SavesOf, Sized, Request, Rows

LEMMA ApplyInv ==
    ASSUME RulesInv, NEW t \in Tabs, ApplyRules(t)
    PROVE  RulesInv'
BY ReadInv, NotSavingOK, NotSavingType DEF ApplyRules

LEMMA ReadFailsInv ==
    ASSUME RulesInv, RulesReadFails
    PROVE  RulesInv'
<1>1. IsList(rules', Stored) /\ Distinct(rules')
  BY NoRulesList DEF RulesReadFails, DefaultReturned
<1>2. SavesOf(rules', saving')
  BY InvParts, LateSavesOf DEF RulesReadFails
<1>3. FormsOf(form)' /\ (ruleSaves \in 0..MaxRuleSaves)'
  BY InvParts DEF FormsOf, RulesReadFails
<1> QED
  BY <1>1, <1>2, <1>3 DEF RulesInv, RulesTypeOK, FormsOf, SavesOf, Sized, Request, Rows

LEMMA RulesInvStep == RulesInv /\ [RulesNext]_rulesVars => RulesInv'
<1> SUFFICES ASSUME RulesInv, [RulesNext]_rulesVars PROVE RulesInv'
  OBVIOUS
<1>1. CASE UNCHANGED rulesVars
  BY <1>1 DEF rulesVars, RulesInv, RulesTypeOK, ReadyToStore
<1>2. CASE RulesReadFails
  BY <1>2, ReadFailsInv
<1>3. ASSUME NEW t \in Tabs,
             \/ LoadRules(t) \/ SaveRules(t) \/ NormalizeRules(t)
             \/ StoreRules(t) \/ StoreRulesFails(t) \/ ApplyRules(t)
      PROVE  RulesInv'
  BY <1>3, LoadInv, SaveInv, NormalizeInv, StoreInv, StoreFailsInv, ApplyInv
<1> QED
  BY <1>1, <1>2, <1>3 DEF RulesNext

-----------------------------------------------------------------------------
(* The rules and the requests are always such as RulesInv says.              *)
THEOREM RulesInvariant == RulesSpec => []RulesInv
<1> QED
  BY RulesInvInit, RulesInvStep, PTL DEF RulesSpec

(* No two rules are for one pool and no two for one name, whatever the tabs  *)
(* save at the same time and whichever reads fail (normalizeDDNSRules).      *)
THEOREM OneRulePerPool == RulesSpec => []RulesDistinct
<1>1. RulesInv => RulesDistinct
  BY DEF RulesInv, Distinct, RulesDistinct
<1> QED
  BY <1>1, RulesInvariant, PTL

(* The step that writes the rows of a request is StoreRules.                 *)
LEMMA OnlyStoreWrites ==
    ASSUME RulesInv, RulesNext, NEW t \in Tabs,
           saving[t].step = "store", saving'[t].step = "apply"
    PROVE  StoreRules(t)
<1>1. saving \in [Tabs -> Request] /\ LateSaves \in [Tabs -> Request]
      /\ LateSaves[t].step = "store"
  BY InvParts, LateSavesType DEF SavesOf, Sized
<1>2. ASSUME NEW u \in Tabs, NEW x, x.step # "apply"
      PROVE  /\ [saving EXCEPT ![u] = x][t].step # "apply"
             /\ [LateSaves EXCEPT ![u] = x][t].step # "apply"
  BY <1>1, <1>2
<1>3. ASSUME NEW u \in Tabs, NEW list, NEW x, ReadRules(u, list, x)
      PROVE  x.step = "apply"
  BY <1>2, <1>3 DEF ReadRules
<1>4. ~RulesReadFails
  BY <1>1 DEF RulesReadFails
<1>5. PICK u \in Tabs : \/ LoadRules(u) \/ SaveRules(u) \/ NormalizeRules(u)
                        \/ StoreRules(u) \/ StoreRulesFails(u) \/ ApplyRules(u)
  BY <1>4 DEF RulesNext
<1>6. NotSaving.step # "apply"
      /\ \A rows : [NotSaving EXCEPT !.step = "normalize", !.rows = rows].step # "apply"
  BY DEF NotSaving
<1>7. ~LoadRules(u) /\ ~SaveRules(u) /\ ~StoreRulesFails(u)
  BY <1>2, <1>6 DEF LoadRules, SaveRules, StoreRulesFails
<1>8. ASSUME NormalizeRules(u) PROVE FALSE
  <2> DEFINE r(list) == IF Distinct(saving[u].rows)
                        THEN [saving[u] EXCEPT !.step = "store", !.blind = list # rules,
                                               !.result = Normalized(saving[u].rows, list)]
                        ELSE NotSaving
  <2>1. PICK list \in {rules, <<>>} : ReadRules(u, list, r(list))
    BY <1>8 DEF NormalizeRules
  <2>2. r(list).step # "apply"
    BY <1>1, <1>6 DEF Request
  <2> HIDE DEF r
  <2> QED
    BY <1>3, <2>1, <2>2
<1>9. ~ApplyRules(u)
  BY <1>3, <1>6 DEF ApplyRules
<1>10. StoreRules(u)
  BY <1>5, <1>7, <1>8, <1>9
<1>11. u = t
  BY <1>1, <1>10 DEF StoreRules
<1> QED
  BY <1>10, <1>11

(* A save that nothing has overtaken stores for each pool the key typed into *)
(* its row or the one it has found stored, and the token it has found.       *)
LEMMA StoreKeepsSecrets ==
    ASSUME RulesInv, NEW t \in Tabs, StoreRules(t), ~saving[t].stale,
           NEW i \in DOMAIN saving[t].rows
    PROVE  LET row == saving[t].rows[i]
               old == Existing(IF saving[t].blind THEN <<>> ELSE rules, row.pool)
               new == Existing(rules', row.pool)
           IN  /\ new.key = IF row.key \in ApiKeys THEN row.key ELSE old.key
               /\ new.token = old.token
<1> DEFINE rows  == saving[t].rows
           row   == rows[i]
           found == Found(rules, saving[t])
           old   == Existing(found, row.pool)
<1>1. saving[t] \in Request /\ saving[t].step = "store"
  BY InvParts DEF StoreRules, SavesOf, Sized
<1>2. rules' = Normalized(rows, found) /\ Distinct(rules') /\ rules' \in Seq(Stored)
  BY <1>1 DEF RulesInv, StoreRules, ReadyToStore, Request
<1>3. row \in Rows
  BY <1>1, ElementOfSeq DEF Request
<1> HIDE DEF found
<1>4. rules'[i] = [row EXCEPT !.key = Unmasked(@, old.key), !.token = Unmasked(@, old.token)]
      /\ i \in DOMAIN rules'
  BY <1>2 DEF Normalized
<1>5. rules'[i].pool = row.pool /\ rules'[i].key = Unmasked(row.key, old.key)
      /\ rules'[i].token = Unmasked(row.token, old.token)
  BY <1>3, <1>4 DEF Rows, RowsWith
<1>6. Existing(rules', row.pool) = rules'[i]
  BY <1>2, <1>4, <1>5, ExistingAt
<1>7. Unmasked(row.token, old.token) = old.token
  BY <1>3 DEF Unmasked, Rows, RowsWith
<1>8. Unmasked(row.key, old.key) = IF row.key \in ApiKeys THEN row.key ELSE old.key
  BY <1>3, RulesAssumption DEF Unmasked, Rows, RowsWith, Typed, Blank, Mask
<1> QED
  BY <1>5, <1>6, <1>7, <1>8 DEF found, Found

(* Neither a mask nor an old page brings back an old secret or another       *)
(* pool's (resolveMaskedSecret and normalizeDDNSRules); what a save whose    *)
(* read failed cannot know, it leaves empty.                                 *)
THEOREM NoSecretIsLost == RulesSpec => SecretsSurvive
<1>1. RulesInv /\ [RulesNext]_rulesVars =>
        [\A t \in Tabs :
          saving[t].step = "store" /\ ~saving[t].stale /\ saving'[t].step = "apply"
          => \A i \in DOMAIN saving[t].rows :
                LET row == saving[t].rows[i]
                    old == Existing(IF saving[t].blind THEN <<>> ELSE rules, row.pool)
                    new == Existing(rules', row.pool)
                IN  /\ new.key = IF row.key \in ApiKeys THEN row.key ELSE old.key
                    /\ new.token = old.token]_rulesVars
  BY OnlyStoreWrites, StoreKeepsSecrets
<1> QED
  BY <1>1, RulesInvariant, PTL DEF RulesSpec, SecretsSurvive

(* Types; and a mask is never stored in place of the secret behind it        *)
(* (GetConfig, resolveMaskedSecret).                                         *)
THEOREM MasksNeverStored == RulesSpec => []RulesTypeOK
<1>1. RulesInv => RulesTypeOK
  BY DEF RulesInv
<1> QED
  BY <1>1, RulesInvariant, PTL

-----------------------------------------------------------------------------
(* The shared settings: types.                                               *)

Access == [step : TokenSteps \cup {"off", "save"}, agent : Agents \cup {NoAgent},
           token : {NoToken} \cup RealTokens, blind : BOOLEAN, overtaken : BOOLEAN,
           old : Olds, new : Templates]

(* A token that is about to be stored or installed is a real one, and an     *)
(* installation is one of an agent.                                          *)
Sound == {q \in Access :
            /\ q.step \in {"store", "deploy"} => q.token # NoToken
            /\ q.step \in {"install", "install default", "store", "deploy"}
                  => q.agent \in Agents}

TokenTypes ==
    /\ token \in {Absent, NoToken} \cup RealTokens
    /\ agentToken \in [Agents -> {NoToken} \cup RealTokens]
    /\ shown \in {NoToken} \cup RealTokens /\ generated \in 0..MaxTokens
    /\ outdated \in SUBSET Agents /\ tokenLost \in BOOLEAN

TemplateTypes ==
    /\ template \in Templates /\ sending \in Templates
    /\ posted \in Seq([old : Olds, new : Templates])
    /\ saves \in 0..MaxSaves /\ savesRaced \in BOOLEAN /\ startBlind \in BOOLEAN

ConfigTypes == TokenTypes /\ TemplateTypes /\ access \in [Accesses -> Sound]

LEMMA TypesSuffice == ConfigTypes => ConfigTypeOK
BY DEF ConfigTypes, TokenTypes, TemplateTypes, ConfigTypeOK, Sound, Access

LEMMA TokenValues ==
    /\ NoToken \notin RealTokens /\ Absent \notin RealTokens /\ Absent # NoToken
    /\ 1..MaxTokens \subseteq RealTokens
<1>1. TypedTokens \subseteq Nat /\ Absent \notin Nat /\ MaxTokens \in Nat
      /\ \A t \in TypedTokens : t \notin 0..MaxTokens
  BY ConfigAssumption
<1>2. 0 \in 0..MaxTokens /\ 0 \notin 1..MaxTokens
  BY <1>1
<1>3. \A n \in 1..MaxTokens : n \in Nat
  BY <1>1
<1>4. NoToken \notin RealTokens /\ Absent # NoToken
  BY <1>1, <1>2 DEF NoToken, RealTokens
<1>5. Absent \notin RealTokens
  BY <1>1, <1>3 DEF RealTokens
<1> QED
  BY <1>4, <1>5 DEF RealTokens

LEMMA OffSound == Off \in Sound /\ Off.step = "off"
BY ConfigAssumption DEF Off, Sound, Access, Olds

LEMMA ConfigTypesInit == ConfigInit => ConfigTypes
<1> SUFFICES ASSUME ConfigInit PROVE ConfigTypes
  OBVIOUS
<1>1. access \in [Accesses -> Sound]
  BY OffSound DEF ConfigInit
<1>2. 0 \in 0..MaxTokens /\ 0 \in 0..MaxSaves /\ NoTemplate \in Templates
  BY ConfigAssumption
<1>3. TokenTypes
  BY <1>2 DEF ConfigInit, TokenTypes
<1>4. TemplateTypes
  BY <1>2, EmptySeq DEF ConfigInit, TemplateTypes
<1> QED
  BY <1>1, <1>3, <1>4 DEF ConfigTypes

LEMMA Defaults == /\ Defaulting["heartbeat"] = "heartbeat default"
                  /\ Defaulting["install"] = "install default"
BY DEF Defaulting

(* What GetAs returned makes of a request.                                   *)
LEMMA GotSound ==
    ASSUME ConfigTypes, NEW q \in Sound, NEW kind \in {"heartbeat", "install"},
           q.step \in {kind, Defaulting[kind]},
           NEW t \in {NoToken} \cup RealTokens, Generated(kind, t)
    PROVE  Got(kind, q, t) \in Sound /\ generated' \in 0..MaxTokens
<1>1. q \in Access /\ generated \in 0..MaxTokens
  BY DEF Sound, ConfigTypes, TokenTypes
<1>2. CASE kind = "heartbeat"
  BY <1>1, <1>2, OffSound DEF Got, Generated
<1>3. CASE kind = "install" /\ Reusable(t)
  <2>1. [q EXCEPT !.step = "deploy", !.token = t] \in Sound
    BY <1>1, <1>3, Defaults DEF Sound, Access, TokenSteps, Reusable
  <2> QED
    BY <1>1, <1>3, <2>1 DEF Got, Generated
<1>4. CASE kind = "install" /\ ~Reusable(t)
  <2>1. generated + 1 \in 1..MaxTokens /\ generated' = generated + 1
    BY <1>1, <1>4, ConfigAssumption DEF Generated
  <2>2. generated + 1 \in RealTokens /\ generated + 1 # NoToken
    BY <2>1, TokenValues
  <2>3. [q EXCEPT !.step = "store", !.token = generated + 1] \in Sound
    BY <1>1, <1>4, <2>2, Defaults DEF Sound, Access, TokenSteps
  <2> QED
    BY <1>4, <2>1, <2>3, ConfigAssumption DEF Got
<1> QED
  BY <1>2, <1>3, <1>4

LEMMA OvertakenSound ==
    ASSUME access \in [Accesses -> Sound], NEW v
    PROVE  /\ Overtaken(v) \in [Accesses -> Sound]
           /\ \A r \in Accesses :
                 /\ Overtaken(v)[r].step = access[r].step
                 /\ Overtaken(v)[r].token = access[r].token
                 /\ v = token => Overtaken(v)[r] = access[r]
                 /\ v # token /\ access[r].step \in ReadSteps => Overtaken(v)[r].overtaken
<1>1. \A q \in Sound : [q EXCEPT !.overtaken = TRUE] \in Sound
  BY DEF Sound, Access
<1> QED
  BY <1>1 DEF Overtaken, Sound, Access

LEMMA StoreRowTypes ==
    ASSUME TokenTypes, NEW v \in {NoToken} \cup RealTokens, NEW e, StoreRow(v, e),
           e \in BOOLEAN, UNCHANGED <<agentToken, shown>>, generated' \in 0..MaxTokens
    PROVE  TokenTypes'
BY DEF TokenTypes, StoreRow

LEMMA TokenTypesStep ==
    ASSUME ConfigTypes, TokenNext
    PROVE  ConfigTypes'
<1>0. access \in [Accesses -> Sound] /\ TokenTypes /\ TemplateTypes
  BY DEF ConfigTypes
<1>1. TemplateTypes'
  BY <1>0 DEF TemplateTypes, TokenNext, HandleToken, BeginToken, ReadToken, WriteDefault,
              StoreToken, DeployAgent, LoadPage, SaveToken, templates
<1>2. ASSUME NEW r \in Accesses, NEW kind \in {"heartbeat", "install"},
             NEW a \in Agents \cup {NoAgent}, kind = "install" => a \in Agents,
             BeginToken(r, kind, a)
      PROVE  ConfigTypes'
  <2>1. [Off EXCEPT !.step = kind, !.agent = a] \in Sound
    BY <1>2, OffSound DEF Off, Sound, Access, TokenSteps
  <2>2. TokenTypes'
    BY <1>0, <1>2 DEF BeginToken, tokens, TokenTypes
  <2> QED
    BY <1>0, <1>1, <1>2, <2>1, <2>2 DEF BeginToken, ConfigTypes
<1>3. ASSUME NEW r \in Accesses, NEW kind \in {"heartbeat", "install"}, ReadToken(r, kind)
      PROVE  ConfigTypes'
  <2>1. CASE /\ token # Absent
             /\ access' = [access EXCEPT ![r] = Got(kind, access[r], token)]
             /\ Generated(kind, token)
    <3>1. Got(kind, access[r], token) \in Sound /\ generated' \in 0..MaxTokens
      BY <1>0, <1>3, <2>1, GotSound DEF ReadToken, TokenTypes
    <3> QED
      BY <1>0, <1>1, <1>3, <2>1, <3>1 DEF ReadToken, ConfigTypes, TokenTypes
  <2>2. CASE /\ access' = [access EXCEPT ![r].step = Defaulting[kind],
                                         ![r].blind = (token # Absent)]
             /\ UNCHANGED generated
    <3>1. [access[r] EXCEPT !.step = Defaulting[kind], !.blind = (token # Absent)] \in Sound
      BY <1>0, <1>3, Defaults DEF ReadToken, Sound, Access, TokenSteps
    <3>2. access' = [access EXCEPT ![r] = [access[r] EXCEPT !.step = Defaulting[kind],
                                                            !.blind = (token # Absent)]]
      BY <1>0, <2>2
    <3> QED
      BY <1>0, <1>1, <1>3, <2>2, <3>1, <3>2 DEF ReadToken, ConfigTypes, TokenTypes
  <2> QED
    BY <1>3, <2>1, <2>2 DEF ReadToken
<1>4. ASSUME NEW r \in Accesses, NEW kind \in {"heartbeat", "install"}, WriteDefault(r, kind)
      PROVE  ConfigTypes'
  <2>1. Got(kind, access[r], NoToken) \in Sound /\ generated' \in 0..MaxTokens
    BY <1>0, <1>4, GotSound DEF WriteDefault
  <2>2. access' \in [Accesses -> Sound]
    BY <1>0, <1>4, <2>1, OvertakenSound DEF WriteDefault
  <2>3. TokenTypes'
    <3>1. CASE StoreRow(NoToken, Unknowing(access[r]))
      <4>1. Unknowing(access[r]) \in BOOLEAN
        BY <1>0 DEF Unknowing, Sound, Access
      <4> QED
        BY <1>0, <1>4, <2>1, <3>1, <4>1, StoreRowTypes DEF WriteDefault
    <3>2. CASE UNCHANGED <<token, outdated, tokenLost>>
      BY <1>0, <1>4, <2>1, <3>2 DEF WriteDefault, TokenTypes
    <3> QED
      BY <1>4, <3>1, <3>2 DEF WriteDefault
  <2> QED
    BY <1>1, <2>2, <2>3 DEF ConfigTypes
<1>5. ASSUME NEW r \in Accesses, StoreToken(r)
      PROVE  ConfigTypes'
  <2> DEFINE q == access[r]
             d == [q EXCEPT !.step = "deploy", !.blind = FALSE, !.overtaken = FALSE]
  <2>1. /\ q.step = "store" /\ q.token \in RealTokens /\ q \in Sound /\ d \in Sound
        /\ Unknowing(q) \in BOOLEAN
    BY <1>0, <1>5 DEF StoreToken, Sound, Access, TokenSteps, Unknowing
  <2> HIDE DEF q, d
  <2>2. CASE /\ StoreRow(q.token, Unknowing(q))
             /\ access' = [Overtaken(q.token) EXCEPT ![r] = d]
    <3>1. TokenTypes'
      BY <1>0, <1>5, <2>1, <2>2, StoreRowTypes DEF StoreToken, TokenTypes
    <3> QED
      BY <1>0, <1>1, <2>1, <2>2, <3>1, OvertakenSound DEF ConfigTypes
  <2>3. CASE EndAccess(r) /\ UNCHANGED <<token, outdated, tokenLost>>
    BY <1>0, <1>1, <1>5, <2>3, OffSound DEF EndAccess, StoreToken, ConfigTypes, TokenTypes
  <2> QED
    BY <1>5, <2>2, <2>3 DEF StoreToken, q, d
<1>6. ASSUME NEW r \in Accesses, DeployAgent(r)
      PROVE  ConfigTypes'
  <2>1. access[r].agent \in Agents /\ access[r].token \in {NoToken} \cup RealTokens
    BY <1>0, <1>6 DEF DeployAgent, Sound, Access
  <2>2. TokenTypes'
    BY <1>0, <1>6, <2>1 DEF DeployAgent, TokenTypes
  <2> QED
    BY <1>0, <1>1, <1>6, <2>2, OffSound DEF DeployAgent, EndAccess, ConfigTypes
<1>7. CASE LoadPage
  BY <1>0, <1>1, <1>7 DEF LoadPage, ConfigTypes, TokenTypes
<1>8. ASSUME NEW t \in RealTokens, SaveToken(t)
      PROVE  ConfigTypes'
  <2>1. TokenTypes'
    BY <1>0, <1>8, StoreRowTypes DEF SaveToken, TokenTypes
  <2> QED
    BY <1>0, <1>1, <1>8, <2>1, OvertakenSound DEF SaveToken, ConfigTypes
<1> QED
  BY <1>2, <1>3, <1>4, <1>5, <1>6, <1>7, <1>8 DEF TokenNext, HandleToken

LEMMA PostedType ==
    ASSUME NEW S, NEW s \in Seq(S), NEW i \in 1..Len(s)
    PROVE  RemoveAt(s, i) \in Seq(S)
<1>1. SubSeq(s, 1, i - 1) \in Seq(S) /\ SubSeq(s, i + 1, Len(s)) \in Seq(S)
  BY SubSeqProperties
<1> QED
  BY <1>1, ConcatProperties DEF RemoveAt

LEMMA TemplateTypesStep ==
    ASSUME ConfigTypes, TemplateNext \/ ConfigRestart
    PROVE  ConfigTypes'
<1>0. access \in [Accesses -> Sound] /\ TokenTypes /\ TemplateTypes
  BY DEF ConfigTypes
<1>1. TokenTypes'
  BY <1>0 DEF TokenTypes, TemplateNext, HandleSave, BeginSave, EndSave, Deliver,
              ConfigRestart, tokens
<1>2. ASSUME NEW r \in Accesses, NEW t \in Templates, BeginSave(r, t)
      PROVE  ConfigTypes'
  <2>1. PICK old \in {template, Absent} :
           access' = [access EXCEPT ![r] = [Off EXCEPT !.step = "save", !.old = old, !.new = t]]
    BY <1>2 DEF BeginSave
  <2>2. [Off EXCEPT !.step = "save", !.old = old, !.new = t] \in Sound
    BY <1>0, OffSound DEF Sound, Access, Olds, TemplateTypes, Off
  <2>3. saves' \in 0..MaxSaves
    BY <1>0, <1>2, ConfigAssumption DEF BeginSave, TemplateTypes
  <2> QED
    BY <1>0, <1>1, <1>2, <2>1, <2>2, <2>3 DEF BeginSave, ConfigTypes, TemplateTypes
<1>3. ASSUME NEW r \in Accesses, EndSave(r)
      PROVE  ConfigTypes'
  <2> DEFINE e == [old |-> access[r].old, new |-> access[r].new]
  <2>1. e \in [old : Olds, new : Templates] /\ e.new = access[r].new
    BY <1>0 DEF Sound, Access
  <2>2. Append(posted, e) \in Seq([old : Olds, new : Templates])
    BY <1>0, <2>1, AppendProperties DEF TemplateTypes
  <2>3. TemplateTypes'
    BY <1>0, <1>3, <2>1, <2>2 DEF EndSave, TemplateTypes
  <2> QED
    BY <1>0, <1>1, <1>3, <2>3, OffSound DEF EndSave, EndAccess, ConfigTypes
<1>4. ASSUME NEW i \in 1..Len(posted), Deliver(i)
      PROVE  ConfigTypes'
  <2>1. posted[i] \in [old : Olds, new : Templates]
    BY <1>0, ElementOfSeq DEF TemplateTypes
  <2>2. posted' \in Seq([old : Olds, new : Templates])
    BY <1>0, <1>4, PostedType DEF Deliver, TemplateTypes
  <2> QED
    BY <1>0, <1>1, <1>4, <2>1, <2>2 DEF Deliver, ConfigTypes, TemplateTypes
<1>5. CASE ConfigRestart
  <2>1. TemplateTypes'
    BY <1>0, <1>5, ConfigAssumption, EmptySeq DEF ConfigRestart, TemplateTypes
  <2> QED
    BY <1>1, <1>5, <2>1, OffSound DEF ConfigRestart, ConfigTypes
<1> QED
  BY <1>2, <1>3, <1>4, <1>5 DEF TemplateNext, HandleSave

LEMMA ConfigTypesStep == ConfigTypes /\ [ConfigNext]_configVars => ConfigTypes'
<1> SUFFICES ASSUME ConfigTypes, [ConfigNext]_configVars PROVE ConfigTypes'
  OBVIOUS
<1>1. CASE UNCHANGED configVars
  BY <1>1 DEF configVars, tokens, templates, ConfigTypes, TokenTypes, TemplateTypes
<1> QED
  BY <1>1, TokenTypesStep, TemplateTypesStep DEF ConfigNext

(* Type correctness of the shared settings, and no agent is ever installed   *)
(* with an empty token, whatever meets and whatever fails.                   *)
THEOREM ConfigTyped == ConfigSpec => []ConfigTypeOK
BY ConfigTypesInit, ConfigTypesStep, TypesSuffice, PTL DEF ConfigSpec

-----------------------------------------------------------------------------
(* The agents' token.                                                        *)

(* What a request that has read token t, and that nothing has overtaken,     *)
(* knows of it; an overtaken one may only install what has been lost.        *)
Knows(q, t, lost) ==
    /\ q.step \in {"heartbeat default", "install default"} /\ ~Unknowing(q) => t = Absent
    /\ q.step = "store" /\ ~Unknowing(q) => t \in {Absent, NoToken}
    /\ q.step = "deploy" => IF q.overtaken THEN lost ELSE t = q.token
    /\ q.step = "install" => ~q.overtaken

AgentsKnown ==
    /\ \A a \in Agents \ outdated : agentToken[a] \in {NoToken, token}
    /\ ~tokenLost => outdated = {}

TokenKnown == AgentsKnown /\ \A r \in Accesses : Knows(access[r], token, tokenLost)

(* The row is written by a request that has no reason to think there was a   *)
(* token, and there was none; or else the loss is excused.                   *)
LEMMA RowStored ==
    ASSUME ConfigTypes, TokenKnown, UNCHANGED agentToken,
           NEW v \in {NoToken} \cup RealTokens, NEW e \in BOOLEAN, StoreRow(v, e),
           e \/ token \in {Absent, NoToken}
    PROVE  /\ AgentsKnown'
           /\ \A q \in Accesses : Knows(Overtaken(v)[q], token', tokenLost')
<1>1. /\ access \in [Accesses -> Sound] /\ agentToken \in [Agents -> {NoToken} \cup RealTokens]
      /\ token \in {Absent, NoToken} \cup RealTokens /\ token' = v
  BY DEF ConfigTypes, TokenTypes, StoreRow
<1>2. CASE token \in RealTokens /\ v # token
  <2>1. /\ outdated' = {a \in Agents : agentToken[a] # NoToken} /\ tokenLost'
    BY <1>2, TokenValues DEF StoreRow
  <2>2. AgentsKnown'
    BY <1>1, <2>1 DEF AgentsKnown
  <2>3. ASSUME NEW q \in Accesses PROVE Knows(Overtaken(v)[q], token', tokenLost')
    <3>1. /\ Overtaken(v)[q].step = access[q].step
          /\ access[q].step \in ReadSteps => Overtaken(v)[q].overtaken
      BY <1>1, <1>2, OvertakenSound
    <3>2. access[q].step = "install" => Overtaken(v)[q] = access[q]
      BY <1>1 DEF Overtaken, ReadSteps
    <3> QED
      BY <2>1, <3>1, <3>2 DEF Knows, Unknowing, ReadSteps, TokenKnown
  <2> QED
    BY <2>2, <2>3
<1>3. CASE token \notin RealTokens \/ v = token
  <2>1. outdated' = outdated /\ tokenLost' = tokenLost
    BY <1>3 DEF StoreRow, ConfigTypes, TokenTypes
  <2>2. AgentsKnown'
    BY <1>1, <1>3, <2>1, TokenValues DEF TokenKnown, AgentsKnown
  <2>3. ASSUME NEW q \in Accesses PROVE Knows(Overtaken(v)[q], token', tokenLost')
    <3>1. CASE v = token
      BY <1>1, <2>1, <3>1, OvertakenSound DEF TokenKnown
    <3>2. CASE token \in {Absent, NoToken} /\ v # token
      <4>1. /\ Overtaken(v)[q].step = access[q].step
            /\ access[q].step \in ReadSteps => Overtaken(v)[q].overtaken
        BY <1>1, <3>2, OvertakenSound
      <4>2. access[q].step = "install" => Overtaken(v)[q] = access[q]
        BY <1>1 DEF Overtaken, ReadSteps
      <4>3. access[q].step = "deploy" => tokenLost
        BY <1>1, <3>2, TokenValues DEF TokenKnown, Knows, Sound, Access
      <4> QED
        BY <2>1, <4>1, <4>2, <4>3 DEF Knows, Unknowing, ReadSteps, TokenKnown
    <3> QED
      BY <1>1, <1>3, <3>1, <3>2
  <2> QED
    BY <2>2, <2>3
<1> QED
  BY <1>2, <1>3

(* Request r changes into q and the rest stays as it is.                     *)
LEMMA OneKnows ==
    ASSUME ConfigTypes, TokenKnown, NEW r \in Accesses, NEW q,
           access' = [access EXCEPT ![r] = q],
           UNCHANGED <<token, agentToken, outdated, tokenLost>>,
           Knows(q, token, tokenLost)
    PROVE  TokenKnown'
<1>1. access \in [Accesses -> Sound]
  BY DEF ConfigTypes
<1>2. \A p \in Accesses : access'[p] = IF p = r THEN q ELSE access[p]
  BY <1>1
<1> QED
  BY <1>2 DEF TokenKnown, AgentsKnown

LEMMA OffKnows == \A t, lost : Knows(Off, t, lost)
BY DEF Knows, Off

(* GetAs has returned the token as it is, or the default, and request q goes *)
(* on with that.                                                             *)
LEMMA GotKnows ==
    ASSUME NEW q \in Sound, NEW kind \in {"heartbeat", "install"}, NEW t, NEW s, NEW lost,
           ~Unknowing(q) => s = t \/ (t = NoToken /\ s = Absent),
           Reusable(t) => ~q.overtaken /\ s = t
    PROVE  Knows(Got(kind, q, t), s, lost)
<1>1. q \in Access
  BY DEF Sound
<1>2. CASE kind = "heartbeat"
  BY <1>2, OffKnows DEF Got
<1>3. CASE kind = "install" /\ Reusable(t)
  BY <1>1, <1>3 DEF Got, Knows, Access
<1>4. CASE kind = "install" /\ ~Reusable(t)
  BY <1>1, <1>4 DEF Got, Knows, Access, Reusable, Unknowing
<1> QED
  BY <1>2, <1>3, <1>4

LEMMA TokenStep ==
    ASSUME ConfigTypes, TokenKnown, TokenNext
    PROVE  TokenKnown'
<1>0. access \in [Accesses -> Sound] /\ TokenTypes
  BY DEF ConfigTypes
<1>1. ASSUME NEW r \in Accesses, NEW a, NEW kind \in {"heartbeat", "install"},
             BeginToken(r, kind, a)
      PROVE  TokenKnown'
  <2>1. Knows([Off EXCEPT !.step = kind, !.agent = a], token, tokenLost)
    BY DEF Knows, Off
  <2> QED
    BY <1>1, <2>1, OneKnows DEF BeginToken, tokens
<1>2. ASSUME NEW r \in Accesses, NEW kind \in {"heartbeat", "install"}, ReadToken(r, kind)
      PROVE  TokenKnown'
  <2>1. CASE access' = [access EXCEPT ![r] = Got(kind, access[r], token)]
    <3>1. CASE kind = "heartbeat"
      BY <1>2, <2>1, <3>1, OffKnows, OneKnows DEF Got, ReadToken
    <3>2. CASE kind = "install"
      <4>1. ~access[r].overtaken
        BY <1>2, <3>2 DEF ReadToken, TokenKnown, Knows
      <4>2. Knows(Got(kind, access[r], token), token, tokenLost)
        BY <1>0, <4>1, GotKnows
      <4> QED
        BY <1>2, <2>1, <4>2, OneKnows DEF ReadToken
    <3> QED
      BY <3>1, <3>2
  <2>2. CASE access' = [access EXCEPT ![r].step = Defaulting[kind],
                                      ![r].blind = (token # Absent)]
    <3> DEFINE q == [access[r] EXCEPT !.step = Defaulting[kind],
                                      !.blind = (token # Absent)]
    <3>1. access' = [access EXCEPT ![r] = q]
      BY <1>0, <2>2
    <3>2. q.step \in {"heartbeat default", "install default"} /\ q.blind = (token # Absent)
      BY <1>0, Defaults DEF Sound, Access
    <3>3. Knows(q, token, tokenLost)
      BY <3>2 DEF Knows, Unknowing
    <3> QED
      BY <1>2, <3>1, <3>3, OneKnows DEF ReadToken
  <2> QED
    BY <1>2, <2>1, <2>2 DEF ReadToken
<1>3. ASSUME NEW r \in Accesses, NEW kind \in {"heartbeat", "install"}, WriteDefault(r, kind)
      PROVE  TokenKnown'
  <2> DEFINE q == Got(kind, access[r], NoToken)
  <2>1. ~Unknowing(access[r]) => token = Absent
    BY <1>3, Defaults DEF WriteDefault, TokenKnown, Knows
  <2>2. Unknowing(access[r]) \in BOOLEAN
    BY <1>0 DEF Unknowing, Sound, Access
  <2>3. \A lost : Knows(q, NoToken, lost)
    BY <1>0, GotKnows DEF Reusable
  <2>4. CASE /\ StoreRow(NoToken, Unknowing(access[r]))
             /\ access' = [Overtaken(NoToken) EXCEPT ![r] = q]
    <3>1. /\ AgentsKnown'
          /\ \A p \in Accesses : Knows(Overtaken(NoToken)[p], token', tokenLost')
      BY <1>3, <2>1, <2>2, <2>4, RowStored DEF WriteDefault
    <3>2. token' = NoToken
      BY <2>4 DEF StoreRow
    <3> HIDE DEF q
    <3> QED
      BY <1>0, <2>3, <2>4, <3>1, <3>2, OvertakenSound DEF TokenKnown
  <2>5. CASE /\ access' = [access EXCEPT ![r] = q]
             /\ UNCHANGED <<token, outdated, tokenLost>>
    <3>1. Knows(q, token, tokenLost)
      BY <1>0, <2>1, GotKnows DEF Reusable
    <3> QED
      BY <1>3, <2>5, <3>1, OneKnows DEF WriteDefault
  <2> QED
    BY <1>3, <2>4, <2>5 DEF WriteDefault
<1>4. ASSUME NEW r \in Accesses, StoreToken(r)
      PROVE  TokenKnown'
  <2> DEFINE q == access[r]
             d == [q EXCEPT !.step = "deploy", !.blind = FALSE, !.overtaken = FALSE]
  <2>1. /\ q \in Sound /\ q.step = "store" /\ q.token \in RealTokens
        /\ Unknowing(q) \in BOOLEAN
    BY <1>0, <1>4 DEF StoreToken, Sound, Access, Unknowing
  <2>2. Unknowing(q) \/ token \in {Absent, NoToken}
    BY <2>1 DEF TokenKnown, Knows
  <2>3. \A lost : Knows(d, q.token, lost)
    BY <2>1 DEF Knows, Sound, Access
  <2> HIDE DEF q, d
  <2>4. CASE /\ StoreRow(q.token, Unknowing(q))
             /\ access' = [Overtaken(q.token) EXCEPT ![r] = d]
    <3>1. /\ AgentsKnown'
          /\ \A p \in Accesses : Knows(Overtaken(q.token)[p], token', tokenLost')
      BY <1>4, <2>1, <2>2, <2>4, RowStored DEF StoreToken
    <3>2. token' = q.token
      BY <2>4 DEF StoreRow
    <3> QED
      BY <1>0, <2>3, <2>4, <3>1, <3>2, OvertakenSound DEF TokenKnown
  <2>5. CASE EndAccess(r) /\ UNCHANGED <<token, outdated, tokenLost>>
    BY <1>4, <2>5, OffKnows, OneKnows DEF EndAccess, StoreToken
  <2> QED
    BY <1>4, <2>4, <2>5 DEF StoreToken, q, d
<1>5. ASSUME NEW r \in Accesses, DeployAgent(r)
      PROVE  TokenKnown'
  <2> DEFINE q == access[r]
  <2>1. q.step = "deploy" /\ q.agent \in Agents /\ token' = token /\ tokenLost' = tokenLost
    BY <1>0, <1>5 DEF DeployAgent, Sound
  <2>2. IF q.overtaken THEN tokenLost ELSE token = q.token
    BY <2>1 DEF TokenKnown, Knows
  <2>3. \A p \in Accesses : access'[p] = IF p = r THEN Off ELSE access[p]
    BY <1>0, <1>5 DEF DeployAgent, EndAccess
  <2>4. AgentsKnown'
    <3>1. CASE UNCHANGED <<agentToken, outdated>>
      BY <2>1, <3>1 DEF TokenKnown, AgentsKnown
    <3>2. CASE /\ agentToken' = [agentToken EXCEPT ![q.agent] = q.token]
               /\ outdated' = outdated \cup {q.agent} /\ q.overtaken
      BY <1>0, <2>1, <2>2, <3>2 DEF TokenKnown, AgentsKnown, TokenTypes
    <3>3. CASE /\ agentToken' = [agentToken EXCEPT ![q.agent] = q.token]
               /\ outdated' = outdated \ {q.agent} /\ ~q.overtaken
      BY <1>0, <2>1, <2>2, <3>3 DEF TokenKnown, AgentsKnown, TokenTypes
    <3> QED
      BY <1>5, <3>1, <3>2, <3>3 DEF DeployAgent
  <2> QED
    BY <2>1, <2>3, <2>4, OffKnows DEF TokenKnown
<1>6. CASE LoadPage
  BY <1>6 DEF LoadPage, TokenKnown, AgentsKnown
<1>7. ASSUME NEW t \in RealTokens, SaveToken(t)
      PROVE  TokenKnown'
  <2>1. /\ AgentsKnown'
        /\ \A p \in Accesses : Knows(Overtaken(t)[p], token', tokenLost')
    BY <1>7, RowStored DEF SaveToken
  <2> QED
    BY <1>7, <2>1 DEF SaveToken, TokenKnown
<1> QED
  BY <1>1, <1>2, <1>3, <1>4, <1>5, <1>6, <1>7 DEF TokenNext, HandleToken

(* What the template's requests do leaves the token's as they are, and the   *)
(* other way round.                                                          *)
LEMMA SavesApart ==
    ASSUME ConfigTypes, TemplateNext
    PROVE  /\ UNCHANGED tokens
           /\ \A r \in Accesses : \/ access'[r] = access[r]
                                  \/ access'[r].step \in {"off", "save"}
<1>0. access \in [Accesses -> Sound]
  BY DEF ConfigTypes
<1>1. ASSUME NEW r \in Accesses, HandleSave(r)
      PROVE  /\ \A q \in Accesses \ {r} : access'[q] = access[q]
             /\ access'[r].step \in {"off", "save"}
  BY <1>0, <1>1, OffSound DEF HandleSave, BeginSave, EndSave, EndAccess, Off
<1>2. ASSUME NEW i \in 1..Len(posted), Deliver(i)
      PROVE  access' = access
  BY <1>2 DEF Deliver
<1>3. UNCHANGED tokens
  BY DEF TemplateNext, HandleSave, BeginSave, EndSave, Deliver
<1> QED
  BY <1>1, <1>2, <1>3 DEF TemplateNext

LEMMA TokensApart ==
    ASSUME ConfigTypes, TokenNext
    PROVE  /\ UNCHANGED templates
           /\ \A r \in Accesses : \/ access'[r] = access[r]
                                  \/ "save" \notin {access[r].step, access'[r].step}
<1>0. access \in [Accesses -> Sound]
  BY DEF ConfigTypes
<1>1. UNCHANGED templates
  BY DEF TokenNext, HandleToken, BeginToken, ReadToken, WriteDefault, StoreToken,
         DeployAgent, LoadPage, SaveToken
<1>2. ASSUME NEW r \in Accesses, access[r].step # "save", NEW x, x.step # "save",
             access' = [access EXCEPT ![r] = x]
      PROVE  \A q \in Accesses : \/ access'[q] = access[q]
                                 \/ "save" \notin {access[q].step, access'[q].step}
  BY <1>0, <1>2
<1>3. ASSUME NEW r \in Accesses, access[r].step # "save", NEW x, x.step # "save",
             NEW v, access' = [Overtaken(v) EXCEPT ![r] = x]
      PROVE  \A q \in Accesses : \/ access'[q] = access[q]
                                 \/ "save" \notin {access[q].step, access'[q].step}
  <2>1. \A q \in Accesses \ {r} : access'[q] = Overtaken(v)[q]
    BY <1>0, <1>3, OvertakenSound
  <2>2. \A q \in Accesses : \/ Overtaken(v)[q] = access[q]
                            \/ "save" \notin {access[q].step, Overtaken(v)[q].step}
    BY <1>0, OvertakenSound DEF Overtaken, ReadSteps
  <2> QED
    BY <1>0, <1>3, <2>1, <2>2, OvertakenSound
<1>4. \A kind, t : \A q \in Sound : q.step # "save" => Got(kind, q, t).step # "save"
  BY OffSound DEF Got, Sound, Access
<1>5. ASSUME NEW r \in Accesses, HandleToken(r)
      PROVE  \A q \in Accesses : \/ access'[q] = access[q]
                                 \/ "save" \notin {access[q].step, access'[q].step}
  <2>1. ASSUME NEW kind \in {"heartbeat", "install"}, NEW a, BeginToken(r, kind, a)
        PROVE  access[r].step # "save" /\ \E x : /\ x.step # "save"
                                                 /\ access' = [access EXCEPT ![r] = x]
    BY <2>1, OffSound DEF BeginToken, Off
  <2>2. ASSUME NEW kind \in {"heartbeat", "install"}, ReadToken(r, kind)
        PROVE  access[r].step # "save" /\ \E x : /\ x.step # "save"
                                                 /\ access' = [access EXCEPT ![r] = x]
    <3>1. access[r].step = kind /\ access[r] \in Sound
      BY <1>0, <2>2 DEF ReadToken
    <3>2. CASE access' = [access EXCEPT ![r] = Got(kind, access[r], token)]
      BY <1>4, <3>1, <3>2
    <3>3. CASE access' = [access EXCEPT ![r].step = Defaulting[kind],
                                        ![r].blind = (token # Absent)]
      <4> DEFINE x == [access[r] EXCEPT !.step = Defaulting[kind],
                                        !.blind = (token # Absent)]
      <4>1. access' = [access EXCEPT ![r] = x] /\ x.step # "save"
        BY <1>0, <3>3, Defaults DEF Sound, Access
      <4> QED
        BY <3>1, <4>1
    <3> QED
      BY <2>2, <3>2, <3>3 DEF ReadToken
  <2>3. ASSUME NEW kind \in {"heartbeat", "install"}, WriteDefault(r, kind)
        PROVE  access[r].step # "save" /\ \E x : /\ x.step # "save"
                  /\ \/ access' = [access EXCEPT ![r] = x]
                     \/ access' = [Overtaken(NoToken) EXCEPT ![r] = x]
    <3> DEFINE x == Got(kind, access[r], NoToken)
    <3>1. access[r].step # "save" /\ access[r] \in Sound
      BY <1>0, <2>3, Defaults DEF WriteDefault
    <3>2. x.step # "save"
      BY <1>4, <3>1
    <3>3. \/ access' = [access EXCEPT ![r] = x]
          \/ access' = [Overtaken(NoToken) EXCEPT ![r] = x]
      BY <2>3 DEF WriteDefault
    <3> QED
      BY <3>1, <3>2, <3>3
  <2>4. ASSUME StoreToken(r)
        PROVE  access[r].step # "save" /\ \E x : /\ x.step # "save"
                  /\ \/ access' = [access EXCEPT ![r] = x]
                     \/ access' = [Overtaken(access[r].token) EXCEPT ![r] = x]
    <3> DEFINE d == [access[r] EXCEPT !.step = "deploy", !.blind = FALSE, !.overtaken = FALSE]
    <3>1. d.step # "save"
      BY <1>0 DEF Sound, Access
    <3> HIDE DEF d
    <3>2. \/ access' = [Overtaken(access[r].token) EXCEPT ![r] = d]
          \/ access' = [access EXCEPT ![r] = Off]
      BY <2>4 DEF StoreToken, EndAccess, d
    <3> QED
      BY <2>4, <3>1, <3>2, OffSound DEF StoreToken
  <2>5. ASSUME DeployAgent(r)
        PROVE  access[r].step # "save" /\ \E x : /\ x.step # "save"
                                                 /\ access' = [access EXCEPT ![r] = x]
    BY <2>5, OffSound DEF DeployAgent, EndAccess
  <2> QED
    BY <1>2, <1>3, <1>5, <2>1, <2>2, <2>3, <2>4, <2>5 DEF HandleToken
<1>6. CASE LoadPage
  BY <1>1, <1>6 DEF LoadPage
<1>7. ASSUME NEW t \in RealTokens, SaveToken(t)
      PROVE  \A q \in Accesses : \/ access'[q] = access[q]
                                 \/ "save" \notin {access[q].step, access'[q].step}
  BY <1>0, <1>7, OvertakenSound DEF SaveToken, Overtaken, ReadSteps
<1> QED
  BY <1>1, <1>5, <1>6, <1>7 DEF TokenNext

LEMMA TokenKnownStep ==
    ASSUME ConfigTypes, TokenKnown, [ConfigNext]_configVars
    PROVE  TokenKnown'
<1>1. ASSUME UNCHANGED tokens,
             \A r \in Accesses : access'[r] = access[r] \/ access'[r].step \in {"off", "save"}
      PROVE  TokenKnown'
  BY <1>1 DEF tokens, TokenKnown, AgentsKnown, Knows
<1>2. CASE UNCHANGED configVars
  BY <1>1, <1>2 DEF configVars
<1>3. CASE TokenNext
  BY <1>3, TokenStep
<1>4. CASE TemplateNext
  BY <1>1, <1>4, SavesApart
<1>5. CASE ConfigRestart
  BY <1>1, <1>5, OffSound DEF ConfigRestart
<1> QED
  BY <1>2, <1>3, <1>4, <1>5 DEF ConfigNext

(* The shared token (hosts.go:481) for any number of hosts and requests,     *)
(* whatever meets and whatever fails: an agent holds the token heartbeats    *)
(* are compared with, unless it has been overwritten by an administrator, or *)
(* by a request that could not know of it.                                   *)
THEOREM AgentsStayAccepted == ConfigSpec => []AgentsAccepted
<1>1. ConfigInit => TokenKnown
  BY OffKnows DEF ConfigInit, TokenKnown, AgentsKnown
<1>2. ConfigTypes /\ TokenKnown /\ [ConfigNext]_configVars => TokenKnown'
  BY TokenKnownStep
<1>3. TokenKnown => AgentsAccepted
  BY DEF TokenKnown, AgentsKnown, AgentsAccepted
<1> QED
  BY <1>1, <1>2, <1>3, ConfigTypesInit, ConfigTypesStep, PTL DEF ConfigSpec

-----------------------------------------------------------------------------
(* The notification template.                                                *)

Savers == {r \in Accesses : access[r].step = "save"}

(* As long as saves keep apart there is one save or one event under way, and *)
(* the event carries the template to the Notifier unless it has it already,  *)
(* or has started without it.                                                *)
TemplateKnown ==
    ~savesRaced =>
        /\ \A q, r \in Savers : q = r
        /\ Savers # {} => posted = <<>>
        /\ \A r \in Savers : access[r].old \in {template, Absent}
        /\ posted = <<>> => startBlind \/ sending = template
        /\ posted # <<>> => /\ Len(posted) = 1 /\ posted[1].new = template
                            /\ IsChanged(posted[1]) \/ startBlind \/ sending = template

LEMMA TemplateStep ==
    ASSUME ConfigTypes, TemplateKnown, ConfigNext
    PROVE  TemplateKnown'
<1> SUFFICES ASSUME ~savesRaced'
             PROVE  TemplateKnown'
  BY DEF TemplateKnown
<1> USE DEF Savers
<1>0. access \in [Accesses -> Sound] /\ posted \in Seq([old : Olds, new : Templates])
  BY DEF ConfigTypes, TemplateTypes
<1>1. CASE TokenNext
  BY <1>1, TokensApart DEF TemplateKnown, templates, IsChanged
<1>2. ASSUME NEW r \in Accesses, NEW t \in Templates, BeginSave(r, t)
      PROVE  TemplateKnown'
  <2>1. /\ ~savesRaced /\ posted = <<>> /\ Savers = {} /\ template' = template
        /\ posted' = posted /\ sending' = sending /\ startBlind' = startBlind
    BY <1>2 DEF BeginSave
  <2>2. /\ \A q \in Accesses \ {r} : access'[q] = access[q]
        /\ access'[r].old \in {template, Absent}
    BY <1>0, <1>2 DEF BeginSave, Off
  <2> QED
    BY <2>1, <2>2 DEF TemplateKnown
<1>3. ASSUME NEW r \in Accesses, EndSave(r)
      PROVE  TemplateKnown'
  <2>1. /\ ~savesRaced /\ posted = <<>> /\ sending' = sending /\ startBlind' = startBlind
        /\ startBlind \/ sending = template
        /\ access[r].old \in {template, Absent} /\ \A q \in Savers : q = r
    BY <1>3 DEF EndSave, TemplateKnown
  <2>2. Savers' = {}
    BY <1>0, <1>3, <2>1, OffSound DEF EndSave, EndAccess
  <2>3. CASE UNCHANGED <<template, posted>>
    BY <2>1, <2>2, <2>3 DEF TemplateKnown
  <2>4. CASE /\ template' = access[r].new
             /\ posted' = Append(posted, [old |-> access[r].old, new |-> access[r].new])
    <3>1. Len(posted') = 1 /\ posted'[1] = [old |-> access[r].old, new |-> access[r].new]
      BY <2>1, <2>4
    <3>2. access[r].new \in Templates
      BY <1>0 DEF Sound, Access
    <3>3. IsChanged(posted'[1]) \/ startBlind' \/ sending' = template'
      BY <2>1, <2>4, <3>1, <3>2, ConfigAssumption DEF IsChanged
    <3> QED
      BY <2>2, <2>4, <3>1, <3>3 DEF TemplateKnown, IsChanged
  <2> QED
    BY <1>3, <2>3, <2>4 DEF EndSave
<1>4. ASSUME NEW i \in 1..Len(posted), Deliver(i)
      PROVE  TemplateKnown'
  <2>1. /\ ~savesRaced /\ posted # <<>> /\ access' = access /\ template' = template
    BY <1>0, <1>4 DEF Deliver
  <2>2. /\ Len(posted) = 1 /\ Savers = {} /\ posted[1].new = template
        /\ IsChanged(posted[1]) \/ startBlind \/ sending = template
    BY <2>1 DEF TemplateKnown
  <2>3. i = 1
    BY <2>2
  <2>4. posted' = <<>>
    BY <1>0, <1>4, <2>2, <2>3 DEF Deliver, RemoveAt
  <2>5. startBlind' \/ sending' = template
    BY <1>4, <2>2, <2>3 DEF Deliver
  <2> QED
    BY <2>1, <2>2, <2>4, <2>5 DEF TemplateKnown
<1>5. CASE ConfigRestart
  <2>1. Savers' = {} /\ posted' = <<>> /\ startBlind' = (sending' # template')
    BY <1>5, OffSound DEF ConfigRestart
  <2> QED
    BY <2>1 DEF TemplateKnown
<1> QED
  BY <1>1, <1>2, <1>3, <1>4, <1>5 DEF ConfigNext, TemplateNext, HandleSave

(* The hot reload of the template (server.go:74) for any number of requests  *)
(* and templates, through failing statements and restarts, as long as no     *)
(* save begins before an earlier one has been delivered; a start that could  *)
(* not read the template is made good by the next change.                    *)
THEOREM TemplateReloaded == ConfigSpec => []TemplateCurrent
<1>1. ConfigInit => TemplateKnown
  BY OffSound DEF ConfigInit, TemplateKnown, Savers
<1>2. ConfigTypes /\ TemplateKnown /\ [ConfigNext]_configVars => TemplateKnown'
  <2>1. UNCHANGED configVars /\ TemplateKnown => TemplateKnown'
    BY DEF configVars, templates, TemplateKnown, Savers, IsChanged
  <2> QED
    BY <2>1, TemplateStep
<1>3. TemplateKnown => TemplateCurrent
  BY DEF TemplateKnown, TemplateCurrent
<1> QED
  BY <1>1, <1>2, <1>3, ConfigTypesInit, ConfigTypesStep, PTL DEF ConfigSpec
=============================================================================
