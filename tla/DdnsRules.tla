------------------------------- MODULE DdnsRules -------------------------------
(* The DDNS rules of the settings page: GetConfig masks their secrets, the   *)
(* page sends the rows back with the masks in them, and UpdateConfig         *)
(* (api/config.go) puts the stored secrets back in, stores the rules and     *)
(* applies them.  Two tabs may do so at the same time.  Values typed by      *)
(* hand are longer than four characters and hold no asterisk.  Left out: the *)
(* fields that are never masked (e-mail, zone name, zone id, enabled) and    *)
(* the row the page makes up from the settings of an earlier version.        *)
EXTENDS Naturals, Sequences

CONSTANTS
    Tabs,               \* settings pages that are open
    RulePools,          \* names of pools, trimmed
    LegacyPool,         \* the pool "default"
    RecordNames,
    ApiKeys,            \* Cloudflare keys and tokens
    OldToken,           \* the token of an earlier version's settings
    MaxRules,           \* bound: rows of the page
    MaxRuleSaves,       \* bound: saves
    ReadsFail           \* a statement may fail

ASSUME RulesAssumption ==
    /\ LegacyPool \in RulePools /\ OldToken \notin ApiKeys
    /\ {"blank", "masked"} \cap (ApiKeys \cup {OldToken} \cup RecordNames) = {}
    /\ MaxRules \in Nat \ {0} /\ MaxRuleSaves \in Nat /\ ReadsFail \in BOOLEAN

Blank == "blank"        \* a field that is empty
Mask  == "masked"       \* one that holds asterisks

VARIABLES
    rules,              \* row ddns_pool_rules
    form,               \* [tab -> the rows it shows]
    saving,             \* the request each tab is waiting for
    ruleSaves

rulesVars == <<rules, form, saving, ruleSaves>>

Secrets == ApiKeys \cup {OldToken}
Typed   == ApiKeys \cup {Blank, Mask}

RowsWith(keys, tokens) ==
    [pool : RulePools, name : RecordNames \cup {Blank},
     key : keys, token : tokens]

Stored == RowsWith(Secrets \cup {Blank}, Secrets \cup {Blank})

IsList(s, S) == s \in Seq(S) /\ Len(s) <= MaxRules

(* blind: the request could not read the rules that are stored.  stale:      *)
(* another has written them since it read them.  Both are observations.      *)
NotSaving == [step |-> "none", rows |-> <<>>, result |-> <<>>,
              blind |-> FALSE, stale |-> FALSE]

(* Types; a mask is never stored in place of the secret behind it, and no    *)
(* secret ever leaves for a page.                                            *)
RulesTypeOK ==
    /\ IsList(rules, Stored)
    /\ form \in [Tabs -> Seq(RowsWith(Typed, {Blank, Mask}))]
    /\ saving \in [Tabs -> [step : {"none", "normalize", "store", "apply"},
                             rows : Seq(RowsWith(Typed, {Blank})),
                             result : Seq(Stored),
                             blind : BOOLEAN, stale : BOOLEAN]]
    /\ \A t \in Tabs : \A list \in {form[t], saving[t].rows, saving[t].result} :
          Len(list) <= MaxRules
    /\ ruleSaves \in 0..MaxRuleSaves

Rule(p, n, k, t) == [pool |-> p, name |-> n, key |-> k, token |-> t]

(* No rules yet, or what an earlier version has left: a rule with a token.   *)
RulesInit ==
    /\ \/ rules = <<>>
       \/ \E n \in RecordNames : rules = <<Rule(LegacyPool, n, Blank, OldToken)>>
    /\ form = [t \in Tabs |-> <<>>]
    /\ saving = [t \in Tabs |-> NotSaving]
    /\ ruleSaves = 0

-----------------------------------------------------------------------------
(* GetConfig and the page.                                                   *)

Masked(v) == IF v = Blank THEN Blank ELSE Mask

Shown(list) == [i \in DOMAIN list |-> [list[i] EXCEPT !.key = Masked(@), !.token = Masked(@)]]

(* initDDNSRules; when the answer does not come the page shows no rules.     *)
LoadRules(t) ==
    /\ saving[t].step = "none"
    /\ \/ form' = [form EXCEPT ![t] = Shown(rules)]
       \/ ReadsFail /\ form' = [form EXCEPT ![t] = <<>>]
    /\ UNCHANGED <<rules, saving, ruleSaves>>

(* The administrator changes one thing at most.                              *)
Edited(list) ==
    {list}
    \cup {[list EXCEPT ![i].key = k] : i \in DOMAIN list, k \in ApiKeys}
    \cup {[list EXCEPT ![i].pool = p] : i \in DOMAIN list, p \in RulePools}
    \cup {[list EXCEPT ![i].name = n] : i \in DOMAIN list, n \in RecordNames \cup {Blank}}
    \cup (IF Len(list) > 0 THEN {Tail(list)} ELSE {})
    \cup (IF Len(list) < MaxRules
             THEN {Append(list, Rule(p, n, k, Blank)) :
                      p \in RulePools, n \in RecordNames, k \in ApiKeys}
             ELSE {})

(* collectDDNSRulesFromForm: the page has no input for the token and sends   *)
(* it empty.                                                                 *)
Collected(list) == [i \in DOMAIN list |-> [list[i] EXCEPT !.token = Blank]]

SaveRules(t) ==
    /\ saving[t].step = "none" /\ ruleSaves < MaxRuleSaves
    /\ \E list \in Edited(form[t]) :
          saving' = [saving EXCEPT ![t] =
                        [NotSaving EXCEPT !.step = "normalize", !.rows = Collected(list)]]
    /\ ruleSaves' = ruleSaves + 1
    /\ UNCHANGED <<rules, form>>

-----------------------------------------------------------------------------
(* normalizeDDNSRules.                                                       *)

(* The rule stored for a pool; of several, the last.                         *)
Existing(list, p) ==
    LET at == {i \in DOMAIN list : list[i].pool = p}
    IN  IF at = {} THEN Rule(p, Blank, Blank, Blank)
        ELSE list[CHOOSE i \in at : \A j \in at : j <= i]

(* Mutated form: a mask is taken for a secret.                               *)
UnmaskedBlank(v, secret) == IF v = Blank THEN secret ELSE v

Unmasked(v, secret) == IF v \in {Blank, Mask} THEN secret ELSE v

(* Mutated form: stored rules are matched by their place in the list.        *)
NormalizedByPlace(rows, list) ==
    [i \in DOMAIN rows |->
        [rows[i] EXCEPT
            !.key = Unmasked(@, IF i \in DOMAIN list THEN list[i].key ELSE Blank),
            !.token = Unmasked(@, IF i \in DOMAIN list THEN list[i].token ELSE Blank)]]

Normalized(rows, list) ==
    [i \in DOMAIN rows |->
        [rows[i] EXCEPT !.key = Unmasked(@, Existing(list, rows[i].pool).key),
                        !.token = Unmasked(@, Existing(list, rows[i].pool).token)]]

(* Mutated form: pools are compared, domains are not.                        *)
DistinctPools(rows) ==
    \A i, j \in DOMAIN rows : i # j => rows[i].pool # rows[j].pool

Distinct(rows) ==
    \A i, j \in DOMAIN rows : i # j =>
        /\ rows[i].pool # rows[j].pool
        /\ rows[i].name # rows[j].name \/ rows[i].name = Blank

-----------------------------------------------------------------------------
(* Whoever has read the rules and not yet stored them is late once another   *)
(* has written them.                                                         *)
LateSaves ==
    [t \in Tabs |-> IF saving[t].step = "store"
                    THEN [saving[t] EXCEPT !.stale = TRUE] ELSE saving[t]]

(* GetAs: a read that fails gives the empty default, which is stored as      *)
(* well, unless that fails too.  Either way the callers go on.               *)
DefaultReturned ==
    /\ ReadsFail
    /\ \/ UNCHANGED rules
       \/ rules' = <<>>

(* Tab t gets list for the rules, and its request becomes next.              *)
ReadRules(t, list, next) ==
    /\ \/ list = rules /\ UNCHANGED rules
       \/ list = <<>> /\ DefaultReturned
    /\ saving' = [IF rules' = rules THEN saving ELSE LateSaves EXCEPT ![t] = next]

(* The read comes before the checks, which may refuse the rows.              *)
NormalizeRules(t) ==
    /\ saving[t].step = "normalize"
    /\ \E list \in {rules, <<>>} :
          LET rows == saving[t].rows
              next == [saving[t] EXCEPT !.step = "store", !.blind = list # rules,
                                        !.result = Normalized(rows, list)]
          IN  ReadRules(t, list, IF Distinct(rows) THEN next ELSE NotSaving)
    /\ UNCHANGED <<form, ruleSaves>>

(* SetMany.                                                                  *)
StoreRules(t) ==
    /\ saving[t].step = "store"
    /\ rules' = saving[t].result
    /\ saving' = [LateSaves EXCEPT ![t] = [saving[t] EXCEPT !.step = "apply"]]
    /\ UNCHANGED <<form, ruleSaves>>

StoreRulesFails(t) ==
    /\ ReadsFail /\ saving[t].step = "store"
    /\ saving' = [saving EXCEPT ![t] = NotSaving]
    /\ UNCHANGED <<rules, form, ruleSaves>>

(* The rules are normalized again before they are applied: another read.     *)
ApplyRules(t) ==
    /\ saving[t].step = "apply"
    /\ \E list \in {rules, <<>>} : ReadRules(t, list, NotSaving)
    /\ UNCHANGED <<form, ruleSaves>>

(* The poller and GetConfig read the rules with GetAs as well.               *)
RulesReadFails ==
    /\ DefaultReturned /\ rules' # rules /\ saving' = LateSaves
    /\ UNCHANGED <<form, ruleSaves>>

RulesNext ==
    \/ \E t \in Tabs :
          \/ LoadRules(t) \/ SaveRules(t) \/ NormalizeRules(t)
          \/ StoreRules(t) \/ StoreRulesFails(t) \/ ApplyRules(t)
    \/ RulesReadFails

RulesSpec == RulesInit /\ [][RulesNext]_rulesVars

-----------------------------------------------------------------------------
(* No two rules are for one pool, and no two for one name (config.go:194,    *)
(* "one pool can only map to one domain"), whichever saves and failed reads  *)
(* came in between.                                                          *)
RulesDistinct ==
    \A i, j \in DOMAIN rules :
        \/ rules[i].pool = rules[j].pool
        \/ rules[i].name = rules[j].name /\ rules[i].name # Blank
        => i = j

(* A save gives a pool the key typed into its row, or leaves it the one that *)
(* is stored, and never touches a token: neither a mask nor a page loaded    *)
(* long ago brings back an old secret, or another pool's.  A save that could *)
(* not read the rules leaves what was not typed empty; one that another      *)
(* write overtook between its read and its own write is the exception.       *)
SecretsSurvive ==
    [][\A t \in Tabs :
          saving[t].step = "store" /\ ~saving[t].stale /\ saving'[t].step = "apply"
          => \A i \in DOMAIN saving[t].rows :
                LET row == saving[t].rows[i]
                    old == Existing(IF saving[t].blind THEN <<>> ELSE rules, row.pool)
                    new == Existing(rules', row.pool)
                IN  /\ new.key = IF row.key \in ApiKeys THEN row.key ELSE old.key
                    /\ new.token = old.token]_rulesVars
================================================================================
