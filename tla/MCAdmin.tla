-------------------------------- MODULE MCAdmin --------------------------------
(* One run for the parts the administrator works on: pools and hosts, the    *)
(* agents' token, the notification template, the DDNS rules, accounts, and   *)
(* the link to one host's agent.  They share no state (token and template    *)
(* only the slots for requests), so a behaviour is one of one of them, named *)
(* by part.  The priority zero stands for a request that leaves it out.      *)
EXTENDS HostCatalog, ConfigStore, DdnsRules, Sessions, AgentLink, TLC

VARIABLE part

otherVars == <<configVars, rulesVars, sessionVars, linkVars>>
allVars   == <<vars, otherVars, part>>

(* Requests under way are interchangeable.                                   *)
MCSymmetry == Permutations(Requests) \cup Permutations(Accesses)

MCInit ==
    /\ part \in {"catalog", "token", "template", "rules", "sessions", "link"}
    /\ Init /\ ConfigInit /\ RulesInit /\ SessionsInit /\ LinkInit
    /\ part # "token" => token = Absent
    /\ part # "rules" => rules = <<>>
    /\ part # "sessions" => password = CHOOSE p \in Passwords : TRUE

CatalogPart  == part = "catalog" /\ Next
ConfigPart   ==
    \/ part = "token" /\ (TokenNext \/ ConfigRestart)
    \/ part = "template" /\ (TemplateNext \/ ConfigRestart)
RulesPart    == part = "rules" /\ RulesNext
SessionsPart == part = "sessions" /\ SessionsNext
LinkPart     == part = "link" /\ LinkNext

MCNext ==
    /\ UNCHANGED part
    /\ \/ CatalogPart /\ UNCHANGED otherVars
       \/ ConfigPart /\ UNCHANGED <<vars, rulesVars, sessionVars, linkVars>>
       \/ RulesPart /\ UNCHANGED <<vars, configVars, sessionVars, linkVars>>
       \/ SessionsPart /\ UNCHANGED <<vars, configVars, rulesVars, linkVars>>
       \/ LinkPart /\ UNCHANGED <<vars, configVars, rulesVars, sessionVars>>

(* The variables of the part that moves have their types.                    *)
AdminTypeOK ==
    /\ part = "catalog" => TypeOK
    /\ part \in {"token", "template"} => ConfigTypeOK
    /\ part = "rules" => RulesTypeOK
    /\ part = "sessions" => SessionsTypeOK
    /\ part = "link" => LinkTypeOK

MCSpec == MCInit /\ [][MCNext]_allVars
================================================================================
