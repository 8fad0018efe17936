------------------------------ MODULE Admin_proofs -----------------------------
(* Theorems about the run that puts the administrator's parts side by side    *)
(* (MCAdmin), from those about each part.                                     *)
EXTENDS MCAdmin, HostCatalog_proofs, Config_proofs, Sessions_proofs,
        AgentLink_proofs

(* The run starts every part in one of its initial states, and moves one of  *)
(* them at a time, as the part itself moves: what is proved of a part holds  *)
(* of the run (the handlers of pools and hosts, settings, DDNS rules,        *)
(* accounts and heartbeats share no state).                                  *)
THEOREM AdminMoves ==
    MCSpec => Spec /\ ConfigSpec /\ RulesSpec /\ SessionsSpec /\ LinkSpec
<1>1. MCInit => Init /\ ConfigInit /\ RulesInit /\ SessionsInit /\ LinkInit
  BY DEF MCInit
<1> USE DEF MCNext, allVars, otherVars, CatalogPart, ConfigPart, RulesPart,
            SessionsPart, LinkPart
<1>2. [MCNext]_allVars => [Next]_vars
  OBVIOUS
<1>3. [MCNext]_allVars => [ConfigNext]_configVars
  BY DEF ConfigNext
<1>4. [MCNext]_allVars => [RulesNext]_rulesVars
  OBVIOUS
<1>5. [MCNext]_allVars => [SessionsNext]_sessionVars
  OBVIOUS
<1>6. [MCNext]_allVars => [LinkNext]_linkVars
  OBVIOUS
<1> QED
  BY <1>1, <1>2, <1>3, <1>4, <1>5, <1>6, PTL
     DEF MCSpec, Spec, ConfigSpec, RulesSpec, SessionsSpec, LinkSpec

(* The parts have their types, for any tables, requests, rules, sessions and *)
(* limits, and all of them, not only the one that moves.                     *)
THEOREM AdminTyped == MCSpec => []AdminTypeOK
<1>1. CatalogInv => TypeOK
  BY DEF CatalogInv, CatalogTyped, Booted, TypeOK, Host, HostName, Req
<1>2. SessionsInv => SessionsTypeOK
  BY DEF SessionsInv
<1>3. /\ CatalogInv /\ ConfigTypeOK /\ RulesTypeOK /\ SessionsInv /\ LinkTypeOK
      => AdminTypeOK
  BY <1>1, <1>2 DEF AdminTypeOK
<1> QED
  BY <1>3, AdminMoves, CatalogInvariant, ConfigTyped, MasksNeverStored,
     SessionsInvariant, LinkTyped, PTL
================================================================================
