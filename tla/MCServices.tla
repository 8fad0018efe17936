------------------------------ MODULE MCServices ------------------------------
(* One run for the parts that work on machines outside: Cloudflare's         *)
(* records, commands on hosts, and the installation of agents.  They share   *)
(* no state, so a behaviour is one of one of them, named by part.            *)
EXTENDS DdnsRecord, Executor, InstallTask

VARIABLE part

allVars == <<dnsVars, execVars, installVars, part>>

MCInit ==
    /\ DnsInit /\ ExecInit /\ InstallInit
    /\ part \in {"dns", "executor", "install"}

DnsPart     == part = "dns" /\ DnsNext
ExecPart    == part = "executor" /\ ExecNext
InstallPart == part = "install" /\ InstallNext

MCNext ==
    /\ UNCHANGED part
    /\ \/ DnsPart /\ UNCHANGED <<execVars, installVars>>
       \/ ExecPart /\ UNCHANGED <<dnsVars, installVars>>
       \/ InstallPart /\ UNCHANGED <<dnsVars, execVars>>

(* All variables have their types, whichever part moves, and the parts of a  *)
(* call stay in step (the strengthening Services_proofs proves inductive).   *)
ServicesTypeOK == DnsTypeOK /\ ExecTypeOK /\ PartsAgree /\ InstallTypeOK

MCSpec ==
    /\ MCInit /\ [][MCNext]_allVars
    /\ DnsFairness /\ ExecFairness /\ InstallFairness
===============================================================================
