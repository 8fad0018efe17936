------------------------------ MODULE DdnsRecord ------------------------------
(* The A records Cloudflare keeps for one name, and those who change them:   *)
(* DDNSUpdater.Update and UpdateWithGlobalKey (engine/ddns.go), called by    *)
(* the poller and by the handler that saves DDNS rules.  Each call of        *)
(* Cloudflare's API is a step.  It may fail before it has any effect, or     *)
(* take effect and lose its answer; one whose client has given up takes no   *)
(* effect later.                                                             *)
(* SyncRemoteScript (engine/ddns_remote.go) is not here: it changes no       *)
(* record.  The here-document at its line 51 has no end (the EOF of line 94  *)
(* is indented), so the script is written to the host and never run.         *)
EXTENDS Naturals, FiniteSets, Functions

CONSTANTS
    Updaters,       \* goroutines of the server that update the name
    Addresses, NoAddress,
    ddnsRetries,    \* attempts of one update
    RecordIds,      \* bound: ids of records that may come to exist
    MaxUpdates      \* bound: updates started, and records deleted by somebody
                    \* else, in all

ASSUME DdnsAssumption ==
    /\ NoAddress \notin Addresses
    /\ ddnsRetries \in Nat \ {0} /\ RecordIds \subseteq Nat \ {0} /\ MaxUpdates \in Nat

Existing == 0       \* id of a record that was there before

VARIABLES
    records,        \* [id -> [content, proxied]]
    caller,         \* where the update of each stands
    succeeded,      \* those whose last update returned nil
    raced,          \* observation: two were about to create at once
    count           \* how much of MaxUpdates is used

dnsVars == <<records, caller, succeeded, raced, count>>

Off == [pc |-> "off", ip |-> NoAddress, attempt |-> 0, id |-> Existing,
        proxied |-> FALSE]

Ids == RecordIds \cup {Existing}

(* Types; no update makes more than ddnsRetries attempts.                    *)
DnsTypeOK ==
    /\ DOMAIN records \subseteq Ids
    /\ records \in [DOMAIN records -> [content : Addresses, proxied : BOOLEAN]]
    /\ caller \in [Updaters -> [pc : {"off", "list", "create", "put"},
                               ip : Addresses \cup {NoAddress},
                               attempt : 0..ddnsRetries, id : Ids,
                               proxied : BOOLEAN]]
    /\ succeeded \in SUBSET Updaters
    /\ raced \in BOOLEAN /\ count \in 0..MaxUpdates

DnsInit ==
    /\ \/ records = <<>>
       \/ \E a \in Addresses :
             records = [i \in {Existing} |-> [content |-> a, proxied |-> TRUE]]
    /\ caller = [u \in Updaters |-> Off]
    /\ succeeded = {} /\ raced = FALSE /\ count = 0

Set(u, c) == caller' = [caller EXCEPT ![u] = c]

Start(u, a) ==
    /\ caller[u] = Off /\ count < MaxUpdates
    /\ Set(u, [Off EXCEPT !.pc = "list", !.ip = a, !.attempt = 1])
    /\ succeeded' = succeeded \ {u}
    /\ count' = count + 1
    /\ UNCHANGED <<records, raced>>

(* Mutated forms: the next attempt repeats the call that failed; attempts    *)
(* are not counted.                                                          *)
AgainSameCall(c) == [c EXCEPT !.attempt = @ + 1]
AgainUncounted(c) == [Off EXCEPT !.pc = "list", !.ip = c.ip, !.attempt = c.attempt]

(* The next attempt starts over with the listing.                            *)
Again(c) == [Off EXCEPT !.pc = "list", !.ip = c.ip, !.attempt = c.attempt + 1]

AttemptFails(u) ==
    /\ Set(u, IF caller[u].attempt < ddnsRetries THEN Again(caller[u]) ELSE Off)
    /\ UNCHANGED succeeded

AttemptSucceeds(u) == Set(u, Off) /\ succeeded' = succeeded \cup {u}

(* The first of the records listed is the one to be updated; without one it  *)
(* is created.                                                               *)
ListRecord(u) ==
    /\ caller[u].pc = "list"
    /\ \/ \E i \in DOMAIN records :
             Set(u, [caller[u] EXCEPT !.pc = "put", !.id = i,
                                      !.proxied = records[i].proxied])
       \/ /\ records = <<>>
          /\ Set(u, [caller[u] EXCEPT !.pc = "create"])
    /\ raced' = (raced \/ (/\ records = <<>>
                           /\ \E v \in Updaters \ {u} : caller[v].pc = "create"))
    /\ UNCHANGED <<records, succeeded, count>>

CallFails(u) ==
    /\ caller[u].pc # "off"
    /\ AttemptFails(u)
    /\ UNCHANGED <<records, raced, count>>

(* The call has taken effect; its answer arrives, or it does not.            *)
Answered(u) == AttemptSucceeds(u) \/ AttemptFails(u)

CreateRecord(u) ==
    /\ caller[u].pc = "create"
    /\ \E i \in RecordIds \ DOMAIN records :
          records' = [j \in DOMAIN records \cup {i} |->
             IF j = i THEN [content |-> caller[u].ip, proxied |-> FALSE]
                      ELSE records[j]]
    /\ Answered(u)
    /\ UNCHANGED <<raced, count>>

(* Mutated form: the address that was listed is sent back.                   *)
PutAddressListed(u) == records[caller[u].id].content

PutAddress(u) == caller[u].ip

(* The flag that was listed is sent back.                                    *)
PutRecord(u) ==
    /\ caller[u].pc = "put" /\ caller[u].id \in DOMAIN records
    /\ records' = [records EXCEPT ![caller[u].id] =
                      [content |-> PutAddress(u), proxied |-> caller[u].proxied]]
    /\ Answered(u)
    /\ UNCHANGED <<raced, count>>

(* Somebody deletes a record in Cloudflare's console.                        *)
DeleteRecord(i) ==
    /\ i \in DOMAIN records /\ count < MaxUpdates
    /\ records' = Restrict(records, DOMAIN records \ {i})
    /\ count' = count + 1
    /\ UNCHANGED <<caller, succeeded, raced>>

-----------------------------------------------------------------------------
Call(u) == ListRecord(u) \/ CallFails(u) \/ CreateRecord(u) \/ PutRecord(u)

DnsNext ==
    \/ \E u \in Updaters : (\E a \in Addresses : Start(u, a)) \/ Call(u)
    \/ \E i \in Ids : DeleteRecord(i)

DnsSpec == DnsInit /\ [][DnsNext]_dnsVars

(* Every call of an update has a time limit (ddnsTimeout) and every pause an *)
(* end.                                                                      *)
DnsFairness == \A u \in Updaters : WF_dnsVars(Call(u))

-----------------------------------------------------------------------------
(* Updates change the address of the name's A record and nothing else.  It   *)
(* stays the only one, however often an update is tried and whichever        *)
(* answers are lost, unless two updates were about to create it at the same  *)
(* time (each attempt lists the records before it creates one); and its      *)
(* proxied flag stays as it was (ddns.go:92, the flag listed is sent back).  *)
RecordIntact ==
    /\ ~raced => Cardinality(DOMAIN records) <= 1
    /\ \A i \in DOMAIN records : records[i].proxied = (i = Existing)

(* The name resolves to nothing but what it resolved to before and the       *)
(* addresses of updates under way, and an update that reports success has    *)
(* just written its own.                                                     *)
Promise == INSTANCE DnsAddresses
              WITH addresses <- {records[i].content : i \in DOMAIN records},
                   target    <- [u \in Updaters |-> caller[u].ip]

AddressesPromised == Promise!Spec

(* Every update comes to an end, with an error if need be: what PollCycle    *)
(* takes for granted of EndApply and of UpdateDns.                           *)
UpdateEnds == \A u \in Updaters : caller[u].pc # "off" ~> caller[u].pc = "off"
=============================================================================
