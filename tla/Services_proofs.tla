---------------------------- MODULE Services_proofs ----------------------------
(* Theorems about the parts that work on machines outside: the records at     *)
(* Cloudflare (DdnsRecord), commands on hosts (Executor), the installation of *)
(* agents (InstallTask), and the run that puts them side by side (MCServices). *)
EXTENDS MCServices, FiniteSetTheorems, SequenceTheorems, TLAPS

-----------------------------------------------------------------------------
(* DdnsRecord, for any number of updaters, attempts and addresses.            *)

State == [pc : {"off", "list", "create", "put"}, ip : Addresses \cup {NoAddress},
          attempt : 0..ddnsRetries, id : Ids, proxied : BOOLEAN]

Row == [content : Addresses, proxied : BOOLEAN]

(* Types, as DnsTypeOK has them; a call under way is for an address.         *)
DnsTyped ==
    /\ DOMAIN records \subseteq Ids /\ records \in [DOMAIN records -> Row]
    /\ caller \in [Updaters -> State]
    /\ \A u \in Updaters : caller[u].pc # "off" => caller[u].ip \in Addresses
    /\ succeeded \in SUBSET Updaters
    /\ raced \in BOOLEAN /\ count \in 0..MaxUpdates

(* Without a race whoever is about to create a record is alone, and there is *)
(* none yet.                                                                 *)
Alone ==
    ~raced =>
        /\ \A i, j \in DOMAIN records : i = j
        /\ \A u \in Updaters : caller[u].pc = "create" =>
              /\ DOMAIN records = {}
              /\ \A v \in Updaters : caller[v].pc = "create" => v = u

(* Every record has its flag, and so has every update that is about to send  *)
(* it back.                                                                  *)
Flags ==
    /\ \A i \in DOMAIN records : records[i].proxied = (i = Existing)
    /\ \A u \in Updaters : caller[u].pc = "put" =>
          caller[u].proxied = (caller[u].id = Existing)

DnsInv == DnsTyped /\ Alone /\ Flags

-----------------------------------------------------------------------------
LEMMA OffState == Off \in State
BY DdnsAssumption DEF Off, State, Ids, Existing

AtList(a, n) == [Off EXCEPT !.pc = "list", !.ip = a, !.attempt = n]

LEMMA Listing ==
    ASSUME NEW a \in Addresses, NEW n \in 0..ddnsRetries
    PROVE  /\ AtList(a, n) \in State
           /\ AtList(a, n).pc = "list" /\ AtList(a, n).ip = a /\ AtList(a, n).attempt = n
<1>1. Existing \in Ids
  BY DEF Ids
<1> QED
  BY <1>1 DEF Off, State, AtList

LEMMA EmptyRecords ==
    DOMAIN <<>> = {} /\ <<>> \in [DOMAIN <<>> -> Row]
OBVIOUS

LEMMA DnsInvInit == DnsInit => DnsInv
<1> SUFFICES ASSUME DnsInit PROVE DnsInv
  OBVIOUS
<1>1. /\ DOMAIN records \subseteq {Existing} /\ records \in [DOMAIN records -> Row]
      /\ \A i \in DOMAIN records : records[i].proxied = TRUE
  <2>1. CASE records = <<>>
    BY <2>1, EmptyRecords
  <2>2. ASSUME NEW a \in Addresses,
               records = [i \in {Existing} |-> [content |-> a, proxied |-> TRUE]]
        PROVE  /\ DOMAIN records = {Existing} /\ records \in [DOMAIN records -> Row]
               /\ \A i \in DOMAIN records : records[i].proxied = TRUE
    BY <2>2 DEF Row
  <2> QED
    BY <2>1, <2>2 DEF DnsInit
<1>2. /\ caller \in [Updaters -> State]
      /\ \A u \in Updaters : caller[u].pc = "off" /\ caller[u].attempt = 0
  BY OffState DEF DnsInit, Off
<1>3. DnsTyped
  <2>1. succeeded = {} /\ raced = FALSE /\ count = 0
        /\ 0 \in 0..MaxUpdates
    BY DdnsAssumption DEF DnsInit
  <2>2. DOMAIN records \subseteq Ids
    BY <1>1 DEF Ids
  <2> QED
    BY <1>1, <1>2, <2>1, <2>2 DEF DnsTyped
<1>4. Alone /\ Flags
  BY <1>1, <1>2 DEF Alone, Flags
<1> QED
  BY <1>3, <1>4 DEF DnsInv

(* One update goes on.                                                       *)
LEMMA SetTyped ==
    ASSUME DnsTyped, NEW u \in Updaters, NEW c \in State, Set(u, c),
           c.pc # "off" => c.ip \in Addresses
    PROVE  /\ caller' \in [Updaters -> State]
           /\ caller'[u] = c /\ \A v \in Updaters \ {u} : caller'[v] = caller[v]
           /\ \A v \in Updaters : caller'[v].pc # "off" => caller'[v].ip \in Addresses
BY DEF DnsTyped, Set

(* What becomes of a caller when an attempt fails, or the update is done.    *)
LEMMA AttemptEnds ==
    ASSUME DnsTyped, NEW u \in Updaters, caller[u].pc # "off",
           AttemptFails(u) \/ AttemptSucceeds(u)
    PROVE  /\ caller' \in [Updaters -> State]
           /\ caller'[u].pc \in {"off", "list"}
           /\ \A v \in Updaters \ {u} : caller'[v] = caller[v]
           /\ \A v \in Updaters : caller'[v].pc # "off" => caller'[v].ip \in Addresses
           /\ succeeded' \in SUBSET Updaters
           /\ \/ caller'[u].ip = caller[u].ip /\ UNCHANGED succeeded
              \/ caller'[u].ip = NoAddress /\ succeeded' \in {succeeded, succeeded \cup {u}}
<1> DEFINE again == Again(caller[u])
<1>1. caller[u] \in State /\ caller[u].ip \in Addresses
  BY DEF DnsTyped
<1>2. CASE Set(u, Off)
  <2>1. Off.pc = "off" /\ Off.attempt = 0 /\ Off.ip = NoAddress
    BY DEF Off
  <2>2. succeeded' \in {succeeded, succeeded \cup {u}}
    BY DEF AttemptFails, AttemptSucceeds
  <2> QED
    BY <1>2, <2>1, <2>2, SetTyped, OffState DEF DnsTyped
<1>3. CASE /\ Set(u, again) /\ UNCHANGED succeeded
           /\ caller[u].attempt < ddnsRetries
  <2>1. caller[u].attempt \in Nat /\ ddnsRetries \in Nat
        /\ caller[u].attempt + 1 <= ddnsRetries
    BY <1>1, <1>3, DdnsAssumption DEF State
  <2>2. again \in State /\ again.pc = "list" /\ again.ip = caller[u].ip
        /\ again.attempt = caller[u].attempt + 1
    <3>1. caller[u].attempt + 1 \in 0..ddnsRetries
      BY <1>3, <1>1, DdnsAssumption DEF State
    <3>2. again = AtList(caller[u].ip, caller[u].attempt + 1)
      BY DEF Again, AtList
    <3> QED
      BY <1>1, <3>1, <3>2, Listing
  <2> HIDE DEF again
  <2> QED
    BY <1>1, <1>3, <2>2, SetTyped DEF DnsTyped
<1> QED
  BY <1>2, <1>3 DEF AttemptFails, AttemptSucceeds

-----------------------------------------------------------------------------
LEMMA StartInv ==
    ASSUME DnsInv, NEW u \in Updaters, NEW a \in Addresses, Start(u, a)
    PROVE  DnsInv'
<1> DEFINE c == [Off EXCEPT !.pc = "list", !.ip = a, !.attempt = 1]
<1>1. c \in State /\ c.pc = "list" /\ c.attempt = 1 /\ c.ip = a
  <2>1. 1 \in 0..ddnsRetries
    BY DdnsAssumption
  <2>2. c = AtList(a, 1)
    BY DEF AtList
  <2> QED
    BY <2>1, <2>2, Listing
<1> HIDE DEF c
<1>2. Set(u, c)
  BY DEF Start, c
<1>3. /\ caller' \in [Updaters -> State]
      /\ caller'[u] = c /\ \A v \in Updaters \ {u} : caller'[v] = caller[v]
      /\ \A v \in Updaters : caller'[v].pc # "off" => caller'[v].ip \in Addresses
  BY <1>1, <1>2, SetTyped DEF DnsInv
<1>4. DnsTyped'
  BY <1>3, DdnsAssumption DEF DnsInv, DnsTyped, Start
<1>5. Alone' /\ Flags'
  BY <1>1, <1>3 DEF DnsInv, Alone, Flags, Start
<1> QED
  BY <1>4, <1>5 DEF DnsInv

LEMMA ListInv ==
    ASSUME DnsInv, NEW u \in Updaters, ListRecord(u)
    PROVE  DnsInv'
<1>1. caller[u] \in State /\ caller[u].ip \in Addresses /\ caller[u].pc = "list"
  BY DEF DnsInv, DnsTyped, ListRecord
<1>2. raced' \in BOOLEAN /\ (~raced' => ~raced)
  BY DEF DnsInv, DnsTyped, ListRecord
<1>3. ASSUME NEW i \in DOMAIN records,
             Set(u, [caller[u] EXCEPT !.pc = "put", !.id = i, !.proxied = records[i].proxied])
      PROVE  DnsInv'
  <2> DEFINE c == [caller[u] EXCEPT !.pc = "put", !.id = i, !.proxied = records[i].proxied]
  <2>1. records[i].proxied \in BOOLEAN /\ i \in Ids
    BY DEF DnsInv, DnsTyped, Row
  <2>2. /\ c \in State /\ c.pc = "put" /\ c.id = i /\ c.proxied = records[i].proxied
        /\ c.ip = caller[u].ip /\ c.attempt = caller[u].attempt
    BY <1>1, <2>1 DEF State
  <2> HIDE DEF c
  <2>3. Set(u, c)
    BY <1>3 DEF c
  <2>4. /\ caller' \in [Updaters -> State]
        /\ caller'[u] = c /\ \A v \in Updaters \ {u} : caller'[v] = caller[v]
        /\ \A v \in Updaters : caller'[v].pc # "off" => caller'[v].ip \in Addresses
    BY <1>1, <2>2, <2>3, SetTyped DEF DnsInv, DnsTyped
  <2>5. DnsTyped'
    BY <1>2, <2>4 DEF DnsInv, DnsTyped, ListRecord
  <2>6. Alone'
    BY <1>2, <2>2, <2>4 DEF DnsInv, Alone, ListRecord
  <2>7. Flags'
    <3>1. UNCHANGED records
      BY DEF ListRecord
    <3>2. c.proxied = (c.id = Existing)
      BY <2>2 DEF DnsInv, Flags
    <3>3. ASSUME NEW v \in Updaters, caller'[v].pc = "put"
          PROVE  caller'[v].proxied = (caller'[v].id = Existing)
      <4>1. CASE v = u
        BY <2>4, <3>1, <3>2, <3>3, <4>1
      <4>2. CASE v # u
        BY <2>4, <3>1, <3>3, <4>2 DEF DnsInv, Flags
      <4> QED
        BY <4>1, <4>2
    <3> QED
      BY <3>1, <3>3 DEF DnsInv, Flags
  <2> QED
    BY <2>5, <2>6, <2>7 DEF DnsInv
<1>4. ASSUME records = <<>>, Set(u, [caller[u] EXCEPT !.pc = "create"])
      PROVE  DnsInv'
  <2> DEFINE c == [caller[u] EXCEPT !.pc = "create"]
  <2>1. c \in State /\ c.pc = "create" /\ c.ip = caller[u].ip
    BY <1>1 DEF State
  <2> HIDE DEF c
  <2>2. Set(u, c)
    BY <1>4 DEF c
  <2>3. /\ caller' \in [Updaters -> State]
        /\ caller'[u] = c /\ \A v \in Updaters \ {u} : caller'[v] = caller[v]
        /\ \A v \in Updaters : caller'[v].pc # "off" => caller'[v].ip \in Addresses
    BY <1>1, <2>1, <2>2, SetTyped DEF DnsInv
  <2>4. DnsTyped'
    BY <1>2, <2>3 DEF DnsInv, DnsTyped, ListRecord
  <2>5. DOMAIN records = {}
    BY <1>4, EmptyRecords
  <2>6. ~raced' => \A v \in Updaters \ {u} : caller[v].pc # "create"
    BY <1>4 DEF ListRecord
  <2>7. Alone' /\ Flags'
    BY <1>2, <2>1, <2>3, <2>5, <2>6 DEF DnsInv, Alone, Flags, ListRecord
  <2> QED
    BY <2>4, <2>7 DEF DnsInv
<1> QED
  BY <1>3, <1>4 DEF ListRecord

(* What is common to the calls that end an attempt.                          *)
LEMMA CallEnds ==
    ASSUME DnsInv, NEW u \in Updaters, caller[u].pc # "off",
           AttemptFails(u) \/ AttemptSucceeds(u), UNCHANGED <<raced, count>>,
           DOMAIN records' \subseteq Ids, records' \in [DOMAIN records' -> Row],
           ~raced => \A i, j \in DOMAIN records' : i = j,
           ~raced => (\A v \in Updaters : caller[v].pc = "create" => v = u) \/
                     DOMAIN records' = {},
           \A i \in DOMAIN records' : records'[i].proxied = (i = Existing)
    PROVE  DnsInv'
<1>1. /\ caller' \in [Updaters -> State]
      /\ caller'[u].pc \in {"off", "list"}
      /\ \A v \in Updaters \ {u} : caller'[v] = caller[v]
      /\ \A v \in Updaters : caller'[v].pc # "off" => caller'[v].ip \in Addresses
      /\ succeeded' \in SUBSET Updaters
  BY AttemptEnds DEF DnsInv
<1>2. DnsTyped'
  BY <1>1 DEF DnsInv, DnsTyped
<1>3. Alone'
  BY <1>1 DEF DnsInv, Alone
<1>4. Flags'
  BY <1>1 DEF DnsInv, Flags
<1> QED
  BY <1>2, <1>3, <1>4 DEF DnsInv

(* The record that is created is the only one, unless two were racing.       *)
LEMMA CreateInv ==
    ASSUME DnsInv, NEW u \in Updaters, CreateRecord(u)
    PROVE  DnsInv'
<1>1. PICK i \in RecordIds \ DOMAIN records :
         records' = [j \in DOMAIN records \cup {i} |->
            IF j = i THEN [content |-> caller[u].ip, proxied |-> FALSE] ELSE records[j]]
  BY DEF CreateRecord
<1>2. caller[u].pc = "create" /\ caller[u].ip \in Addresses
  BY DEF CreateRecord, DnsInv, DnsTyped
<1>3. i \in Ids /\ i # Existing
  BY DdnsAssumption DEF Ids, Existing
<1>4. DOMAIN records' = DOMAIN records \cup {i}
      /\ records'[i] = [content |-> caller[u].ip, proxied |-> FALSE]
      /\ \A j \in DOMAIN records : records'[j] = records[j]
  BY <1>1
<1>5. [content |-> caller[u].ip, proxied |-> FALSE] \in Row
  BY <1>2 DEF Row
<1>6. \A j \in DOMAIN records' : records'[j] \in Row
  BY <1>4, <1>5 DEF DnsInv, DnsTyped
<1>7. DOMAIN records' \subseteq Ids /\ records' \in [DOMAIN records' -> Row]
  BY <1>1, <1>3, <1>4, <1>6 DEF DnsInv, DnsTyped
<1>8. ~raced => DOMAIN records = {} /\ \A v \in Updaters : caller[v].pc = "create" => v = u
  BY <1>2 DEF DnsInv, Alone
<1>9. records'[i].proxied = FALSE
  BY <1>4
<1>10. \A j \in DOMAIN records' : records'[j].proxied = (j = Existing)
  BY <1>3, <1>4, <1>9 DEF DnsInv, Flags
<1>11. /\ AttemptFails(u) \/ AttemptSucceeds(u)
       /\ UNCHANGED <<raced, count>>
  BY DEF CreateRecord, Answered
<1>12. ~raced => \A j, k \in DOMAIN records' : j = k
  BY <1>4, <1>8
<1> QED
  BY <1>2, <1>7, <1>8, <1>10, <1>11, <1>12, CallEnds

(* The record that is updated keeps its flag.                                *)
LEMMA PutInv ==
    ASSUME DnsInv, NEW u \in Updaters, PutRecord(u)
    PROVE  DnsInv'
<1> DEFINE i == caller[u].id
           row == [content |-> PutAddress(u), proxied |-> caller[u].proxied]
<1>1. caller[u] \in State /\ caller[u].pc = "put" /\ caller[u].ip \in Addresses
      /\ i \in DOMAIN records
  BY DEF PutRecord, DnsInv, DnsTyped
<1>2. row \in Row /\ row.proxied = (i = Existing)
  BY <1>1 DEF PutAddress, Row, State, DnsInv, Flags
<1>3. records' = [records EXCEPT ![i] = row]
  BY DEF PutRecord
<1> HIDE DEF row
<1>4. records' \in [DOMAIN records' -> Row] /\ DOMAIN records' = DOMAIN records
      /\ records'[i] = row /\ \A j \in DOMAIN records \ {i} : records'[j] = records[j]
  BY <1>1, <1>2, <1>3 DEF DnsInv, DnsTyped
<1>5. /\ AttemptFails(u) \/ AttemptSucceeds(u)
      /\ UNCHANGED <<raced, count>>
  BY DEF PutRecord, Answered
<1>6. \A j \in DOMAIN records' : records'[j].proxied = (j = Existing)
  BY <1>2, <1>4 DEF DnsInv, Flags
<1>7. ~raced => \A j, k \in DOMAIN records' : j = k
  BY <1>4 DEF DnsInv, Alone
<1>8. ~raced => \A v \in Updaters : caller[v].pc = "create" => v = u
  BY <1>1 DEF DnsInv, Alone
<1>9. DOMAIN records' \subseteq Ids
  BY <1>4 DEF DnsInv, DnsTyped
<1> QED
  BY <1>1, <1>4, <1>5, <1>6, <1>7, <1>8, <1>9, CallEnds

LEMMA FailsInv ==
    ASSUME DnsInv, NEW u \in Updaters, CallFails(u)
    PROVE  DnsInv'
<1>1. /\ AttemptFails(u) /\ caller[u].pc # "off"
      /\ UNCHANGED <<records, raced, count>>
  BY DEF CallFails
<1>2. /\ DOMAIN records' \subseteq Ids /\ records' \in [DOMAIN records' -> Row]
      /\ DOMAIN records' = DOMAIN records
  BY <1>1 DEF DnsInv, DnsTyped
<1>3. /\ ~raced => \A i, j \in DOMAIN records' : i = j
      /\ \A i \in DOMAIN records' : records'[i].proxied = (i = Existing)
  BY <1>1 DEF DnsInv, Alone, Flags
<1>4. ~raced => (\A v \in Updaters : caller[v].pc = "create" => v = u)
                \/ DOMAIN records' = {}
  BY <1>2 DEF DnsInv, Alone
<1> QED
  BY <1>1, <1>2, <1>3, <1>4, CallEnds

LEMMA DeleteInv ==
    ASSUME DnsInv, NEW i \in Ids, DeleteRecord(i)
    PROVE  DnsInv'
<1>1. /\ DOMAIN records' = DOMAIN records \ {i}
      /\ \A j \in DOMAIN records' : records'[j] = records[j]
      /\ records' = [j \in DOMAIN records \ {i} |-> records[j]]
  BY DEF DeleteRecord, Restrict
<1>2. count' \in 0..MaxUpdates
  BY DdnsAssumption DEF DeleteRecord, DnsInv, DnsTyped
<1>3. records' \in [DOMAIN records' -> Row]
  BY <1>1 DEF DnsInv, DnsTyped
<1> QED
  BY <1>1, <1>2, <1>3 DEF DeleteRecord, DnsInv, DnsTyped, Alone, Flags

LEMMA DnsInvStep == DnsInv /\ [DnsNext]_dnsVars => DnsInv'
<1> SUFFICES ASSUME DnsInv, [DnsNext]_dnsVars PROVE DnsInv'
  OBVIOUS
<1>1. CASE UNCHANGED dnsVars
  BY <1>1 DEF dnsVars, DnsInv, DnsTyped, Alone, Flags
<1>2. ASSUME NEW u \in Updaters, (\E a \in Addresses : Start(u, a)) \/ Call(u)
      PROVE  DnsInv'
  BY <1>2, StartInv, ListInv, FailsInv, CreateInv, PutInv DEF Call
<1>3. ASSUME NEW i \in Ids, DeleteRecord(i)
      PROVE  DnsInv'
  BY <1>3, DeleteInv
<1> QED
  BY <1>1, <1>2, <1>3 DEF DnsNext

-----------------------------------------------------------------------------
(* The records and their updates are always such as DnsInv says.             *)
THEOREM DnsInvariant == DnsSpec => []DnsInv
<1> QED
  BY DnsInvInit, DnsInvStep, PTL DEF DnsSpec

(* No update makes more than ddnsRetries attempts (executeWithRetry).        *)
THEOREM AttemptsBounded == DnsSpec => []DnsTypeOK
<1>1. DnsInv => DnsTypeOK
  BY DEF DnsInv, DnsTyped, DnsTypeOK, State, Row
<1> QED
  BY <1>1, DnsInvariant, PTL

(* However many updates run and however often each is tried, the name keeps  *)
(* one record with the flag it had, but for two who create it at once        *)
(* (DDNSUpdater.Update and updateOnce).                                      *)
THEOREM RecordStaysIntact == DnsSpec => []RecordIntact
<1>1. ASSUME DnsInv, ~raced PROVE Cardinality(DOMAIN records) <= 1
  <2>1. CASE DOMAIN records = {}
    BY <2>1, FS_EmptySet
  <2>2. ASSUME NEW i \in DOMAIN records PROVE Cardinality(DOMAIN records) <= 1
    <3>1. DOMAIN records = {i}
      BY <1>1 DEF DnsInv, Alone
    <3> QED
      BY <3>1, FS_Singleton
  <2> QED
    BY <2>1, <2>2
<1>2. DnsInv => RecordIntact
  BY <1>1 DEF DnsInv, Flags, RecordIntact
<1> QED
  BY <1>2, DnsInvariant, PTL

-----------------------------------------------------------------------------
(* The refinement: what the name resolves to, and the addresses of the       *)
(* updates under way.                                                        *)
Contents == {records[i].content : i \in DOMAIN records}
Targets  == [u \in Updaters |-> caller[u].ip]

LEMMA PromiseInit == DnsInit => Promise!Init
<1> SUFFICES ASSUME DnsInit PROVE Promise!Init
  OBVIOUS
<1>1. DnsInv
  BY DnsInvInit
<1>2. Contents \subseteq Addresses
  BY <1>1 DEF DnsInv, DnsTyped, Contents, Row
<1>3. Targets = [u \in Updaters |-> NoAddress]
  BY DEF DnsInit, Targets, Off
<1> QED
  BY <1>2, <1>3 DEF DnsInit, Promise!Init, Contents, Targets

(* An attempt ends: the update goes on, gives up or reports success.         *)
LEMMA TargetsAfter ==
    ASSUME DnsInv, NEW u \in Updaters, caller[u].pc # "off",
           AttemptFails(u) \/ AttemptSucceeds(u)
    PROVE  \/ Targets' = Targets /\ UNCHANGED succeeded
           \/ /\ Targets' = [Targets EXCEPT ![u] = NoAddress]
              /\ succeeded' \in {succeeded, succeeded \cup {u}}
<1>1. /\ \A v \in Updaters \ {u} : caller'[v] = caller[v]
      /\ \/ caller'[u].ip = caller[u].ip /\ UNCHANGED succeeded
         \/ caller'[u].ip = NoAddress /\ succeeded' \in {succeeded, succeeded \cup {u}}
  BY AttemptEnds DEF DnsInv
<1>2. CASE caller'[u].ip = caller[u].ip /\ UNCHANGED succeeded
  <2>1. \A v \in Updaters : caller'[v].ip = caller[v].ip
    BY <1>1, <1>2
  <2> QED
    BY <1>2, <2>1 DEF Targets
<1>3. CASE caller'[u].ip = NoAddress /\ succeeded' \in {succeeded, succeeded \cup {u}}
  <2>1. \A v \in Updaters : caller'[v].ip = IF v = u THEN NoAddress ELSE caller[v].ip
    BY <1>1, <1>3
  <2> QED
    BY <1>3, <2>1 DEF Targets
<1> QED
  BY <1>1, <1>2, <1>3

LEMMA UnderWay ==
    ASSUME DnsInv, NEW u \in Updaters, caller[u].pc # "off"
    PROVE  Targets[u] = caller[u].ip /\ caller[u].ip \in Addresses /\ Targets[u] # NoAddress
BY DdnsAssumption DEF DnsInv, DnsTyped, Targets

LEMMA Written ==
    ASSUME DnsInv, NEW u \in Updaters, CreateRecord(u) \/ PutRecord(u)
    PROVE  Promise!Write(u)
<1>1. caller[u].pc # "off" /\ (AttemptFails(u) \/ AttemptSucceeds(u))
  BY DEF CreateRecord, PutRecord, Answered
<1>2. Contents' \subseteq Contents \cup {Targets[u]} /\ Targets[u] \in Contents'
  <2>1. CASE CreateRecord(u)
    <3>1. PICK i \in RecordIds \ DOMAIN records :
             records' = [j \in DOMAIN records \cup {i} |->
                IF j = i THEN [content |-> caller[u].ip, proxied |-> FALSE] ELSE records[j]]
      BY <2>1 DEF CreateRecord
    <3>2. DOMAIN records' = DOMAIN records \cup {i} /\ records'[i].content = caller[u].ip
          /\ \A j \in DOMAIN records : records'[j].content = records[j].content
      BY <3>1
    <3> QED
      BY <1>1, <3>2, UnderWay DEF Contents
  <2>2. CASE PutRecord(u)
    <3> DEFINE i == caller[u].id
    <3>1. i \in DOMAIN records /\ DOMAIN records' = DOMAIN records
          /\ records'[i].content = caller[u].ip
          /\ \A j \in DOMAIN records \ {i} : records'[j].content = records[j].content
      BY <2>2 DEF PutRecord, PutAddress, DnsInv, DnsTyped
    <3> QED
      BY <1>1, <3>1, UnderWay DEF Contents
  <2> QED
    BY <2>1, <2>2
<1> QED
  BY <1>1, <1>2, TargetsAfter, UnderWay DEF Promise!Write, Contents, Targets

LEMMA PromiseStep == DnsInv /\ [DnsNext]_dnsVars => [Promise!Next]_(Promise!vars)
<1> SUFFICES ASSUME DnsInv, [DnsNext]_dnsVars PROVE [Promise!Next]_(Promise!vars)
  OBVIOUS
<1>1. CASE UNCHANGED dnsVars
  BY <1>1 DEF dnsVars, Promise!vars
<1>2. ASSUME NEW u \in Updaters, NEW a \in Addresses, Start(u, a)
      PROVE  Promise!Next
  <2>1. caller[u].ip = NoAddress /\ UNCHANGED records /\ succeeded' = succeeded \ {u}
    BY <1>2 DEF Start, Off
  <2>2. \A v \in Updaters : caller'[v].ip = IF v = u THEN a ELSE caller[v].ip
    BY <1>2 DEF Start, Set, Off, DnsInv, DnsTyped
  <2>3. Targets' = [Targets EXCEPT ![u] = a] /\ Contents' = Contents /\ Targets[u] = NoAddress
    BY <2>1, <2>2 DEF Targets, Contents
  <2> QED
    BY <2>1, <2>3 DEF Promise!Next, Promise!Start, Targets, Contents
<1>3. ASSUME NEW u \in Updaters, ListRecord(u)
      PROVE  UNCHANGED Promise!vars
  <2>1. \A v \in Updaters : caller'[v].ip = caller[v].ip
    <3>1. PICK c \in {[caller[u] EXCEPT !.pc = "create"]}
                     \cup {[caller[u] EXCEPT !.pc = "put", !.id = i,
                                              !.proxied = records[i].proxied] :
                           i \in DOMAIN records} :
             caller' = [caller EXCEPT ![u] = c]
      BY <1>3 DEF ListRecord, Set
    <3>2. c.ip = caller[u].ip
      BY <3>1 DEF DnsInv, DnsTyped, State
    <3> QED
      BY <3>1, <3>2 DEF DnsInv, DnsTyped
  <2>2. UNCHANGED <<records, succeeded>>
    BY <1>3 DEF ListRecord
  <2> QED
    BY <2>1, <2>2 DEF Promise!vars
<1>4. ASSUME NEW u \in Updaters, CallFails(u)
      PROVE  [Promise!Next]_(Promise!vars)
  <2>1. caller[u].pc # "off" /\ AttemptFails(u) /\ UNCHANGED <<records, succeeded>>
    BY <1>4 DEF CallFails, AttemptFails
  <2>2. Contents' = Contents
    BY <2>1 DEF Contents
  <2>3. CASE Targets' = Targets
    BY <2>1, <2>2, <2>3 DEF Promise!vars, Targets, Contents
  <2>4. CASE Targets' = [Targets EXCEPT ![u] = NoAddress]
    BY <2>1, <2>2, <2>4, UnderWay DEF Promise!Next, Promise!Fail, Targets, Contents
  <2> QED
    BY <2>1, <2>3, <2>4, TargetsAfter
<1>5. ASSUME NEW u \in Updaters, CreateRecord(u) \/ PutRecord(u)
      PROVE  Promise!Next
  BY <1>5, Written DEF Promise!Next
<1>6. ASSUME NEW i \in Ids, DeleteRecord(i)
      PROVE  Promise!Next
  <2>1. UNCHANGED <<caller, succeeded>> /\ Contents' \subseteq Contents
    BY <1>6 DEF DeleteRecord, Restrict, Contents
  <2> QED
    BY <2>1 DEF Promise!Next, Promise!Vanish, Contents
<1> QED
  BY <1>1, <1>2, <1>3, <1>4, <1>5, <1>6 DEF DnsNext, Call

(* DdnsRecord implements DnsAddresses: the name resolves to nothing but what *)
(* it did before and the addresses of updates under way, and an update that  *)
(* reports success has written its own (DDNSUpdater.Update).                 *)
THEOREM PromiseImplemented == DnsSpec => AddressesPromised
<1>1. DnsInv /\ [DnsNext]_dnsVars => [Promise!Next]_(Promise!vars)
  BY PromiseStep
<1> QED
  BY <1>1, PromiseInit, DnsInvariant, PTL DEF DnsSpec, AddressesPromised, Promise!Spec

-----------------------------------------------------------------------------
(* Executor, for any finite set of calls and any capacity of the semaphore.   *)

ExecInv == ExecTypeOK /\ PartsAgree

(* The actions of one call, by what they touch.                              *)
Returns(c) ==
    \/ RunNothing(c) \/ GetReturns(c) \/ TakeDialError(c) \/ ConnectTimesOut(c)
    \/ SessionRefused(c) \/ TakeVerdict(c) \/ RunTimesOut(c)

-----------------------------------------------------------------------------
(* The semaphore.                                                            *)

(* Adding a call to fewer than MaxConcurrency leaves at most as many, and    *)
(* taking one away never makes more.                                         *)
LEMMA SlotsBounded ==
    ASSUME slots \in SUBSET Calls, Cardinality(slots) <= MaxConcurrency, NEW c \in Calls
    PROVE  /\ Cardinality(slots \ {c}) <= MaxConcurrency
           /\ SlotFree => Cardinality(slots \cup {c}) <= MaxConcurrency
<1>1. IsFiniteSet(slots) /\ MaxConcurrency \in Nat
  BY ExecAssumption, FS_Subset
<1>2. Cardinality(slots) \in Nat
  BY <1>1, FS_CardinalityType
<1>3. Cardinality(slots \ {c}) = IF c \in slots THEN Cardinality(slots) - 1 ELSE Cardinality(slots)
  BY <1>1, FS_RemoveElement
<1>4. Cardinality(slots \cup {c}) = IF c \in slots THEN Cardinality(slots) ELSE Cardinality(slots) + 1
  BY <1>1, FS_AddElement
<1> QED
  BY <1>1, <1>2, <1>3, <1>4 DEF SlotFree

-----------------------------------------------------------------------------
(* Types.                                                                    *)

LEMMA ExecInvInit == ExecInit => ExecInv
<1> SUFFICES ASSUME ExecInit PROVE ExecInv
  OBVIOUS
<1>1. Cardinality(slots) <= MaxConcurrency
  BY ExecAssumption, FS_EmptySet DEF ExecInit
<1>2. ExecTypeOK
  BY <1>1 DEF ExecInit, ExecTypeOK, Holding, Results
<1>3. PartsAgree
  BY DEF ExecInit, PartsAgree, Agree, Holding
<1> QED
  BY <1>2, <1>3 DEF ExecInv

(* A return gives the slot back and changes nothing else of the types.       *)
LEMMA ReturnTypes ==
    ASSUME ExecTypeOK, NEW c \in Calls, NEW r \in Results, Return(c, r)
    PROVE  /\ call' \in [Calls -> {"new", "queued", "ended"} \cup Holding]
           /\ result' \in [Calls -> Results \cup {"none"}]
           /\ slots' \in SUBSET Calls /\ Cardinality(slots') <= MaxConcurrency
<1>1. slots \in SUBSET Calls /\ Cardinality(slots) <= MaxConcurrency /\ slots' = slots \ {c}
  BY DEF ExecTypeOK, Return, Release
<1>2. Cardinality(slots') <= MaxConcurrency
  BY <1>1, SlotsBounded
<1> QED
  BY <1>1, <1>2 DEF ExecTypeOK, Return, Proceed

LEMMA WayOut ==
    ASSUME ExecTypeOK, NEW c \in Calls, Agree(c), Returns(c)
    PROVE  \E r \in Results : Return(c, r)
<1>1. CASE RunNothing(c)
  BY <1>1 DEF RunNothing, Results
<1>2. CASE GetReturns(c)
  BY <1>2 DEF GetReturns, Results
<1>3. CASE TakeDialError(c)
  BY <1>3 DEF TakeDialError, Results
<1>4. CASE ConnectTimesOut(c)
  BY <1>4 DEF ConnectTimesOut, Results
<1>5. CASE SessionRefused(c)
  BY <1>5 DEF SessionRefused, ReturnClosing, Results
<1>6. CASE TakeVerdict(c)
  <2>1. verdict[c] \in {"ok", "failed", "lost"}
    BY <1>6 DEF TakeVerdict, Agree, ExecTypeOK
  <2> QED
    BY <1>6, <2>1 DEF TakeVerdict, ReturnClosing, Reported, Results
<1>7. CASE RunTimesOut(c)
  BY <1>7 DEF RunTimesOut, ReturnClosing, Results
<1> QED
  BY <1>1, <1>2, <1>3, <1>4, <1>5, <1>6, <1>7 DEF Returns

LEMMA ReturnsTypes ==
    ASSUME ExecTypeOK, NEW c \in Calls, Agree(c), Returns(c)
    PROVE  ExecTypeOK'
<1>1. PICK r \in Results : Return(c, r)
  BY WayOut
<1>2. /\ expired' = expired /\ runner' = runner
      /\ verdict' = verdict /\ command' = command
      /\ dial' = dial \/ dial' = [dial EXCEPT ![c] = "taken"]
      /\ client' = client \/ client' = [client EXCEPT ![c] = "closed"]
  BY DEF Returns, RunNothing, GetReturns, TakeDialError, ConnectTimesOut,
         SessionRefused, TakeVerdict, RunTimesOut, ReturnClosing, CloseClient, remote
<1>3. /\ dial' \in [Calls -> {"none", "dialing", "dialed", "failed", "taken"}]
      /\ client' \in [Calls -> {"none", "open", "closed"}]
  BY <1>2 DEF ExecTypeOK
<1> QED
  BY <1>1, <1>2, <1>3, ReturnTypes DEF ExecTypeOK

LEMMA AcquireTypes ==
    ASSUME ExecTypeOK, NEW c \in Calls, Acquire(c)
    PROVE  ExecTypeOK'
<1>1. Cardinality(slots') <= MaxConcurrency
  BY SlotsBounded DEF ExecTypeOK, Acquire
<1> QED
  BY <1>1 DEF ExecTypeOK, Acquire, Proceed, Holding, remote

(* The other steps leave the semaphore alone.                                *)
LEMMA OtherTypes ==
    ASSUME ExecTypeOK, NEW c \in Calls, CallStep(c), ~Returns(c), ~Acquire(c)
    PROVE  ExecTypeOK'
<1> DEFINE Labels == {"new", "queued", "ended"} \cup Holding
<1>1. CASE Submit(c)
  BY <1>1 DEF Submit, Proceed, ExecTypeOK, remote
<1>2. CASE SendGet(c) \/ StartDial(c) \/ TakeClient(c) \/ OpenSession(c)
  <2>1. call' \in [Calls -> Labels] /\ slots' = slots
    BY <1>2 DEF SendGet, StartDial, TakeClient, OpenSession, Proceed, ExecTypeOK, Holding
  <2>2. /\ expired' \in SUBSET Calls
        /\ dial' \in [Calls -> {"none", "dialing", "dialed", "failed", "taken"}]
        /\ client' = client /\ verdict' = verdict /\ result' = result
    BY <1>2 DEF SendGet, StartDial, TakeClient, OpenSession, ExecTypeOK, remote
  <2>3. /\ runner' \in [Calls -> {"none", "running", "sending", "sent"}]
        /\ command' \in [Calls -> {"none", "active", "ok", "failed"}]
    BY <1>2 DEF SendGet, StartDial, TakeClient, OpenSession, ExecTypeOK, remote
  <2> QED
    BY <2>1, <2>2, <2>3 DEF ExecTypeOK
<1>3. CASE Expire(c)
  BY <1>3 DEF Expire, ExecTypeOK, remote
<1>4. CASE DialEnds(c)
  BY <1>4 DEF DialEnds, ExecTypeOK, remote
<1>5. CASE RunReturns(c)
  BY <1>5 DEF RunReturns, ExecTypeOK
<1>6. CASE SendVerdict(c)
  BY <1>6 DEF SendVerdict, ExecTypeOK, remote
<1>7. CASE CommandEnds(c)
  BY <1>7 DEF CommandEnds, ExecTypeOK
<1> QED
  BY <1>1, <1>2, <1>3, <1>4, <1>5, <1>6, <1>7
     DEF CallStep, Choose, Select, Session, Returns

-----------------------------------------------------------------------------
(* How the parts of a call go together.                                      *)

(* A step of one call leaves every other call as it is.                      *)
LEMMA OthersUntouched ==
    ASSUME ExecTypeOK, NEW c \in Calls, CallStep(c), NEW d \in Calls, d # c, Agree(d)
    PROVE  Agree(d)'
<1>1. /\ call'[d] = call[d] /\ dial'[d] = dial[d] /\ client'[d] = client[d]
      /\ runner'[d] = runner[d] /\ verdict'[d] = verdict[d]
      /\ command'[d] = command[d] /\ result'[d] = result[d]
      /\ d \in slots' <=> d \in slots
  <2>1. CASE Submit(c) \/ Acquire(c) \/ Choose(c) \/ GetReturns(c)
    BY <2>1 DEF Submit, Acquire, Choose, RunNothing, SendGet, StartDial, GetReturns,
                Return, Release, Proceed, ExecTypeOK, remote
  <2>2. CASE Expire(c) \/ Select(c)
    BY <2>2 DEF Expire, Select, TakeClient, TakeDialError, ConnectTimesOut, TakeVerdict,
                RunTimesOut, ReturnClosing, CloseClient, Return, Release, Proceed,
                ExecTypeOK, remote
  <2>3. CASE Session(c) \/ DialEnds(c)
    BY <2>3 DEF Session, OpenSession, SessionRefused, DialEnds, ReturnClosing,
                CloseClient, Return, Release, Proceed, ExecTypeOK, remote
  <2>4. CASE RunReturns(c) \/ SendVerdict(c) \/ CommandEnds(c)
    BY <2>4 DEF RunReturns, SendVerdict, CommandEnds, ExecTypeOK, remote
  <2> QED
    BY <2>1, <2>2, <2>3, <2>4 DEF CallStep
<1> QED
  BY <1>1 DEF Agree

LEMMA OwnStepAgrees ==
    ASSUME ExecTypeOK, NEW c \in Calls, CallStep(c), Agree(c)
    PROVE  Agree(c)'
<1> USE DEF Agree, ExecTypeOK
<1>1. CASE Submit(c)
  BY <1>1 DEF Submit, Proceed, Holding, remote
<1>2. CASE Acquire(c)
  BY <1>2 DEF Acquire, Proceed, Holding, remote
<1>3. CASE RunNothing(c)
  BY <1>3 DEF RunNothing, Return, Release, Proceed, Holding, remote
<1>4. CASE SendGet(c)
  BY <1>4 DEF SendGet, Proceed, Holding
<1>5. CASE StartDial(c)
  BY <1>5 DEF StartDial, Proceed, Holding, remote
<1>6. CASE GetReturns(c)
  BY <1>6 DEF GetReturns, Return, Release, Proceed, Holding, remote
<1>7. CASE Expire(c)
  BY <1>7 DEF Expire, remote
<1>8. CASE TakeClient(c)
  BY <1>8 DEF TakeClient, Proceed, Holding, remote
<1>9. CASE TakeDialError(c)
  BY <1>9 DEF TakeDialError, Return, Release, Proceed, Holding, remote
<1>10. CASE ConnectTimesOut(c)
  BY <1>10 DEF ConnectTimesOut, Return, Release, Proceed, Holding, remote
<1>11. CASE TakeVerdict(c)
  BY <1>11 DEF TakeVerdict, Reported, ReturnClosing, CloseClient, Return, Release,
               Proceed, Holding, remote
<1>12. CASE RunTimesOut(c)
  BY <1>12 DEF RunTimesOut, ReturnClosing, CloseClient, Return, Release, Proceed,
               Holding, remote
<1>13. CASE OpenSession(c)
  BY <1>13 DEF OpenSession, Proceed, Holding
<1>14. CASE SessionRefused(c)
  BY <1>14 DEF SessionRefused, ReturnClosing, CloseClient, Return, Release, Proceed,
               Holding, remote
<1>15. CASE DialEnds(c)
  BY <1>15 DEF DialEnds, remote
<1>16. CASE RunReturns(c)
  BY <1>16 DEF RunReturns
<1>17. CASE SendVerdict(c)
  BY <1>17 DEF SendVerdict, remote
<1>18. CASE CommandEnds(c)
  BY <1>18 DEF CommandEnds
<1> QED
  BY <1>1, <1>2, <1>3, <1>4, <1>5, <1>6, <1>7, <1>8, <1>9, <1>10, <1>11, <1>12,
     <1>13, <1>14, <1>15, <1>16, <1>17, <1>18 DEF CallStep, Choose, Select, Session

LEMMA ExecInvStep == ExecInv /\ [ExecNext]_execVars => ExecInv'
<1> SUFFICES ASSUME ExecInv, [ExecNext]_execVars PROVE ExecInv'
  OBVIOUS
<1> USE DEF ExecInv
<1>1. ASSUME NEW c \in Calls, CallStep(c) PROVE ExecInv'
  <2>1. ExecTypeOK'
    BY <1>1, ReturnsTypes, AcquireTypes, OtherTypes DEF PartsAgree
  <2>2. PartsAgree'
    BY <1>1, OthersUntouched, OwnStepAgrees DEF PartsAgree
  <2> QED
    BY <2>1, <2>2
<1>2. CASE UNCHANGED execVars
  BY <1>2 DEF execVars, remote, ExecTypeOK, PartsAgree, Agree
<1> QED
  BY <1>1, <1>2 DEF ExecNext

-----------------------------------------------------------------------------
(* Types, and no more calls hold a slot than the semaphore has; with         *)
(* PartsAgree, a call holds one exactly from Acquire to its return.          *)
THEOREM ExecInvariant == ExecSpec => [](ExecTypeOK /\ PartsAgree)
<1> QED
  BY ExecInvInit, ExecInvStep, PTL DEF ExecSpec, ExecInv

(* An SSH connection is open only for a call that holds a slot, or because   *)
(* the dial ended after its call had given up on it.                         *)
THEOREM ConnectionsAccounted == ExecSpec => []ClientsAccounted
<1>1. ExecTypeOK /\ PartsAgree => ClientsAccounted
  <2> SUFFICES ASSUME ExecTypeOK, PartsAgree, NEW c \in Calls, client[c] = "open"
               PROVE  c \in slots \/ result[c] = "connectTimeout"
    BY DEF ClientsAccounted
  <2>1. Agree(c)
    BY DEF PartsAgree
  <2> QED
    BY <2>1 DEF Agree, ExecTypeOK, Holding
<1> QED
  BY <1>1, ExecInvariant, PTL

-----------------------------------------------------------------------------
(* The refinement.                                                           *)

Effects == {c \in Calls : command[c] \in {"ok", "failed"}}
Answers == [c \in Calls |-> AnswerOf(result[c])]

(* A return is the answer to its call, and the only one.                     *)
LEMMA ReturnAnswers ==
    ASSUME ExecTypeOK, NEW c \in Calls, Agree(c), NEW r \in Results, Return(c, r),
           command' = command, call[c] # "ended"
    PROVE  Promised!CommandNext
<1> DEFINE a == AnswerOf(r)
<1>1. a \in {"ok", "refused", "unknown"}
  BY DEF AnswerOf, Results
<1>2. Answers[c] = "none"
  BY DEF Answers, Agree, AnswerOf
<1>3. Answers' = [Answers EXCEPT ![c] = a]
  BY DEF Answers, Return, ExecTypeOK
<1>4. Promised!Answer(c, a)
  BY <1>2, <1>3 DEF Promised!Answer, Answers
<1> QED
  BY <1>1, <1>4 DEF Promised!CommandNext

(* The command ends on the host only while its call has given no answer, or  *)
(* one that says that it does not know.                                      *)
LEMMA EndTakesEffect ==
    ASSUME ExecTypeOK, NEW c \in Calls, Agree(c), CommandEnds(c)
    PROVE  Promised!CommandNext
<1>1. c \notin Effects /\ Effects' = Effects \cup {c}
  BY DEF Effects, CommandEnds, ExecTypeOK
<1>2. Answers[c] \in {"none", "unknown"}
  BY DEF Answers, AnswerOf, Agree, CommandEnds, ExecTypeOK, Results
<1>3. Answers' = Answers
  BY DEF Answers, CommandEnds
<1>4. Promised!TakeEffect(c)
  BY <1>1, <1>2, <1>3 DEF Promised!TakeEffect, Effects, Answers
<1> QED
  BY <1>4 DEF Promised!CommandNext

LEMMA StepPromised ==
    ASSUME ExecTypeOK, PartsAgree, [ExecNext]_execVars
    PROVE  [Promised!CommandNext]_<<Answers, Effects>>
<1>1. ASSUME NEW c \in Calls, Returns(c) PROVE Promised!CommandNext
  <2>1. command' = command /\ call[c] # "ended"
    BY <1>1 DEF Returns, RunNothing, GetReturns, TakeDialError, ConnectTimesOut,
                SessionRefused, TakeVerdict, RunTimesOut, ReturnClosing, remote
  <2>2. PICK r \in Results : Return(c, r)
    BY <1>1, WayOut DEF PartsAgree
  <2> QED
    BY <2>1, <2>2, ReturnAnswers DEF PartsAgree
<1>2. ASSUME NEW c \in Calls, CallStep(c), ~Returns(c), ~CommandEnds(c)
      PROVE  Answers' = Answers /\ Effects' = Effects
  <2>1. result' = result
    BY <1>2 DEF CallStep, Choose, Select, Session, Returns, Submit, Acquire, SendGet,
                StartDial, Expire, TakeClient, OpenSession, DialEnds, RunReturns, SendVerdict
  <2>2. Effects' = Effects
    <3>1. CASE command' = command
      BY <3>1 DEF Effects
    <3>2. CASE SendGet(c) \/ OpenSession(c)
      <4>1. command[c] = "none" /\ command' = [command EXCEPT ![c] = "active"]
        BY <3>2 DEF SendGet, OpenSession, PartsAgree, Agree
      <4> QED
        BY <4>1 DEF Effects, ExecTypeOK
    <3> QED
      BY <1>2, <3>1, <3>2 DEF CallStep, Choose, Select, Session, Returns, Submit, Acquire,
         StartDial, Expire, TakeClient, DialEnds, RunReturns, SendVerdict, remote
  <2> QED
    BY <2>1, <2>2 DEF Answers
<1>3. CASE UNCHANGED execVars
  BY <1>3 DEF execVars, remote, Answers, Effects
<1> QED
  BY <1>1, <1>2, <1>3, EndTakesEffect DEF ExecNext, PartsAgree

(* The executor keeps the promise of CommandRun: each call answers once, and *)
(* after a definite answer its command changes nothing on the host any more. *)
THEOREM PromiseKept == ExecSpec => ResultsPromised
<1>1. ExecInit => Promised!CommandInit
  BY DEF ExecInit, Promised!CommandInit, AnswerOf
<1>2. ExecTypeOK /\ PartsAgree /\ [ExecNext]_execVars
         => [Promised!CommandNext]_<<Answers, Effects>>
  BY StepPromised
<1> QED
  BY <1>1, <1>2, ExecInvariant, PTL
     DEF ExecSpec, ResultsPromised, Promised!CommandSpec, Answers, Effects

-----------------------------------------------------------------------------
(* InstallTask, for any number of steps and any window of log lines.          *)

Ended == {"success", "failed"}

(* A stream that nobody has to read any more: it is at its end, or at a line *)
(* the scanner gives up at.                                                  *)
Drained(s) ==
    IF pipe[s] = <<>> THEN script # "running" ELSE Head(pipe[s]) = Oversize

(* InstallTypeOK, what belongs to the log and the rest.                      *)
TaskType == [status : {"none", "running", "success", "failed"},
             progress : 0..100, total : Nat, kept : 0..LogLimit + 1]

LogTypes ==
    /\ task \in TaskType
    /\ task.progress = 100 <=> task.status = "success"
    /\ task.kept > LogLimit => task.status = "failed"
    /\ counted \in 0..task.kept \/ task = NoTask
    /\ displayed \subseteq 1..task.total \/ task = NoTask

StageTypes ==
    /\ installer \in {"off", "dial", "session", "start", "wait", "join", "over"}
    /\ script \in {"none", "running", "ok", "failed"}
    /\ step \in 0..Steps /\ chatter \in 0..MaxChatter /\ agentRuns \in BOOLEAN
    /\ pipe \in [Streams -> Seq(Oversize..Steps)]
    /\ reader \in [Streams -> {"none", "scanning", "done"}]
    /\ page \in {"closed", "polling", "success", "failed", "error"}

LEMMA TypesSplit == InstallTypeOK <=> LogTypes /\ StageTypes
BY DEF InstallTypeOK, LogTypes, StageTypes, TaskType

(* How installer, script, readers and task go together.                      *)
Stages ==
    /\ installer \in {"off", "dial", "session", "start"} =>
          script = "none" /\ \A s \in Streams : reader[s] = "none"
    /\ script = "none" => \A s \in Streams : pipe[s] = <<>>
    /\ task.status = "running" <=>
          installer \in {"dial", "session", "start", "wait", "join"}
    /\ \A s \in Streams : reader[s] = "scanning" => installer \in {"wait", "join"}
    /\ \A s \in Streams : reader[s] = "done" => Drained(s)
    /\ task.status \in Ended => \A s \in Streams : Drained(s)
    /\ page = "closed" => task = NoTask /\ installer = "off"

(* What the page has seen of the log.  As long as the log fits the table, it *)
(* shows the lines it has counted; of a failed task there is always one that *)
(* it has not counted.                                                       *)
PageFollows ==
    /\ page = "closed" => counted = 0 /\ displayed = {}
    /\ task.status = "none" => task = NoTask
    /\ task # NoTask =>
          /\ task.kept <= task.total
          /\ task.total <= LogLimit => task.kept = task.total /\ displayed = 1..counted
          /\ page = "polling" /\ task.status = "failed" => counted < task.kept
          /\ page \in Ended => page = task.status

InstallInv == InstallTypeOK /\ Stages /\ PageFollows /\ PageShowsLog

-----------------------------------------------------------------------------
(* Lines and their log.                                                      *)

LEMMA ProgressBounded ==
    ASSUME NEW n \in Oversize..Steps
    PROVE  ParseProgress(n) \in 0..99
<1>1. (n * 100) \div Steps \in Int
  BY DEF Oversize, Steps
<1> QED
  BY <1>1 DEF ParseProgress, Least, Greatest

LEMMA AppendKeepsHead ==
    ASSUME NEW S, NEW q \in Seq(S), NEW n \in S
    PROVE  /\ Append(q, n) \in Seq(S)
           /\ Append(q, n) # <<>>
           /\ q # <<>> => Head(Append(q, n)) = Head(q)
<1>1. CASE q = <<>>
  BY <1>1, AppendProperties
<1>2. CASE q # <<>>
  <2>1. Len(q) >= 1
    BY <1>2, EmptySeq
  <2>2. Append(q, n)[1] = q[1]
    BY <2>1, AppendProperties, LenProperties
  <2> QED
    BY <2>2, AppendProperties
<1> QED
  BY <1>1, <1>2

-----------------------------------------------------------------------------
LEMMA InstallInvInit == InstallInit => InstallInv
<1> SUFFICES ASSUME InstallInit PROVE InstallInv
  OBVIOUS
<1> USE InstallAssumption DEF InstallInit
<1>1. pipe \in [Streams -> Seq(Oversize..Steps)] /\ \A s \in Streams : pipe[s] = <<>>
  OBVIOUS
<1>2. task \in [status : {"none", "running", "success", "failed"},
                progress : 0..100, total : Nat, kept : 0..LogLimit + 1]
      /\ task.progress = 0 /\ task.status = "none" /\ task.kept = 0
  BY DEF NoTask
<1>3. InstallTypeOK
  <2>1. agentRuns \in BOOLEAN
    OBVIOUS
  <2>2. step \in 0..Steps /\ chatter \in 0..MaxChatter
    BY DEF Steps
  <2>3. (counted \in 0..task.kept \/ task = NoTask) /\ (displayed \subseteq 1..task.total \/ task = NoTask)
    OBVIOUS
  <2>4. (task.progress = 100 <=> task.status = "success") /\ (task.kept > LogLimit => task.status = "failed")
    BY <1>2
  <2>5. reader \in [Streams -> {"none", "scanning", "done"}]
    OBVIOUS
  <2> QED
    BY <1>1, <1>2, <2>1, <2>2, <2>3, <2>4, <2>5 DEF InstallTypeOK
<1>4. Stages
  BY <1>1, <1>2 DEF Stages, Drained, Ended
<1>5. PageFollows /\ PageShowsLog
  BY DEF PageFollows, PageShowsLog
<1> QED
  BY <1>3, <1>4, <1>5 DEF InstallInv

(* The log of a running task takes another line, or the task ends.           *)
LEMMA RunningLog ==
    ASSUME LogTypes, task.status = "running",
           UNCHANGED <<counted, displayed>>,
           \/ \E n \in Oversize..Steps : task' = LogLine(task, n)
           \/ task' = Succeeded(task) \/ task' = Failed(task)
    PROVE  LogTypes'
<1> USE InstallAssumption
<1>1. /\ task.progress \in 0..99 /\ task.total \in Nat /\ task.kept \in 0..LogLimit
      /\ counted \in 0..task.kept /\ displayed \subseteq 1..task.total
      /\ task \in TaskType
  BY DEF LogTypes, TaskType, NoTask
<1>2. ASSUME NEW n \in Oversize..Steps, task' = LogLine(task, n)
      PROVE  LogTypes'
  <2>1. /\ task'.status = "running" /\ task'.total = task.total + 1
        /\ task'.kept = Least(LogLimit, task.kept + 1)
        /\ task'.progress = IF ParseProgress(n) > 0 THEN ParseProgress(n) ELSE task.progress
        /\ task' = [status |-> task'.status, progress |-> task'.progress,
                    total |-> task'.total, kept |-> task'.kept]
    BY <1>1, <1>2 DEF LogLine, TaskType
  <2>2. task'.progress \in 0..99
    BY <1>1, <2>1, ProgressBounded
  <2>3. task'.kept \in task.kept..LogLimit
    BY <1>1, <2>1 DEF Least
  <2>4. task' \in TaskType
    BY <1>1, <2>1, <2>2, <2>3 DEF TaskType
  <2> QED
    BY <1>1, <2>1, <2>2, <2>3, <2>4 DEF LogTypes
<1>3. CASE task' = Succeeded(task)
  <2>1. /\ task'.status = "success" /\ task'.total = task.total
        /\ task'.kept = task.kept /\ task'.progress = 100
        /\ task' = [status |-> task'.status, progress |-> task'.progress,
                    total |-> task'.total, kept |-> task'.kept]
    BY <1>1, <1>3 DEF Succeeded, TaskType
  <2>2. task' \in TaskType
    BY <1>1, <2>1 DEF TaskType
  <2> QED
    BY <1>1, <2>1, <2>2 DEF LogTypes
<1>4. CASE task' = Failed(task)
  <2>1. /\ task'.status = "failed" /\ task'.total = task.total + 1
        /\ task'.kept = task.kept + 1 /\ task'.progress = Greatest(5, task.progress)
        /\ task' = [status |-> task'.status, progress |-> task'.progress,
                    total |-> task'.total, kept |-> task'.kept]
    BY <1>1, <1>4 DEF Failed, TaskType
  <2>2. task'.progress \in 0..99
    BY <1>1, <2>1 DEF Greatest
  <2>3. task' \in TaskType
    BY <1>1, <2>1, <2>2 DEF TaskType
  <2> QED
    BY <1>1, <2>1, <2>2, <2>3 DEF LogTypes
<1> QED
  BY <1>2, <1>3, <1>4

(* A line that is read is a line of the log.                                 *)
LEMMA ReadTakes ==
    ASSUME InstallInv, NEW s \in Streams, ReadLine(s)
    PROVE  /\ pipe[s] # <<>> /\ task.status = "running" /\ reader[s] = "scanning"
           /\ UNCHANGED <<installer, script, counted, displayed, page>>
           /\ \/ /\ Head(pipe[s]) = Oversize /\ UNCHANGED <<task, pipe>>
                 /\ reader' = [reader EXCEPT ![s] = "done"]
              \/ /\ Head(pipe[s]) # Oversize /\ UNCHANGED reader
                 /\ pipe' = [pipe EXCEPT ![s] = Tail(@)]
                 /\ \E n \in Oversize..Steps : task' = LogLine(task, n)
<1>1. /\ pipe[s] # <<>> /\ reader[s] = "scanning"
      /\ UNCHANGED <<installer, script, counted, displayed, page>>
  BY DEF ReadLine, host, dialog
<1>2. task.status = "running"
  BY <1>1 DEF InstallInv, Stages
<1>3. Head(pipe[s]) \in Oversize..Steps
  BY <1>1, HeadTailProperties DEF InstallInv, InstallTypeOK
<1> QED
  BY <1>1, <1>2, <1>3 DEF ReadLine, GiveUp

LEMMA StepLogTypes ==
    ASSUME InstallInv, [InstallNext]_installVars
    PROVE  LogTypes'
<1>1. LogTypes
  BY TypesSplit DEF InstallInv
<1>2. CASE Install
  <2>1. counted = 0 /\ displayed = {}
    BY <1>2 DEF Install, InstallInv, PageFollows
  <2> QED
    BY <1>2, <2>1, InstallAssumption DEF Install, LogTypes, TaskType
<1>3. CASE UNCHANGED <<task, counted, displayed>>
  BY <1>1, <1>3 DEF LogTypes
<1>4. CASE ReachFails
  <2>1. task.status = "running"
    BY <1>4 DEF ReachFails, InstallInv, Stages
  <2> QED
    BY <1>1, <1>4, <2>1, RunningLog DEF ReachFails, Finish, dialog
<1>5. CASE JoinReaders
  <2>1. task.status = "running"
    BY <1>5 DEF JoinReaders, InstallInv, Stages
  <2> QED
    BY <1>1, <1>5, <2>1, RunningLog DEF JoinReaders, Finish, dialog
<1>6. ASSUME NEW s \in Streams, ReadLine(s) PROVE LogTypes'
  BY <1>1, <1>6, ReadTakes, RunningLog DEF LogTypes
<1>7. CASE PollTask
  <2>1. /\ task' = task /\ task # NoTask /\ displayed' = displayed \cup Slice
        /\ counted' = Greatest(counted, task.kept)
    BY <1>7 DEF PollTask
  <2>2. /\ task.total \in Nat /\ task.kept \in Nat /\ counted \in 0..task.kept
        /\ displayed \subseteq 1..task.total /\ task.kept <= task.total
    BY <1>1, <2>1, InstallAssumption DEF LogTypes, TaskType, InstallInv, PageFollows
  <2>3. counted' \in 0..task.kept /\ Slice \subseteq 1..task.total
    BY <2>1, <2>2 DEF Greatest, Slice
  <2> QED
    BY <1>1, <2>1, <2>2, <2>3 DEF LogTypes
<1>8. CASE ServerRestarts
  BY <1>1, <1>8, InstallAssumption DEF ServerRestarts, LogTypes, TaskType, NoTask
<1>9. CASE \/ Reach \/ StartScript \/ PrintStep \/ PrintChatter \/ ScriptEnds
           \/ WaitReturns \/ (\E s \in Streams : ReadEnd(s)) \/ PollFails
           \/ UNCHANGED installVars
  <2>1. UNCHANGED <<task, counted, displayed>>
    BY <1>9 DEF Reach, StartScript, PrintStep, PrintChatter, ScriptEnds, WaitReturns,
                ReadEnd, PollFails, installVars, dialog
  <2> QED
    BY <1>3, <2>1
<1> QED
  BY <1>2, <1>4, <1>5, <1>6, <1>7, <1>8, <1>9 DEF InstallNext, InstallerStep

LEMMA StepStageTypes ==
    ASSUME InstallInv, [InstallNext]_installVars
    PROVE  StageTypes'
<1> USE DEF StageTypes, host, dialog
<1>0. StageTypes
  BY TypesSplit DEF InstallInv
<1>1. CASE Install \/ Reach
  BY <1>0, <1>1 DEF Install, Reach
<1>2. CASE StartScript
  BY <1>0, <1>2 DEF StartScript
<1>3. CASE ReachFails \/ JoinReaders
  BY <1>0, <1>3 DEF ReachFails, JoinReaders, Finish
<1>4. CASE PrintStep
  <2>1. step + 1 \in Oversize..Steps /\ step + 1 \in 0..Steps
    BY <1>0, <1>4 DEF PrintStep, LastStep, Steps, Oversize
  <2> QED
    BY <1>0, <1>4, <2>1, AppendKeepsHead DEF PrintStep, Emit, AgentStartedBy, Streams
<1>5. CASE PrintChatter
  <2>1. Plain \in Oversize..Steps /\ Oversize \in Oversize..Steps
    BY DEF Plain, Oversize, Steps
  <2> QED
    BY <1>0, <1>5, <2>1, AppendKeepsHead, InstallAssumption DEF PrintChatter, Emit
<1>6. CASE ScriptEnds
  BY <1>0, <1>6 DEF ScriptEnds
<1>7. CASE WaitReturns
  BY <1>0, <1>7 DEF WaitReturns
<1>8. ASSUME NEW s \in Streams, ReadLine(s) PROVE StageTypes'
  <2>1. Tail(pipe[s]) \in Seq(Oversize..Steps)
    BY <1>0, <1>8, HeadTailProperties DEF ReadLine
  <2>2. UNCHANGED <<step, chatter, agentRuns>>
    BY <1>8 DEF ReadLine
  <2> QED
    BY <1>0, <1>8, <2>1, <2>2, ReadTakes
<1>9. ASSUME NEW s \in Streams, ReadEnd(s) PROVE StageTypes'
  BY <1>0, <1>9 DEF ReadEnd
<1>10. CASE PollTask
  <2>1. page' \in {"polling", "success", "failed"}
    <3>1. task.status \in {"running", "success", "failed"}
      BY <1>10, InstallAssumption DEF PollTask, InstallInv, InstallTypeOK, PageFollows
    <3> QED
      BY <1>10, <3>1 DEF PollTask
  <2> QED
    BY <1>0, <1>10, <2>1 DEF PollTask
<1>11. CASE PollFails
  BY <1>0, <1>11 DEF PollFails
<1>12. CASE ServerRestarts
  BY <1>0, <1>12 DEF ServerRestarts
<1>13. CASE UNCHANGED installVars
  BY <1>0, <1>13 DEF installVars
<1> QED
  BY <1>1, <1>2, <1>3, <1>4, <1>5, <1>6, <1>7, <1>8, <1>9, <1>10, <1>11, <1>12, <1>13
     DEF InstallNext, InstallerStep

-----------------------------------------------------------------------------
(* The stages.                                                               *)

(* Printing a line changes no stream's end: a line nobody will read stays at *)
(* its head.                                                                 *)
LEMMA EmitKeepsDrained ==
    ASSUME InstallInv, NEW s \in Streams, NEW n \in Oversize..Steps,
           script = "running", Emit(s, n), UNCHANGED script,
           NEW r \in Streams, Drained(r)
    PROVE  Drained(r)'
<1>1. pipe[r] \in Seq(Oversize..Steps) /\ pipe[r] # <<>> /\ Head(pipe[r]) = Oversize
  BY DEF InstallInv, InstallTypeOK, Drained
<1>2. CASE r = s
  <2>1. pipe'[r] = Append(pipe[r], n)
    BY <1>2 DEF Emit, InstallInv, InstallTypeOK
  <2> QED
    BY <1>1, <2>1, AppendKeepsHead DEF Drained
<1>3. CASE r # s
  <2>1. pipe'[r] = pipe[r]
    BY <1>3 DEF Emit, InstallInv, InstallTypeOK
  <2> QED
    BY <1>1, <2>1 DEF Drained
<1> QED
  BY <1>2, <1>3

LEMMA PrintStages ==
    ASSUME InstallInv, NEW s \in Streams, NEW n \in Oversize..Steps,
           script = "running", Emit(s, n),
           UNCHANGED <<task, installer, script, reader, page>>
    PROVE  Stages'
<1>1. Stages
  BY DEF InstallInv
<1>2. \A r \in Streams : Drained(r) => Drained(r)'
  BY EmitKeepsDrained
<1> QED
  BY <1>1, <1>2 DEF Stages

LEMMA StepStages ==
    ASSUME InstallInv, [InstallNext]_installVars
    PROVE  Stages'
<1>0. /\ Stages /\ task.status \in {"none", "running", "success", "failed"}
      /\ script \in {"none", "running", "ok", "failed"}
      /\ reader \in [Streams -> {"none", "scanning", "done"}]
      /\ pipe \in [Streams -> Seq(Oversize..Steps)]
      /\ task \in TaskType
  BY DEF InstallInv, InstallTypeOK, TaskType
<1>1. CASE Install
  <2>1. task.status = "none" /\ task'.status = "running"
    BY <1>1 DEF Install, NoTask
  <2>2. script = "none" /\ \A s \in Streams : reader[s] = "none"
    BY <1>0, <1>1 DEF Install, Stages
  <2> QED
    BY <1>0, <1>1, <2>1, <2>2 DEF Install, Stages, Drained, Ended, host, dialog
<1>2. CASE Reach
  BY <1>0, <1>2 DEF Reach, Stages, Drained, Ended, host, dialog
<1>3. CASE StartScript
  <2>1. task.status = "running"
    BY <1>0, <1>3 DEF StartScript, Stages
  <2> QED
    BY <1>0, <1>3, <2>1 DEF StartScript, Stages, Drained, Ended, dialog
<1>4. CASE ReachFails
  <2>1. task'.status = "failed"
    BY <1>0, <1>4 DEF ReachFails, Finish, Failed, TaskType
  <2> QED
    BY <1>0, <1>4, <2>1 DEF ReachFails, Finish, Stages, Drained, Ended, host, dialog
<1>5. CASE PrintStep
  <2>1. step' \in Oversize..Steps /\ "stdout" \in Streams
    BY <1>5 DEF PrintStep, LastStep, Steps, Oversize, Streams, InstallInv, InstallTypeOK
  <2> QED
    BY <1>5, <2>1, PrintStages DEF PrintStep, dialog
<1>6. CASE PrintChatter
  <2>1. Plain \in Oversize..Steps /\ Oversize \in Oversize..Steps
    BY DEF Plain, Oversize, Steps
  <2> QED
    BY <1>6, <2>1, PrintStages DEF PrintChatter, dialog
<1>7. CASE ScriptEnds
  <2>1. \A r \in Streams : Drained(r) => Drained(r)'
    BY <1>7 DEF ScriptEnds, Drained
  <2> QED
    BY <1>0, <1>7, <2>1 DEF ScriptEnds, Stages, dialog
<1>8. CASE WaitReturns
  BY <1>0, <1>8 DEF WaitReturns, Stages, Drained, Ended, host, dialog
<1>9. CASE JoinReaders
  <2>1. task'.status \in Ended
    BY <1>0, <1>9 DEF JoinReaders, Finish, Failed, Succeeded, TaskType, Ended
  <2>2. UNCHANGED <<pipe, reader, script, page>> /\ installer' = "over"
        /\ \A s \in Streams : reader[s] = "done"
    BY <1>9 DEF JoinReaders, Finish, ReadersDone, host, dialog
  <2>3. page # "closed"
    BY <1>0, <1>9 DEF JoinReaders, Stages
  <2> QED
    BY <1>0, <2>1, <2>2, <2>3 DEF Stages, Drained, Ended
<1>10. ASSUME NEW s \in Streams, ReadLine(s) PROVE Stages'
  <2>1. /\ pipe[s] # <<>> /\ task.status = "running" /\ reader[s] = "scanning"
        /\ UNCHANGED <<installer, script, page>> /\ page # "closed"
    BY <1>0, <1>10, ReadTakes DEF Stages
  <2>2. CASE Head(pipe[s]) = Oversize /\ UNCHANGED <<task, pipe>>
             /\ reader' = [reader EXCEPT ![s] = "done"]
    BY <1>0, <2>1, <2>2 DEF Stages, Drained
  <2>3. CASE Head(pipe[s]) # Oversize /\ UNCHANGED reader
             /\ pipe' = [pipe EXCEPT ![s] = Tail(@)]
             /\ \E n \in Oversize..Steps : task' = LogLine(task, n)
    <3>1. task'.status = "running"
      BY <1>0, <2>1, <2>3 DEF LogLine, TaskType
    <3>2. \A r \in Streams : reader[r] = "done" => pipe'[r] = pipe[r]
      BY <1>0, <2>1, <2>3
    <3>3. script # "none"
      BY <1>0, <2>1 DEF Stages
    <3> QED
      BY <1>0, <2>1, <2>3, <3>1, <3>2, <3>3 DEF Stages, Drained, Ended
  <2> QED
    BY <1>10, <2>2, <2>3, ReadTakes
<1>11. ASSUME NEW s \in Streams, ReadEnd(s) PROVE Stages'
  BY <1>0, <1>11 DEF ReadEnd, Stages, Drained, host, dialog
<1>12. CASE PollTask \/ PollFails \/ UNCHANGED installVars
  BY <1>0, <1>12 DEF PollTask, PollFails, installVars, Stages, Drained, host, dialog
<1>13. CASE ServerRestarts
  <2>1. task'.status = "none"
    BY <1>13 DEF ServerRestarts, NoTask
  <2> QED
    BY <1>0, <1>13, <2>1 DEF ServerRestarts, Stages, Drained, Ended, host, dialog
<1> QED
  BY <1>1, <1>2, <1>3, <1>4, <1>5, <1>6, <1>7, <1>8, <1>9, <1>10, <1>11, <1>12, <1>13
     DEF InstallNext, InstallerStep

-----------------------------------------------------------------------------
(* The page.                                                                 *)

(* Whatever happens to a running task leaves alone what the page has shown.  *)
LEMMA RunningPage ==
    ASSUME InstallInv, task.status = "running",
           UNCHANGED <<page, counted, displayed>>,
           \/ \E n \in Oversize..Steps : task' = LogLine(task, n)
           \/ task' = Succeeded(task) \/ task' = Failed(task)
    PROVE  PageFollows' /\ PageShowsLog'
<1> USE InstallAssumption
<1>1. /\ task.total \in Nat /\ task.kept \in 0..LogLimit /\ task.kept <= task.total
      /\ counted \in 0..task.kept /\ page \notin Ended /\ task # NoTask
      /\ task.total <= LogLimit => task.kept = task.total /\ displayed = 1..counted
      /\ task \in TaskType
      /\ page # "closed" \/ (counted = 0 /\ displayed = {})
  BY DEF InstallInv, InstallTypeOK, PageFollows, NoTask, Ended, TaskType
<1>2. /\ task'.total \in {task.total, task.total + 1}
      /\ task'.total = task.total => task'.kept = task.kept
      /\ task'.total # task.total =>
            task'.kept = Least(LogLimit, task.kept + 1) \/ task'.kept = task.kept + 1
      /\ task'.status = "failed" => task'.kept = task.kept + 1
      /\ task'.status \in {"running", "success", "failed"}
  <2>1. CASE \E n \in Oversize..Steps : task' = LogLine(task, n)
    <3>1. task'.status = task.status /\ task'.total = task.total + 1
          /\ task'.kept = Least(LogLimit, task.kept + 1)
      BY <1>1, <2>1 DEF LogLine, TaskType
    <3> QED
      BY <1>1, <3>1
  <2>2. CASE task' = Succeeded(task)
    BY <1>1, <2>2 DEF Succeeded, TaskType
  <2>3. CASE task' = Failed(task)
    BY <1>1, <2>3 DEF Failed, TaskType
  <2> QED
    BY <2>1, <2>2, <2>3
<1>3. PageFollows'
  BY <1>1, <1>2 DEF PageFollows, Least, Ended
<1>4. PageShowsLog'
  BY <1>1 DEF PageShowsLog, Ended
<1> QED
  BY <1>3, <1>4

LEMMA StepPage ==
    ASSUME InstallInv, [InstallNext]_installVars
    PROVE  PageFollows' /\ PageShowsLog'
<1> USE InstallAssumption
<1>0. PageFollows /\ PageShowsLog
  BY DEF InstallInv
<1>1. CASE Install
  BY <1>0, <1>1 DEF Install, PageFollows, PageShowsLog, Ended
<1>2. CASE ReachFails \/ JoinReaders
  <2>1. task.status = "running"
    BY <1>2 DEF ReachFails, JoinReaders, InstallInv, Stages
  <2> QED
    BY <1>2, <2>1, RunningPage DEF ReachFails, JoinReaders, Finish, dialog
<1>3. ASSUME NEW s \in Streams, ReadLine(s) PROVE PageFollows' /\ PageShowsLog'
  <2>1. task.status = "running" /\ UNCHANGED <<page, counted, displayed>>
    BY <1>3, ReadTakes
  <2>2. CASE UNCHANGED task
    BY <1>0, <2>1, <2>2 DEF PageFollows, PageShowsLog
  <2>3. CASE \E n \in Oversize..Steps : task' = LogLine(task, n)
    BY <2>1, <2>3, RunningPage
  <2> QED
    BY <1>3, <2>2, <2>3, ReadTakes
<1>4. CASE PollTask
  <2>1. /\ task' = task /\ task # NoTask /\ page = "polling"
        /\ displayed' = displayed \cup (task.total - task.kept + counted + 1 .. task.total)
        /\ counted' = Greatest(counted, task.kept)
        /\ page' = IF task.status = "running" THEN "polling" ELSE task.status
    BY <1>4 DEF PollTask, Slice
  <2>2. /\ task.total \in Nat /\ task.kept \in Nat /\ counted \in 0..task.kept
        /\ task.kept <= task.total
        /\ task.total <= LogLimit => task.kept = task.total /\ displayed = 1..counted
        /\ task.status = "failed" => counted < task.kept
    BY <1>0, <2>1 DEF InstallInv, InstallTypeOK, PageFollows
  <2>3. task.status \in {"running", "success", "failed"}
    BY <1>0, <2>1 DEF InstallInv, InstallTypeOK, PageFollows
  <2>4. counted' = task.kept
    BY <2>1, <2>2 DEF Greatest
  <2>5. task.total <= LogLimit => displayed' = 1..task.total
    BY <2>1, <2>2
  <2>6. task.status = "failed" => task.total \in displayed'
    BY <2>1, <2>2
  <2>7. PageFollows'
    BY <1>0, <2>1, <2>2, <2>3, <2>4, <2>5 DEF PageFollows, Ended
  <2>8. PageShowsLog'
    BY <2>1, <2>3, <2>5, <2>6 DEF PageShowsLog
  <2> QED
    BY <2>7, <2>8
<1>5. CASE PollFails
  BY <1>0, <1>5 DEF PollFails, PageFollows, PageShowsLog, Ended, host
<1>6. CASE ServerRestarts
  BY <1>0, <1>6 DEF ServerRestarts, PageFollows, PageShowsLog, dialog
<1>7. CASE \/ Reach \/ StartScript \/ PrintStep \/ PrintChatter \/ ScriptEnds
           \/ WaitReturns \/ (\E s \in Streams : ReadEnd(s))
           \/ UNCHANGED installVars
  <2>1. UNCHANGED <<task, page, counted, displayed>>
    BY <1>7 DEF Reach, StartScript, PrintStep, PrintChatter, ScriptEnds, WaitReturns,
                ReadEnd, installVars, dialog
  <2> QED
    BY <1>0, <2>1 DEF PageFollows, PageShowsLog
<1> QED
  BY <1>1, <1>2, <1>3, <1>4, <1>5, <1>6, <1>7 DEF InstallNext, InstallerStep

LEMMA InstallInvStep == InstallInv /\ [InstallNext]_installVars => InstallInv'
<1> SUFFICES ASSUME InstallInv, [InstallNext]_installVars PROVE InstallInv'
  OBVIOUS
<1>1. LogTypes' /\ StageTypes' /\ Stages' /\ PageFollows' /\ PageShowsLog'
  BY StepLogTypes, StepStageTypes, StepStages, StepPage
<1>2. InstallTypeOK'
  BY <1>1 DEF InstallTypeOK, LogTypes, StageTypes, TaskType
<1> QED
  BY <1>1, <1>2 DEF InstallInv

(* The types, the stages and what the page has seen, in every state.         *)
THEOREM InstallInvariant == InstallSpec => []InstallInv
BY InstallInvInit, InstallInvStep, PTL DEF InstallSpec

-----------------------------------------------------------------------------
(* A task that has ended has every line in its log that was printed before,  *)
(* except behind one that a scanner gave up at.                              *)
THEOREM LogComplete == InstallSpec => []NothingLost
<1>1. InstallInv => NothingLost
  BY DEF InstallInv, Stages, Drained, Ended, NothingLost
<1> QED
  BY <1>1, InstallInvariant, PTL

(* The page that reports the end of a task has shown the log if it fits the  *)
(* table, and the message of a failure in any case.                          *)
THEOREM ErrorsReachThePage == InstallSpec => []PageShowsLog
<1>1. InstallInv => PageShowsLog
  BY DEF InstallInv
<1> QED
  BY <1>1, InstallInvariant, PTL

-----------------------------------------------------------------------------
(* The parts side by side: a behaviour of the run is one of each part, so     *)
(* what is proved of a part holds of the run.                                 *)

(* The run starts every part in one of its initial states, and moves one of  *)
(* them at a time, as the part itself moves (the updater, the executor and   *)
(* the installer share no state in the program).                             *)
THEOREM ServicesMove == MCSpec => DnsSpec /\ ExecSpec /\ InstallSpec
<1>1. MCInit => DnsInit /\ ExecInit /\ InstallInit
  BY DEF MCInit
<1>2. [MCNext]_allVars => [DnsNext]_dnsVars
  BY DEF MCNext, allVars, DnsPart, ExecPart, InstallPart
<1>3. [MCNext]_allVars => [ExecNext]_execVars
  BY DEF MCNext, allVars, DnsPart, ExecPart, InstallPart
<1>4. [MCNext]_allVars => [InstallNext]_installVars
  BY DEF MCNext, allVars, DnsPart, ExecPart, InstallPart
<1> QED
  BY <1>1, <1>2, <1>3, <1>4, PTL DEF MCSpec, DnsSpec, ExecSpec, InstallSpec

(* Types of all three parts, and the parts of an executor's call in step,    *)
(* for any number of updaters, calls and steps of the script.                *)
THEOREM ServicesTyped == MCSpec => []ServicesTypeOK
<1>1. ExecTypeOK /\ PartsAgree /\ DnsTypeOK /\ InstallInv => ServicesTypeOK
  BY DEF ServicesTypeOK, InstallInv
<1> QED
  BY <1>1, ServicesMove, AttemptsBounded, ExecInvariant, InstallInvariant, PTL
================================================================================
