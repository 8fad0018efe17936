--------------------------- MODULE HostCatalog_proofs --------------------------
(* Theorems about HostCatalog, for any number of pools, hosts and requests   *)
(* and any priorities.                                                       *)
EXTENDS HostCatalog, FiniteSetTheorems, WellFoundedInduction, TLAPS

(* A finite set of integers has a greatest element: of the sets of elements  *)
(* not below one of its elements, one is smallest.                           *)
LEMMA GreatestExists ==
    ASSUME NEW S \in SUBSET Int, S # {}, IsFiniteSet(S)
    PROVE  Max(S) \in S /\ \A x \in S : x <= Max(S)
<1> DEFINE Above(x) == {y \in S : y >= x}
           T == {Above(x) : x \in S}
<1>1. T \subseteq FiniteSubsetsOf(S) /\ T # {}
  <2>1. \A x \in S : IsFiniteSet(Above(x))
    BY FS_Subset
  <2> QED
    BY <2>1 DEF FiniteSubsetsOf
<1>2. IsWellFoundedOn(StrictSubsetOrdering(S), FiniteSubsetsOf(S))
  BY FS_StrictSubsetOrderingWellFounded
<1>3. PICK A \in T : \A B \in T : ~(<<B, A>> \in StrictSubsetOrdering(S))
  <2> HIDE DEF T
  <2> QED
    BY <1>1, <1>2, WFMin
<1>4. PICK m \in S : A = Above(m)
  BY <1>3
<1>5. ASSUME NEW y \in S, y > m PROVE FALSE
  <2>3. \A x \in S : x >= y => x >= m
    BY <1>5
  <2>4. m \in Above(m) /\ m \notin Above(y)
    BY <1>5
  <2>1. Above(y) \subseteq Above(m) /\ Above(y) # Above(m)
    BY <2>3, <2>4
  <2>2. Above(y) \in T
    OBVIOUS
  <2> QED
    BY <1>3, <1>4, <2>1, <2>2 DEF StrictSubsetOrdering
<1>6. \E x \in S : \A y \in S : x >= y
  BY <1>5
<1> QED
  BY <1>6 DEF Max

-----------------------------------------------------------------------------
HostName == Spellings \cup {BlankName}
Host == [name : HostName, priority : Int]
Req  == [step : Steps, name : HostName \cup {NoName}, priority : Int, id : Ids \cup {0}]

(* Types, as TypeOK has them; a request that makes a host names a pool.      *)
CatalogTyped ==
    /\ pools \in SUBSET Pools
    /\ born \in SUBSET Ids /\ DOMAIN hosts \subseteq born
    /\ hosts \in [DOMAIN hosts -> Host] /\ IsFiniteSet(DOMAIN hosts)
    /\ request \in [Requests -> Req]
    /\ \A r \in Requests :
          request[r].step \in {"number", "append", "insert"} => request[r].name \in Spellings
    /\ startup \in [step : {"default", "list", "names", "serving"},
                    todo : SUBSET Pools, missed : SUBSET Pools]
    /\ poolRaced \in BOOLEAN /\ hostsRaced \in BOOLEAN

Puts(q, p) == q.step \in HostSteps /\ q.name \in Spellings /\ q.name.pool = p

(* Unless two requests have raced for a pool: whoever puts a host into one   *)
(* finds it there, and a pool about to be deleted is empty and stays so.     *)
Pooled ==
    ~poolRaced =>
        /\ \A h \in DOMAIN hosts :
              hosts[h].name.blanks = "none" => hosts[h].name.pool \in pools
        /\ \A r \in Requests, p \in Pools : Puts(request[r], p) => p \in pools
        /\ \A r \in Requests : request[r].step = "droppool" =>
              /\ EmptyPool(request[r].name.pool)
              /\ \A q \in Requests : ~Puts(request[q], request[r].name.pool)

(* Unless two requests have written hosts at the same time: one at most is   *)
(* about to, and the number it has made up is free.                          *)
Numbered ==
    ~hostsRaced =>
        /\ \A q, r \in Requests :
              request[q].step \in HostSteps /\ request[r].step \in HostSteps => q = r
        /\ \A r \in Requests :
              request[r].step = "append" /\ request[r].name.blanks = "none"
              => ~Taken(request[r].name, request[r].priority, DOMAIN hosts)

(* Nothing but the start itself goes on while the process starts; and once   *)
(* it has read the names, the pool of every host is there, or its turn is    *)
(* still to come, or its statement has failed.                               *)
Booted ==
    /\ ~Serving => \A r \in Requests : request[r] = Idle
    /\ startup.step = "names" =>
          \A h \in DOMAIN hosts : hosts[h].name \in Spellings =>
             hosts[h].name.pool \in pools \cup startup.todo \cup startup.missed

CatalogInv == CatalogTyped /\ Pooled /\ Numbered /\ Booted

-----------------------------------------------------------------------------
LEMMA Names ==
    /\ NoName \notin Spellings /\ BlankName \notin Spellings
    /\ NoName \notin HostName
    /\ \A n \in HostName : n.blanks = "none" => n \in Spellings /\ n = Plain(n.pool)
    /\ \A n \in Spellings : n.pool \in Pools
    /\ \A p \in Pools : Plain(p) \in Spellings /\ Plain(p).blanks = "none"
                       /\ Plain(p).pool = p
BY CatalogAssumption DEF NoName, BlankName, Spellings, HostName, Plain

LEMMA IdleReq == Idle \in Req /\ Idle.step = "idle"
BY DEF Idle, Req, Steps

LEMMA CatalogInit == Init => CatalogInv
<1> SUFFICES ASSUME Init PROVE CatalogInv
  OBVIOUS
<1>1. DOMAIN hosts = {} /\ hosts \in [DOMAIN hosts -> Host]
  BY DEF Init
<1>2. request \in [Requests -> Req] /\ \A r \in Requests : request[r].step = "idle"
  BY IdleReq DEF Init
<1>3. CatalogTyped
  BY <1>1, <1>2, FS_EmptySet, CatalogAssumption DEF Init, CatalogTyped, Booting
<1>4. Pooled /\ Numbered /\ Booted
  BY <1>1, <1>2 DEF Init, Pooled, Numbered, Booted, Booting, Puts, HostSteps
<1> QED
  BY <1>3, <1>4 DEF CatalogInv

(* Requests are under way only while the process serves them.                *)
LEMMA RequestsServed ==
    ASSUME CatalogInv, NEW r \in Requests, request[r].step # "idle"
    PROVE  Serving
BY IdleReq DEF CatalogInv, Booted

(* As long as it does, it does not start.                                    *)
LEMMA StaysBooted ==
    ASSUME Serving, UNCHANGED startup
    PROVE  Booted'
BY DEF Serving, Booted

(* The number made up for a pool is greater than those in use.               *)
LEMMA NextPriorityFree ==
    ASSUME CatalogTyped, NEW p \in Pools
    PROVE  NextPriority(p) \in Int /\ ~Taken(Plain(p), NextPriority(p), DOMAIN hosts)
<1> DEFINE used == {hosts[h].priority : h \in {g \in DOMAIN hosts : hosts[g].name = Plain(p)}}
<1>1. used \in SUBSET Int
  BY DEF CatalogTyped, Host
<1>2. IsFiniteSet(used)
  <2> DEFINE plain == {g \in DOMAIN hosts : hosts[g].name = Plain(p)}
  <2>1. IsFiniteSet(plain)
    BY FS_Subset DEF CatalogTyped
  <2>3. [g \in plain |-> hosts[g].priority] \in Surjection(plain, used)
    BY DEF Surjection
  <2> HIDE DEF plain, used
  <2> QED
    BY <2>1, <2>3, FS_Surjection
<1>3. \A h \in DOMAIN hosts : hosts[h].name = Plain(p) => hosts[h].priority \in used
  OBVIOUS
<1>4. NextPriority(p) = IF used = {} THEN 1 ELSE Max(used) + 1
  BY DEF NextPriority
<1> HIDE DEF used
<1>5. CASE used = {}
  BY <1>3, <1>4, <1>5 DEF Taken
<1>6. CASE used # {}
  <2>1. Max(used) \in used /\ \A x \in used : x <= Max(used)
    BY <1>1, <1>2, <1>6, GreatestExists
  <2>3. Max(used) \in Int /\ NextPriority(p) = Max(used) + 1
    BY <1>1, <1>4, <1>6, <2>1
  <2>4. \A x \in used : x \in Int
    BY <1>1
  <2>2. NextPriority(p) \in Int /\ NextPriority(p) \notin used
    BY <2>1, <2>3, <2>4
  <2> QED
    BY <1>3, <2>2 DEF Taken
<1> QED
  BY <1>5, <1>6

-----------------------------------------------------------------------------
(* A request begins: it puts a host into a pool it has found, or it wants    *)
(* to create a pool, or to delete one it has found empty.                    *)
LEMMA BeginHost ==
    ASSUME CatalogInv, NEW r \in Requests, NEW step \in HostSteps, NEW name \in HostName \cup {NoName},
           NEW k \in Int, NEW id \in Ids \cup {0},
           step # "append", step # "update" => name \in Spellings,
           name \in Spellings => poolExists(name),
           Begin(r, step, name, k, id), WritesHost(name),
           UNCHANGED <<pools, hosts, born, startup>>
    PROVE  CatalogInv'
<1> DEFINE q == [step |-> step, name |-> name, priority |-> k, id |-> id]
<1>1. q \in Req /\ q.step = step /\ q.name = name /\ q.priority = k /\ q.id = id
  BY DEF Req, Steps
<1> HIDE DEF q
<1>2. request' \in [Requests -> Req] /\ request'[r] = q
      /\ \A o \in Requests \ {r} : request'[o] = request[o]
  BY <1>1 DEF Begin, CatalogInv, CatalogTyped, q
<1>3. request[r].step = "idle"
  BY IdleReq DEF Begin
<1>4. /\ poolRaced' \in BOOLEAN /\ hostsRaced' \in BOOLEAN
      /\ ~poolRaced' => ~poolRaced /\ (name \in Spellings => Drops(name.pool) = {})
      /\ ~hostsRaced' => ~hostsRaced /\ \A o \in Requests : request[o].step \notin HostSteps
  BY DEF WritesHost, CatalogInv, CatalogTyped
<1>5. CatalogTyped'
  BY <1>1, <1>2, <1>4 DEF CatalogInv, CatalogTyped
<1>6. Pooled'
  <2> SUFFICES ASSUME ~poolRaced' PROVE Pooled'
    BY DEF Pooled
  <2>1. Pooled /\ ~poolRaced /\ (name \in Spellings => Drops(name.pool) = {})
    BY <1>4 DEF CatalogInv
  <2>2. \A o \in Requests, p \in Pools : Puts(request'[o], p) => p \in pools
    BY <1>1, <1>2, <2>1 DEF Pooled, Puts, poolExists
  <2>3. q.step # "droppool"
    BY <1>1 DEF HostSteps
  <2>4. ASSUME NEW o \in Requests, request'[o].step = "droppool",
               NEW w \in Requests, Puts(request'[w], request'[o].name.pool)
        PROVE  FALSE
    <3>1. o # r /\ request[o].step = "droppool"
      BY <1>2, <2>3, <2>4
    <3>2. w = r
      BY <1>2, <2>1, <2>4, <3>1 DEF Pooled
    <3> QED
      BY <1>1, <1>2, <2>1, <2>4, <3>1, <3>2 DEF Puts, Drops
  <2>5. \A o \in Requests : request'[o].step = "droppool" => EmptyPool(request'[o].name.pool)
    BY <1>2, <2>1, <2>3 DEF Pooled
  <2> QED
    BY <2>1, <2>2, <2>4, <2>5 DEF Pooled, EmptyPool
<1>7. Numbered'
  <2>1. ~hostsRaced' => \A o \in Requests \ {r} : request'[o].step \notin HostSteps
    BY <1>2, <1>4
  <2>2. request'[r].step # "append" /\ "append" \in HostSteps
    BY <1>1, <1>2 DEF HostSteps
  <2> QED
    BY <2>1, <2>2 DEF Numbered
<1>8. Booted'
  BY StaysBooted DEF Begin
<1> QED
  BY <1>5, <1>6, <1>7, <1>8 DEF CatalogInv

LEMMA BeginPool ==
    ASSUME CatalogInv, NEW r \in Requests, NEW p \in Pools, CheckNewPool(r, p) \/ CheckDropPool(r, p)
    PROVE  CatalogInv'
<1> DEFINE made(s) == [step |-> s, name |-> Plain(p), priority |-> 0, id |-> 0]
<1>0. \/ Begin(r, "newpool", Plain(p), 0, 0) /\ CheckNewPool(r, p)
      \/ Begin(r, "droppool", Plain(p), 0, 0) /\ CheckDropPool(r, p)
  BY DEF CheckNewPool, CheckDropPool
<1>1. PICK q \in {made("newpool"), made("droppool")} :
         /\ request' = [request EXCEPT ![r] = q]
         /\ q.step = "droppool" => CheckDropPool(r, p)
  BY <1>0 DEF Begin
<1>2. q \in Req /\ q.step \notin HostSteps /\ q.name.pool = p /\ q.name = Plain(p)
  BY <1>1, Names DEF Req, Steps, HostSteps, HostName
<1>3. request' \in [Requests -> Req] /\ request'[r] = q
      /\ \A o \in Requests \ {r} : request'[o] = request[o]
  BY <1>1, <1>2 DEF CatalogInv, CatalogTyped
<1>4. /\ poolRaced' \in BOOLEAN /\ UNCHANGED <<pools, hosts, born, startup, hostsRaced>>
      /\ ~poolRaced' => ~poolRaced
      /\ ~poolRaced' /\ q.step = "droppool" => PutsInto(p) = {} /\ EmptyPool(p)
  BY <1>1 DEF CheckNewPool, CheckDropPool, CatalogInv, CatalogTyped
<1>5. CatalogTyped'
  BY <1>2, <1>3, <1>4 DEF CatalogInv, CatalogTyped, HostSteps
<1>6. Pooled'
  <2> SUFFICES ASSUME ~poolRaced' PROVE Pooled'
    BY DEF Pooled
  <2>1. Pooled /\ ~poolRaced
    BY <1>4 DEF CatalogInv
  <2>2. \A o \in Requests : \A c : Puts(request'[o], c) => o # r /\ Puts(request[o], c)
    BY <1>2, <1>3 DEF Puts
  <2>3. ASSUME q.step = "droppool"
        PROVE  EmptyPool(p) /\ \A o \in Requests : ~Puts(request[o], p)
    BY <1>4, <2>3 DEF PutsInto, Puts
  <2>4. \A o \in Requests, c \in Pools : Puts(request'[o], c) => c \in pools
    BY <2>1, <2>2 DEF Pooled
  <2>5. \A o \in Requests : request'[o].step = "droppool" =>
           /\ EmptyPool(request'[o].name.pool)
           /\ \A w \in Requests : ~Puts(request'[w], request'[o].name.pool)
    BY <1>2, <1>3, <2>1, <2>2, <2>3 DEF Pooled
  <2> QED
    BY <1>4, <2>1, <2>4, <2>5 DEF Pooled, EmptyPool
<1>7. Numbered'
  BY <1>2, <1>3, <1>4 DEF CatalogInv, Numbered, Taken, HostSteps
<1>8. Booted'
  BY <1>0, <1>4, StaysBooted DEF Begin
<1> QED
  BY <1>5, <1>6, <1>7, <1>8 DEF CatalogInv

LEMMA NumberInv ==
    ASSUME CatalogInv, NEW r \in Requests, NumberHost(r)
    PROVE  CatalogInv'
<1> DEFINE p == request[r].name.pool
           q == [request[r] EXCEPT !.step = "append", !.priority = NextPriority(p)]
<1>1. request[r] \in Req /\ request[r].step = "number" /\ request[r].name \in Spellings
  BY DEF NumberHost, CatalogInv, CatalogTyped
<1>2. p \in Pools /\ NextPriority(p) \in Int
      /\ ~Taken(Plain(p), NextPriority(p), DOMAIN hosts)
  BY <1>1, Names, NextPriorityFree DEF CatalogInv
<1>3. q \in Req /\ q.step = "append" /\ q.name = request[r].name /\ q.priority = NextPriority(p)
  BY <1>1, <1>2 DEF Req, Steps, HostSteps
<1>4. request' \in [Requests -> Req] /\ request'[r] = q
      /\ \A o \in Requests \ {r} : request'[o] = request[o]
  BY <1>3 DEF NumberHost, CatalogInv, CatalogTyped
<1>10. UNCHANGED <<pools, hosts, born, startup, poolRaced, hostsRaced>>
  BY DEF NumberHost
<1>12. Booted'
  BY <1>1, <1>10, RequestsServed, StaysBooted
<1>11. request'[r].name \in Spellings
  BY <1>1, <1>3, <1>4
<1> HIDE DEF q, p
<1>5. CatalogTyped'
  BY <1>4, <1>10, <1>11 DEF CatalogInv, CatalogTyped
<1>6. \A o \in Requests :
         /\ request'[o].step \in HostSteps => request[o].step \in HostSteps
         /\ request'[o].name = request[o].name
         /\ request'[o].step = "droppool" => request[o].step = "droppool"
  BY <1>1, <1>3, <1>4 DEF HostSteps
<1>9. \A o \in Requests : \A c : Puts(request'[o], c) => Puts(request[o], c)
  BY <1>6 DEF Puts
<1>7. Pooled'
  <2>1. Pooled
    BY DEF CatalogInv
  <2> QED
    BY <1>6, <1>9, <1>10, <2>1 DEF Pooled, EmptyPool
<1>8. Numbered'
  <2>1. q.name.blanks = "none" => q.name = Plain(p)
    BY <1>1, <1>3, Names DEF HostName, p
  <2>2. \A n, k : Taken(n, k, DOMAIN hosts)' <=> Taken(n, k, DOMAIN hosts)
    BY <1>10 DEF Taken
  <2>3. q.name.blanks = "none" => ~Taken(q.name, q.priority, DOMAIN hosts)
    BY <1>2, <1>3, <2>1
  <2> QED
    BY <1>3, <1>4, <1>6, <1>10, <2>2, <2>3 DEF CatalogInv, Numbered
<1> QED
  BY <1>5, <1>7, <1>8, <1>12 DEF CatalogInv

-----------------------------------------------------------------------------
(* A request ends.                                                           *)
LEMMA Ends ==
    ASSUME CatalogInv, NEW r \in Requests, End(r)
    PROVE  /\ request' \in [Requests -> Req]
           /\ \A o \in Requests : request'[o].step # "idle" =>
                 o # r /\ request'[o] = request[o]
           /\ \A o \in Requests : \A c : Puts(request'[o], c) => o # r /\ Puts(request[o], c)
<1>1. request' \in [Requests -> Req] /\ request'[r].step = "idle"
      /\ \A o \in Requests \ {r} : request'[o] = request[o]
  BY IdleReq DEF End, CatalogInv, CatalogTyped
<1> QED
  BY <1>1 DEF Puts, HostSteps

(* One host is written under a name the request of r has, or keeps the name  *)
(* it had.                                                                   *)
LEMMA WriteHost ==
    ASSUME CatalogInv, NEW r \in Requests, End(r), request[r].step \in HostSteps,
           UNCHANGED <<pools, startup, poolRaced, hostsRaced>>,
           born' \in SUBSET Ids, DOMAIN hosts' \subseteq born',
           hosts' \in [DOMAIN hosts' -> Host], IsFiniteSet(DOMAIN hosts'),
           \A h \in DOMAIN hosts' :
              \/ h \in DOMAIN hosts /\ hosts'[h].name = hosts[h].name
              \/ hosts'[h].name = request[r].name
    PROVE  CatalogInv'
<1>1. CatalogTyped'
  BY Ends DEF CatalogInv, CatalogTyped
<1>2. Pooled'
  <2> SUFFICES ASSUME ~poolRaced' PROVE Pooled'
    BY DEF Pooled
  <2>1. Pooled /\ ~poolRaced
    BY DEF CatalogInv
  <2>2. \A c \in Pools : request[r].name = Plain(c) => Puts(request[r], c)
    BY Names DEF Puts
  <2>3. ASSUME NEW h \in DOMAIN hosts', hosts'[h].name.blanks = "none"
        PROVE  hosts'[h].name.pool \in pools
    <3>1. hosts'[h].name \in HostName
      BY DEF Host
    <3>2. hosts'[h].name = Plain(hosts'[h].name.pool) /\ hosts'[h].name.pool \in Pools
      BY <2>3, <3>1, Names
    <3> QED
      BY <2>1, <2>2, <2>3, <3>2 DEF Pooled
  <2>4. ASSUME NEW o \in Requests, request'[o].step = "droppool"
        PROVE  /\ \A h \in DOMAIN hosts' : hosts'[h].name # Plain(request'[o].name.pool)
               /\ \A w \in Requests : ~Puts(request'[w], request'[o].name.pool)
    <3>1. request'[o] = request[o] /\ request[o].step = "droppool"
          /\ request[o].name.pool \in Pools
      BY <2>4, Ends, Names, CatalogAssumption
         DEF CatalogInv, CatalogTyped, Req, HostName, Spellings, BlankName, NoName
    <3>2. EmptyPool(request[o].name.pool)
          /\ \A w \in Requests : ~Puts(request[w], request[o].name.pool)
      BY <2>1, <3>1 DEF Pooled
    <3>3. \A h \in DOMAIN hosts' : hosts'[h].name # Plain(request[o].name.pool)
      BY <2>2, <3>1, <3>2 DEF EmptyPool
    <3>4. ASSUME NEW w \in Requests, Puts(request'[w], request[o].name.pool)
          PROVE  FALSE
      <4>1. Puts(request[w], request[o].name.pool)
        BY <3>4, Ends
      <4> QED
        BY <3>2, <4>1
    <3> QED
      BY <3>1, <3>3, <3>4
  <2>5. \A o \in Requests, c \in Pools : Puts(request'[o], c) => c \in pools
    BY <2>1, Ends DEF Pooled
  <2> QED
    BY <2>3, <2>4, <2>5 DEF Pooled, EmptyPool
<1>3. Numbered'
  <2>1. ~hostsRaced => \A o \in Requests : request'[o].step \notin HostSteps
    BY Ends DEF CatalogInv, Numbered, HostSteps
  <2>2. "append" \in HostSteps
    BY DEF HostSteps
  <2> QED
    BY <2>1, <2>2 DEF Numbered
<1>4. Booted'
  BY RequestsServed, StaysBooted DEF HostSteps
<1> QED
  BY <1>1, <1>2, <1>3, <1>4 DEF CatalogInv

LEMMA InsertInv ==
    ASSUME CatalogInv, NEW r \in Requests, InsertHost(r)
    PROVE  CatalogInv'
<1> DEFINE q == request[r]
           row == [name |-> q.name, priority |-> q.priority]
<1>1. /\ q \in Req /\ q.step \in HostSteps /\ q.name \in Spellings
      /\ End(r) /\ UNCHANGED <<pools, startup, poolRaced, hostsRaced>>
  BY DEF InsertHost, CatalogInv, CatalogTyped, HostSteps
<1>2. row \in Host /\ row.name = q.name
  BY <1>1 DEF Req, Host, HostName
<1> HIDE DEF row
<1>3. ASSUME NEW id \in Ids \ born, born' = born \cup {id},
             hosts' = [h \in DOMAIN hosts \cup {id} |-> IF h = id THEN row ELSE hosts[h]]
      PROVE  CatalogInv'
  <2>1. /\ DOMAIN hosts' = DOMAIN hosts \cup {id} /\ hosts'[id] = row
        /\ \A h \in DOMAIN hosts : hosts'[h] = hosts[h]
    BY <1>3 DEF CatalogInv, CatalogTyped
  <2>2. hosts' \in [DOMAIN hosts' -> Host] /\ IsFiniteSet(DOMAIN hosts')
    BY <1>2, <1>3, <2>1, FS_AddElement DEF CatalogInv, CatalogTyped
  <2>3. born' \in SUBSET Ids /\ DOMAIN hosts' \subseteq born'
    BY <1>3, <2>1 DEF CatalogInv, CatalogTyped
  <2> QED
    BY <1>1, <1>2, <2>1, <2>2, <2>3, WriteHost
<1>4. CASE UNCHANGED <<born, hosts>>
  <2>1. /\ born' \in SUBSET Ids /\ DOMAIN hosts' \subseteq born'
        /\ hosts' \in [DOMAIN hosts' -> Host] /\ IsFiniteSet(DOMAIN hosts')
    BY <1>4 DEF CatalogInv, CatalogTyped
  <2> QED
    BY <1>1, <1>4, <2>1, WriteHost
<1> QED
  BY <1>3, <1>4 DEF InsertHost, row

LEMMA UpdateInv ==
    ASSUME CatalogInv, NEW r \in Requests, WriteUpdate(r)
    PROVE  CatalogInv'
<1> DEFINE q == request[r]
           row == Merged(q.id, q)
<1>1. /\ q \in Req /\ q.step \in HostSteps
      /\ End(r) /\ UNCHANGED <<pools, born, startup, poolRaced, hostsRaced>>
  BY DEF WriteUpdate, CatalogInv, CatalogTyped, HostSteps
<1>2. CASE q.id \in DOMAIN hosts /\ hosts' = [hosts EXCEPT ![q.id] = row]
  <2>1. hosts[q.id] \in Host
    BY <1>2 DEF CatalogInv, CatalogTyped
  <2>2. row \in Host /\ (row.name = q.name \/ row.name = hosts[q.id].name)
    BY <1>1, <2>1 DEF Merged, Host, Req
  <2> HIDE DEF row
  <2>3. /\ DOMAIN hosts' = DOMAIN hosts /\ hosts'[q.id] = row
        /\ \A h \in DOMAIN hosts \ {q.id} : hosts'[h] = hosts[h]
        /\ hosts' \in [DOMAIN hosts' -> Host]
    BY <1>2, <2>2 DEF CatalogInv, CatalogTyped
  <2>4. born' \in SUBSET Ids /\ DOMAIN hosts' \subseteq born' /\ IsFiniteSet(DOMAIN hosts')
    BY <1>1, <2>3 DEF CatalogInv, CatalogTyped
  <2>5. \A h \in DOMAIN hosts' : \/ h \in DOMAIN hosts /\ hosts'[h].name = hosts[h].name
                                \/ hosts'[h].name = q.name
    BY <1>2, <2>2, <2>3
  <2> QED
    BY <1>1, <2>3, <2>4, <2>5, WriteHost
<1>3. CASE hosts' = hosts
  <2>1. /\ born' \in SUBSET Ids /\ DOMAIN hosts' \subseteq born'
        /\ hosts' \in [DOMAIN hosts' -> Host] /\ IsFiniteSet(DOMAIN hosts')
    BY <1>1, <1>3 DEF CatalogInv, CatalogTyped
  <2> QED
    BY <1>1, <1>3, <2>1, WriteHost
<1> QED
  BY <1>2, <1>3 DEF WriteUpdate

LEMMA DeleteHostInv ==
    ASSUME CatalogInv, NEW id \in Ids, DeleteHost(id)
    PROVE  CatalogInv'
<1>1. /\ DOMAIN hosts' = DOMAIN hosts \ {id}
      /\ \A h \in DOMAIN hosts' : hosts'[h] = hosts[h]
      /\ hosts' = [h \in DOMAIN hosts \ {id} |-> hosts[h]]
  BY DEF DeleteHost, Restrict
<1>2. hosts' \in [DOMAIN hosts' -> Host] /\ IsFiniteSet(DOMAIN hosts')
  BY <1>1, FS_RemoveElement DEF CatalogInv, CatalogTyped
<1>3. UNCHANGED <<pools, born, request, startup, poolRaced, hostsRaced>>
  BY DEF DeleteHost
<1>4. CatalogTyped'
  BY <1>1, <1>2, <1>3 DEF CatalogInv, CatalogTyped
<1>5. Pooled'
  BY <1>1, <1>3 DEF CatalogInv, Pooled, EmptyPool, Puts
<1>6. \A n, k : Taken(n, k, DOMAIN hosts)' => Taken(n, k, DOMAIN hosts)
  BY <1>1 DEF Taken
<1>7. Numbered'
  BY <1>3, <1>6 DEF CatalogInv, Numbered
<1>8. Booted'
  BY <1>3, StaysBooted DEF DeleteHost
<1> QED
  BY <1>4, <1>5, <1>7, <1>8 DEF CatalogInv

(* A request ends, and may have written the pools; or it is the start that   *)
(* writes them.                                                              *)
LEMMA PoolsWritten ==
    ASSUME CatalogInv, pools' \in SUBSET Pools, UNCHANGED <<hosts, born, poolRaced, hostsRaced>>,
           startup' \in [step : {"default", "list", "names", "serving"},
                         todo : SUBSET Pools, missed : SUBSET Pools],
           Booted',
           request' \in [Requests -> Req],
           \A o \in Requests : request'[o].step # "idle" => request'[o] = request[o],
           ~poolRaced =>
              /\ \A h \in DOMAIN hosts :
                    hosts[h].name.blanks = "none" => hosts[h].name.pool \in pools'
              /\ \A o \in Requests, p \in Pools : Puts(request'[o], p) => p \in pools'
    PROVE  CatalogInv'
<1>1. "idle" \notin HostSteps /\ {"number", "append", "insert"} \subseteq HostSteps
  BY DEF HostSteps
<1>2. CatalogTyped'
  BY <1>1 DEF CatalogInv, CatalogTyped
<1>3. \A o \in Requests : \A c : Puts(request'[o], c) => Puts(request[o], c)
  BY <1>1 DEF Puts
<1>4. \A o \in Requests : request'[o].step = "droppool" =>
         request[o].step = "droppool" /\ request'[o].name = request[o].name
  OBVIOUS
<1>5. Pooled'
  <2> SUFFICES ASSUME ~poolRaced' PROVE Pooled'
    BY DEF Pooled
  <2>1. Pooled /\ ~poolRaced
    BY DEF CatalogInv
  <2> QED
    BY <1>3, <1>4, <2>1 DEF Pooled, EmptyPool
<1>6. \A n, k : Taken(n, k, DOMAIN hosts)' <=> Taken(n, k, DOMAIN hosts)
  BY DEF Taken
<1>7. Numbered'
  BY <1>1, <1>6 DEF CatalogInv, Numbered
<1> QED
  BY <1>2, <1>5, <1>7 DEF CatalogInv

LEMMA RequestFailsInv ==
    ASSUME CatalogInv, NEW r \in Requests, RequestFails(r)
    PROVE  CatalogInv'
<1>1. End(r) /\ UNCHANGED <<pools, hosts, born, startup, poolRaced, hostsRaced>>
  BY DEF RequestFails
<1>2. Serving
  BY DEF CatalogInv, Booted, RequestFails
<1>3. Booted' /\ startup' \in [step : {"default", "list", "names", "serving"},
                              todo : SUBSET Pools, missed : SUBSET Pools]
  BY <1>1, <1>2, StaysBooted DEF CatalogInv, CatalogTyped
<1>4. ~poolRaced =>
         /\ \A h \in DOMAIN hosts :
               hosts[h].name.blanks = "none" => hosts[h].name.pool \in pools'
         /\ \A o \in Requests, p \in Pools : Puts(request'[o], p) => p \in pools'
  BY <1>1, Ends DEF CatalogInv, Pooled
<1> QED
  BY <1>1, <1>3, <1>4, Ends, PoolsWritten DEF CatalogInv, CatalogTyped

LEMMA InsertPoolInv ==
    ASSUME CatalogInv, NEW r \in Requests, InsertPool(r)
    PROVE  CatalogInv'
<1>1. pools' = pools \cup {request[r].name.pool} /\ End(r)
      /\ UNCHANGED <<hosts, born, startup, poolRaced, hostsRaced>>
  BY DEF InsertPool
<1>4. Booted' /\ startup' \in [step : {"default", "list", "names", "serving"},
                              todo : SUBSET Pools, missed : SUBSET Pools]
  BY <1>1, RequestsServed, StaysBooted DEF InsertPool, CatalogInv, CatalogTyped
<1>2. pools' \in SUBSET Pools
  BY <1>1, CatalogAssumption
     DEF CatalogInv, CatalogTyped, Req, HostName, Spellings, BlankName, NoName
<1>3. ~poolRaced =>
         /\ \A h \in DOMAIN hosts :
               hosts[h].name.blanks = "none" => hosts[h].name.pool \in pools'
         /\ \A o \in Requests, p \in Pools : Puts(request'[o], p) => p \in pools'
  BY <1>1, Ends DEF CatalogInv, Pooled
<1> QED
  BY <1>1, <1>2, <1>3, <1>4, Ends, PoolsWritten

LEMMA RemovePoolInv ==
    ASSUME CatalogInv, NEW r \in Requests, RemovePool(r)
    PROVE  CatalogInv'
<1> DEFINE p == request[r].name.pool
<1>1. pools' = pools \ {p} /\ End(r) /\ request[r].step = "droppool"
      /\ UNCHANGED <<hosts, born, startup, poolRaced, hostsRaced>>
  BY DEF RemovePool
<1>4. Booted' /\ startup' \in [step : {"default", "list", "names", "serving"},
                              todo : SUBSET Pools, missed : SUBSET Pools]
  BY <1>1, RequestsServed, StaysBooted DEF CatalogInv, CatalogTyped
<1>2. pools' \in SUBSET Pools
  BY <1>1 DEF CatalogInv, CatalogTyped
<1>3. ASSUME ~poolRaced
      PROVE  /\ \A h \in DOMAIN hosts :
                   hosts[h].name.blanks = "none" => hosts[h].name.pool \in pools'
             /\ \A o \in Requests, c \in Pools : Puts(request'[o], c) => c \in pools'
  <2>1. Pooled /\ EmptyPool(p) /\ \A o \in Requests : ~Puts(request[o], p)
    BY <1>1, <1>3 DEF CatalogInv, Pooled
  <2>2. ASSUME NEW h \in DOMAIN hosts, hosts[h].name.blanks = "none"
        PROVE  hosts[h].name.pool # p
    <3>1. hosts[h].name = Plain(hosts[h].name.pool)
      BY <2>2, Names DEF CatalogInv, CatalogTyped, Host
    <3> QED
      BY <2>1, <3>1 DEF EmptyPool
  <2>3. \A h \in DOMAIN hosts :
           hosts[h].name.blanks = "none" => hosts[h].name.pool \in pools'
    BY <1>1, <1>3, <2>1, <2>2 DEF Pooled
  <2>4. \A o \in Requests, c \in Pools : Puts(request'[o], c) => c \in pools /\ c # p
    BY <1>1, <1>3, <2>1, Ends DEF Pooled
  <2> QED
    BY <1>1, <2>3, <2>4
<1> QED
  BY <1>1, <1>2, <1>3, <1>4, Ends, PoolsWritten

-----------------------------------------------------------------------------
(* The start of the process.                                                 *)

LEMMA RestartInv ==
    ASSUME CatalogInv, Restart
    PROVE  CatalogInv'
<1>1. request' \in [Requests -> Req] /\ \A o \in Requests : request'[o] = Idle
  BY IdleReq DEF Restart
<1>2. \A o \in Requests : request'[o].step = "idle"
  BY <1>1, IdleReq
<1>3. CatalogTyped'
  BY <1>1, <1>2 DEF Restart, Booting, CatalogInv, CatalogTyped
<1>4. Pooled' /\ Numbered'
  BY <1>2 DEF Restart, CatalogInv, Pooled, Numbered, Puts, HostSteps
<1>5. Booted'
  BY <1>1 DEF Restart, Booting, Booted
<1> QED
  BY <1>3, <1>4, <1>5 DEF CatalogInv

(* While the process starts, no request is under way.                        *)
LEMMA StartingIdle ==
    ASSUME CatalogInv, startup.step # "serving", UNCHANGED request
    PROVE  /\ \A r \in Requests : request[r] = Idle /\ request'[r] = Idle
           /\ request' \in [Requests -> Req]
           /\ \A o \in Requests : request'[o].step = "idle"
BY IdleReq DEF CatalogInv, CatalogTyped, Booted, Serving

(* A pool is put back, or its turn passes.                                   *)
LEMMA PutBackInv ==
    ASSUME CatalogInv, startup.step # "serving", NEW p \in Pools, NEW next,
           next \in [step : {"list", "names"}, todo : SUBSET Pools, missed : SUBSET Pools],
           next.step = "names" => startup.step = "names" /\ startup.todo \subseteq next.todo \cup {p},
           next.missed = startup.missed,
           PutBack(p, next)
    PROVE  CatalogInv'
<1>1. PICK m \in SUBSET Pools :
         /\ startup' = [next EXCEPT !.missed = m]
         /\ startup.missed \subseteq m \cup {p}
         /\ pools' = pools \cup {p} \/ (pools' = pools /\ p \in m)
  <2>1. next.missed \cup {p} \in SUBSET Pools /\ next.missed \ {p} \in SUBSET Pools
    OBVIOUS
  <2> QED
    BY <2>1 DEF PutBack
<1>2. UNCHANGED <<hosts, born, request, poolRaced, hostsRaced>>
  BY DEF PutBack
<1>3. /\ startup' \in [step : {"default", "list", "names", "serving"},
                        todo : SUBSET Pools, missed : SUBSET Pools]
      /\ startup'.step = next.step /\ startup'.todo = next.todo /\ startup'.missed = m
  BY <1>1
<1>4. pools \subseteq pools' /\ pools' \in SUBSET Pools
  BY <1>1 DEF CatalogInv, CatalogTyped
<1>5. Booted'
  <2>1. \A r \in Requests : request'[r] = Idle
    BY <1>2, StartingIdle
  <2>2. ASSUME startup'.step = "names", NEW h \in DOMAIN hosts', hosts'[h].name \in Spellings
        PROVE  hosts'[h].name.pool \in pools' \cup startup'.todo \cup startup'.missed
    <3>1. hosts[h].name.pool \in pools \cup startup.todo \cup startup.missed
      BY <1>2, <1>3, <2>2 DEF CatalogInv, Booted
    <3> QED
      BY <1>1, <1>2, <1>3, <1>4, <2>2, <3>1
  <2> QED
    BY <2>1, <2>2 DEF Booted
<1>6. ~poolRaced =>
         /\ \A h \in DOMAIN hosts :
               hosts[h].name.blanks = "none" => hosts[h].name.pool \in pools'
         /\ \A o \in Requests, c \in Pools : Puts(request'[o], c) => c \in pools'
  BY <1>2, <1>4, StartingIdle DEF CatalogInv, Pooled, Puts, HostSteps
<1> QED
  BY <1>2, <1>3, <1>4, <1>5, <1>6, StartingIdle, PoolsWritten

LEMMA EnsureDefaultInv ==
    ASSUME CatalogInv, EnsureDefault
    PROVE  CatalogInv'
<1> DEFINE next == [startup EXCEPT !.step = "list"]
<1>1. /\ next \in [step : {"list", "names"}, todo : SUBSET Pools, missed : SUBSET Pools]
      /\ next.step = "list" /\ next.missed = startup.missed
  BY DEF CatalogInv, CatalogTyped
<1>2. PutBack(Default, next) /\ startup.step # "serving" /\ Default \in Pools
  BY CatalogAssumption DEF EnsureDefault
<1> HIDE DEF next
<1> QED
  BY <1>1, <1>2, PutBackInv

LEMMA SyncPoolInv ==
    ASSUME CatalogInv, NEW p \in Pools, SyncPool(p)
    PROVE  CatalogInv'
<1> DEFINE next == [startup EXCEPT !.todo = @ \ {p}]
<1>1. /\ next \in [step : {"list", "names"}, todo : SUBSET Pools, missed : SUBSET Pools]
      /\ next.missed = startup.missed /\ next.todo = startup.todo \ {p}
  BY DEF CatalogInv, CatalogTyped, SyncPool
<1>2. PutBack(p, next) /\ startup.step = "names"
  BY DEF SyncPool
<1> HIDE DEF next
<1> QED
  BY <1>1, <1>2, PutBackInv

LEMMA ListNamesInv ==
    ASSUME CatalogInv, ListNames
    PROVE  CatalogInv'
<1>1. UNCHANGED <<pools, hosts, born, request, poolRaced, hostsRaced>>
      /\ startup.step = "list" /\ startup'.step = "names"
  BY DEF ListNames, CatalogInv, CatalogTyped
<1>2. NamesInUse \in SUBSET Pools
  BY Names DEF NamesInUse
<1>3. startup' \in [step : {"default", "list", "names", "serving"},
                    todo : SUBSET Pools, missed : SUBSET Pools]
      /\ (startup'.todo = NamesInUse \/ startup'.missed = Pools)
  BY <1>2 DEF ListNames, CatalogInv, CatalogTyped
<1>4. Booted'
  <2>1. \A r \in Requests : request'[r] = Idle
    BY <1>1, StartingIdle
  <2>2. \A h \in DOMAIN hosts : hosts[h].name \in Spellings =>
           hosts[h].name.pool \in NamesInUse /\ hosts[h].name.pool \in Pools
    BY Names DEF NamesInUse
  <2> QED
    BY <1>1, <1>3, <2>1, <2>2 DEF Booted
<1>5. ~poolRaced =>
         /\ \A h \in DOMAIN hosts :
               hosts[h].name.blanks = "none" => hosts[h].name.pool \in pools'
         /\ \A o \in Requests, c \in Pools : Puts(request'[o], c) => c \in pools'
  BY <1>1, StartingIdle DEF CatalogInv, Pooled, Puts, HostSteps
<1> QED
  BY <1>1, <1>3, <1>4, <1>5, StartingIdle, PoolsWritten DEF CatalogInv, CatalogTyped

(* When nothing was missed every host has its pool again, so that whatever   *)
(* raced before is repaired.                                                 *)
LEMMA ServeInv ==
    ASSUME CatalogInv, Serve
    PROVE  CatalogInv'
<1>1. UNCHANGED <<pools, hosts, born, request, hostsRaced>>
      /\ startup.step = "names" /\ startup.todo = {}
  BY DEF Serve
<1>2. \A o \in Requests : request'[o].step = "idle"
  BY <1>1, StartingIdle
<1>3. /\ startup' \in [step : {"default", "list", "names", "serving"},
                        todo : SUBSET Pools, missed : SUBSET Pools]
      /\ startup'.step = "serving"
      /\ poolRaced' \in BOOLEAN
      /\ ~poolRaced' => ~poolRaced \/ startup.missed = {}
  BY DEF Serve, CatalogInv, CatalogTyped
<1>4. CatalogTyped'
  BY <1>1, <1>2, <1>3 DEF CatalogInv, CatalogTyped
<1>5. Booted'
  BY <1>3 DEF Booted, Serving
<1>6. Numbered'
  BY <1>1, <1>2 DEF Numbered, HostSteps
<1>7. Pooled'
  <2> SUFFICES ASSUME ~poolRaced' PROVE Pooled'
    BY DEF Pooled
  <2>1. ASSUME NEW h \in DOMAIN hosts, hosts[h].name.blanks = "none"
        PROVE  hosts[h].name.pool \in pools
    <3>1. CASE ~poolRaced
      BY <2>1, <3>1 DEF CatalogInv, Pooled
    <3>2. CASE startup.missed = {}
      <4>1. hosts[h].name \in Spellings
        BY <2>1, Names DEF CatalogInv, CatalogTyped, Host
      <4> QED
        BY <1>1, <3>2, <4>1 DEF CatalogInv, Booted
    <3> QED
      BY <1>3, <3>1, <3>2
  <2> QED
    BY <1>1, <1>2, <2>1 DEF Pooled, Puts, HostSteps
<1> QED
  BY <1>4, <1>5, <1>6, <1>7 DEF CatalogInv

LEMMA CatalogStep == CatalogInv /\ [Next]_vars => CatalogInv'
<1> SUFFICES ASSUME CatalogInv, [Next]_vars PROVE CatalogInv'
  OBVIOUS
<1>1. CASE UNCHANGED vars
  <2>1. UNCHANGED <<pools, hosts, born, request, startup, poolRaced, hostsRaced>>
    BY <1>1 DEF vars
  <2>2. \A n, k : Taken(n, k, DOMAIN hosts)' <=> Taken(n, k, DOMAIN hosts)
    BY <2>1 DEF Taken
  <2> QED
    BY <2>1, <2>2 DEF CatalogInv, CatalogTyped, Pooled, Numbered, Booted, Serving,
                     EmptyPool, Puts
<1>2. ASSUME NEW r \in Requests, NEW n \in Spellings, NEW k \in Priorities,
             CheckNewHost(r, n, k)
      PROVE  CatalogInv'
  <2>1. k \in Int /\ n \in HostName
    BY CatalogAssumption DEF HostName
  <2>2. Begin(r, "number", n, k, 0) \/ Begin(r, "insert", n, k, 0)
    BY <1>2 DEF CheckNewHost
  <2>3. {"number", "insert"} \subseteq HostSteps
    BY DEF HostSteps
  <2> QED
    BY <1>2, <2>1, <2>2, <2>3, BeginHost DEF CheckNewHost
<1>3. ASSUME NEW r \in Requests, NEW id \in Ids, NEW k \in Priorities,
             NEW n \in Spellings \cup {BlankName, NoName}, CheckUpdate(r, id, n, k)
      PROVE  CatalogInv'
  <2>1. k \in Int /\ n \in HostName \cup {NoName} /\ "update" \in HostSteps
    BY CatalogAssumption DEF HostName, HostSteps
  <2> QED
    BY <1>3, <2>1, BeginHost DEF CheckUpdate
<1>4. ASSUME NEW r \in Requests, Handle(r) PROVE CatalogInv'
  BY <1>2, <1>3, <1>4, NumberInv, InsertInv, UpdateInv, BeginPool, InsertPoolInv, RemovePoolInv,
     RequestFailsInv
     DEF Handle
<1> QED
  BY <1>1, <1>4, DeleteHostInv, RestartInv, EnsureDefaultInv, ListNamesInv, SyncPoolInv,
     ServeInv
     DEF Next

-----------------------------------------------------------------------------
(* The tables and the requests are always such as CatalogInv says.                  *)
THEOREM CatalogInvariant == Spec => []CatalogInv
<1> QED
  BY CatalogInit, CatalogStep, PTL DEF Spec

(* Unless two requests race for a pool, the pool of every host whose name is *)
(* spelled plainly exists (CreateHost, UpdateHost, DeletePool).              *)
THEOREM NoHostWithoutPool == Spec => []HostsHavePools
<1>1. CatalogInv => HostsHavePools
  BY DEF CatalogInv, Pooled, HostsHavePools
<1> QED
  BY <1>1, CatalogInvariant, PTL

(* Unless two requests write hosts at the same time, a priority that the     *)
(* panel has made up is never refused (CreateHost, nextPriorityForPool).     *)
THEOREM MadeUpPriorityAccepted == Spec => []MadeUpPriorityFree
<1>1. CatalogInv => MadeUpPriorityFree
  BY DEF CatalogInv, Numbered, MadeUpPriorityFree
<1> QED
  BY <1>1, CatalogInvariant, PTL

(* When a start has run its course every host has its pool, whatever has     *)
(* raced before and however often the start was cut short, except for a pool *)
(* whose own statement failed (ensureDefaultPool, syncPoolsFromHosts).       *)
THEOREM PoolsRestored == Spec => RestartHeals
<1> DEFINE Heals == ~Serving /\ Serving' =>
              \A h \in DOMAIN hosts' : hosts'[h].name \in Spellings =>
                 hosts'[h].name.pool \in pools' \cup startup.missed
<1>1. CatalogInv /\ [Next]_vars => [Heals]_vars
  <2> SUFFICES ASSUME CatalogInv, Next, ~Serving, Serving'
               PROVE  Heals
    OBVIOUS
  <2>1. CASE Serve
    <3>1. UNCHANGED <<pools, hosts>> /\ startup.step = "names" /\ startup.todo = {}
      BY <2>1 DEF Serve
    <3> QED
      BY <3>1 DEF CatalogInv, Booted
  <2>2. ASSUME ~Serve PROVE FALSE
    <3>1. \A r \in Requests : request[r] = Idle
      BY DEF CatalogInv, Booted
    <3>2. \A r \in Requests : request[r].step = "idle"
      BY <3>1, IdleReq
    <3>3. \A r \in Requests : ~Handle(r)
      BY <3>1, <3>2 DEF Handle, CheckNewHost, NumberHost, InsertHost, CheckUpdate, WriteUpdate,
                    CheckNewPool, CheckDropPool, InsertPool, RemovePool, RequestFails, Begin
    <3>4. \A id \in Ids : ~DeleteHost(id)
      BY DEF DeleteHost
    <3>5. \/ Restart \/ EnsureDefault \/ ListNames \/ (\E p \in Pools : SyncPool(p))
      BY <2>2, <3>3, <3>4 DEF Next
    <3>7. startup = [step |-> startup.step, todo |-> startup.todo, missed |-> startup.missed]
      BY DEF CatalogInv, CatalogTyped
    <3>8. CASE Restart
      BY <3>8 DEF Restart, Booting, Serving
    <3>9. CASE EnsureDefault
      BY <3>7, <3>9 DEF EnsureDefault, PutBack, Serving
    <3>10. CASE ListNames
      BY <3>7, <3>10 DEF ListNames, Serving
    <3>11. ASSUME NEW p \in Pools, SyncPool(p)
           PROVE  FALSE
      BY <3>7, <3>11 DEF SyncPool, PutBack, Serving
    <3> QED
      BY <3>5, <3>8, <3>9, <3>10, <3>11
  <2> QED
    BY <2>1, <2>2
<1> QED
  BY <1>1, CatalogInvariant, PTL DEF Spec, RestartHeals
================================================================================
