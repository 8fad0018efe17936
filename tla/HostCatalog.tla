----------------------------- MODULE HostCatalog -----------------------------
(* The tables pools and hosts under the handlers that maintain them          *)
(* (api/pools.go, api/hosts.go) and under a start of the process, which      *)
(* repairs the table of pools statement by statement before requests are     *)
(* served (database/dbcore/pool_seed.go) and may itself be cut short.  No    *)
(* handler uses a transaction: each runs its statements one by one, and      *)
(* those of other requests come in between.  A request that a check refuses  *)
(* changes nothing and is left out.                                          *)
EXTENDS Integers, FiniteSets, FiniteSetsExt, Functions

CONSTANTS
    Pools,          \* pool names, trimmed
    Default,        \* the pool "default"
    Ids,            \* ids hosts may get; autoincrement gives each once
    Requests,       \* requests that may be under way at once
    Priorities,     \* bound: the priorities requests ask for, 0 for none
    CatalogErrors   \* a statement may fail (a locked or full database)

ASSUME CatalogAssumption ==
    /\ Default \in Pools
    /\ Ids \subseteq Nat \ {0}
    /\ Priorities \subseteq Int /\ CatalogErrors \in BOOLEAN

(* A pool's name as a request spells it and table hosts keeps it: poolExists *)
(* and the numbering trim it, nothing else does.  UpdateHost also takes the  *)
(* empty name, which leaves the pool alone, and one of blanks only, which it *)
(* does not look up.                                                         *)
Spellings == [pool : Pools, blanks : {"none", "around"}]
Plain(p)  == [pool |-> p, blanks |-> "none"]
BlankName == [pool |-> Default, blanks |-> "only"]
NoName    == [pool |-> Default, blanks |-> "empty"]

VARIABLES
    pools,          \* rows of table pools
    hosts,          \* table hosts: [id -> [name, priority]]
    born,           \* ids given so far
    request,        \* what each request under way is about to do
    startup,        \* where the start of the process stands
    poolRaced,      \* observation: a pool was being deleted while a host was
                    \* being put into it, and no start has repaired that yet
    hostsRaced      \* observation: two requests wrote hosts at the same time,
                    \* since the process started

vars == <<pools, hosts, born, request, startup, poolRaced, hostsRaced>>

Idle  == [step |-> "idle", name |-> NoName, priority |-> 0, id |-> 0]
HostSteps == {"number", "append", "insert", "update"}
Steps == {"idle", "newpool", "droppool"} \cup HostSteps

(* The start: names still to be looked at, and (an observation) those a      *)
(* failed statement has cost.                                                *)
Booting == [step |-> "default", todo |-> {}, missed |-> {}]
Serving == startup.step = "serving"

(* Every row keeps the columns the schema demands, and only rows that were   *)
(* given an id exist.                                                        *)
TypeOK ==
    /\ pools \in SUBSET Pools
    /\ born \in SUBSET Ids /\ DOMAIN hosts \subseteq born
    /\ \A h \in DOMAIN hosts : 
          hosts[h] \in [name : Spellings \cup {BlankName}, priority : Int]
    /\ \A r \in Requests :
          request[r] \in [step : Steps, name : Spellings \cup {BlankName, NoName},
                          priority : Int, id : Ids \cup {0}]
    /\ startup \in [step : {"default", "list", "names", "serving"},
                    todo : SUBSET Pools, missed : SUBSET Pools]
    /\ ~Serving => \A r \in Requests : request[r] = Idle
    /\ poolRaced \in BOOLEAN /\ hostsRaced \in BOOLEAN

(* The first start, on an empty database.                                    *)
Init ==
    /\ pools = {} /\ hosts = <<>> /\ born = {}
    /\ request = [r \in Requests |-> Idle] /\ startup = Booting
    /\ poolRaced = FALSE /\ hostsRaced = FALSE

(* The unique index idx_pool_priority, which knows the names as spelled.     *)
Taken(name, priority, others) ==
    \E h \in others : hosts[h].name = name /\ hosts[h].priority = priority

poolExists(name) == name.pool \in pools

(* Requests under way that put a host into pool p, that delete pool p.       *)
PutsInto(p) ==
    {r \in Requests : /\ request[r].step \in HostSteps
                      /\ request[r].name \in Spellings /\ request[r].name.pool = p}
Drops(p) == {r \in Requests : request[r].step = "droppool" /\ request[r].name.pool = p}

Begin(r, step, name, priority, id) ==
    /\ Serving /\ request[r] = Idle
    /\ request' = [request EXCEPT ![r] =
          [step |-> step, name |-> name, priority |-> priority, id |-> id]]

End(r) == request' = [request EXCEPT ![r] = Idle]

WritesHost(name) ==
    /\ poolRaced' = (poolRaced \/ (name \in Spellings /\ Drops(name.pool) # {}))
    /\ hostsRaced' = (hostsRaced \/ \E r \in Requests : request[r].step \in HostSteps)

-----------------------------------------------------------------------------
(* CreateHost: the pool is looked up, a missing priority is made up from the *)
(* hosts that spell the pool's name plainly, and the row is inserted unless  *)
(* the index refuses it (409).                                               *)
CheckNewHost(r, name, priority) ==
    /\ poolExists(name)
    /\ Begin(r, IF priority <= 0 THEN "number" ELSE "insert", name, priority, 0)
    /\ WritesHost(name)
    /\ UNCHANGED <<pools, hosts, born, startup>>

(* Mutated form: the greatest priority itself.                               *)
NextPriorityMax(p) ==
    Max({0} \cup {hosts[h].priority : h \in {g \in DOMAIN hosts :
                                                hosts[g].name = Plain(p)}})

NextPriority(p) ==
    LET used == {hosts[h].priority : h \in {g \in DOMAIN hosts :
                                                hosts[g].name = Plain(p)}}
    IN  IF used = {} THEN 1 ELSE Max(used) + 1

NumberHost(r) ==
    /\ request[r].step = "number"
    /\ request' = [request EXCEPT ![r].step = "append",
                      ![r].priority = NextPriority(request[r].name.pool)]
    /\ UNCHANGED <<pools, hosts, born, startup, poolRaced, hostsRaced>>

InsertHost(r) ==
    LET q == request[r]
    IN  /\ q.step \in {"append", "insert"}
        /\ \/ /\ ~Taken(q.name, q.priority, DOMAIN hosts)
              /\ \E id \in Ids \ born :
                    /\ \A i \in born : i < id
                    /\ born' = born \cup {id}
                    /\ hosts' = [h \in DOMAIN hosts \cup {id} |->
                          IF h = id THEN [name |-> q.name, priority |-> q.priority]
                                    ELSE hosts[h]]
           \/ /\ Taken(q.name, q.priority, DOMAIN hosts)
              /\ UNCHANGED <<born, hosts>>
        /\ End(r)
        /\ UNCHANGED <<pools, startup, poolRaced, hostsRaced>>

(* UpdateHost: the row and the new pool, if there is one, are looked up;     *)
(* then an UPDATE by id sets the columns that are given.                     *)
CheckUpdate(r, id, name, priority) ==
    /\ id \in DOMAIN hosts
    /\ name \in Spellings => poolExists(name)
    /\ Begin(r, "update", name, priority, id)
    /\ WritesHost(name)
    /\ UNCHANGED <<pools, hosts, born, startup>>

Merged(id, q) ==
    [name     |-> IF q.name = NoName THEN hosts[id].name ELSE q.name,
     priority |-> IF q.priority = 0 THEN hosts[id].priority ELSE q.priority]

WriteUpdate(r) ==
    LET q == request[r]
    IN  /\ q.step = "update"
        /\ hosts' = IF q.id \in DOMAIN hosts
                       /\ ~Taken(Merged(q.id, q).name, Merged(q.id, q).priority,
                                 DOMAIN hosts \ {q.id})
                       THEN [hosts EXCEPT ![q.id] = Merged(q.id, q)]
                       ELSE hosts
        /\ End(r)
        /\ UNCHANGED <<pools, born, startup, poolRaced, hostsRaced>>

DeleteHost(id) ==
    /\ Serving /\ id \in DOMAIN hosts
    /\ hosts' = Restrict(hosts, DOMAIN hosts \ {id})
    /\ UNCHANGED <<pools, born, request, startup, poolRaced, hostsRaced>>

-----------------------------------------------------------------------------
(* CreatePool and DeletePool.  A count that fails lets CreatePool go on.     *)

CheckNewPool(r, p) ==
    /\ p \notin pools \/ CatalogErrors
    /\ Begin(r, "newpool", Plain(p), 0, 0)
    /\ UNCHANGED <<pools, hosts, born, startup, poolRaced, hostsRaced>>

InsertPool(r) ==
    /\ request[r].step = "newpool"
    /\ pools' = pools \cup {request[r].name.pool}
    /\ End(r)
    /\ UNCHANGED <<hosts, born, startup, poolRaced, hostsRaced>>

(* Mutated form: the hosts are not counted.                                  *)
EmptyPoolAny(p) == TRUE

EmptyPool(p) == \A h \in DOMAIN hosts : hosts[h].name # Plain(p)

CheckDropPool(r, p) ==
    /\ p # Default /\ EmptyPool(p)
    /\ Begin(r, "droppool", Plain(p), 0, 0)
    /\ poolRaced' = (poolRaced \/ PutsInto(p) # {})
    /\ UNCHANGED <<pools, hosts, born, startup, hostsRaced>>

RemovePool(r) ==
    /\ request[r].step = "droppool"
    /\ pools' = pools \ {request[r].name.pool}
    /\ End(r)
    /\ UNCHANGED <<hosts, born, startup, poolRaced, hostsRaced>>

(* A statement of a request fails: it is answered with 500.                  *)
RequestFails(r) ==
    /\ CatalogErrors /\ request[r] # Idle
    /\ End(r)
    /\ UNCHANGED <<pools, hosts, born, startup, poolRaced, hostsRaced>>

-----------------------------------------------------------------------------
(* The start of the process.                                                 *)

(* The process dies, in the middle of a start or of requests, and starts.    *)
Restart ==
    /\ request' = [r \in Requests |-> Idle]
    /\ startup' = Booting /\ hostsRaced' = FALSE
    /\ UNCHANGED <<pools, hosts, born, poolRaced>>

(* A pool is looked for and, if it is missing, inserted; when one of the two *)
(* statements fails the start goes on without it.                            *)
PutBack(p, next) ==
    /\ \/ /\ pools' = pools \cup {p}
          /\ startup' = [next EXCEPT !.missed = @ \ {p}]
       \/ /\ CatalogErrors /\ pools' = pools
          /\ startup' = [next EXCEPT !.missed = @ \cup {p}]
    /\ UNCHANGED <<hosts, born, request, poolRaced, hostsRaced>>

(* ensureDefaultPool.                                                        *)
EnsureDefault ==
    /\ startup.step = "default"
    /\ PutBack(Default, [startup EXCEPT !.step = "list"])

(* Mutated form: names are not trimmed before they are looked up.            *)
NamesUntrimmed == {hosts[h].name.pool : h \in {g \in DOMAIN hosts :
                                                 hosts[g].name.blanks = "none"}}

(* The names hosts have, trimmed; one of blanks only is passed over.         *)
NamesInUse == {hosts[h].name.pool : h \in {g \in DOMAIN hosts :
                                             hosts[g].name \in Spellings}}

(* syncPoolsFromHosts: the names are read, or that fails and it returns.     *)
ListNames ==
    /\ startup.step = "list"
    /\ \/ startup' = [startup EXCEPT !.step = "names", !.todo = NamesInUse]
       \/ /\ CatalogErrors
          /\ startup' = [startup EXCEPT !.step = "names", !.missed = Pools]
    /\ UNCHANGED <<pools, hosts, born, request, poolRaced, hostsRaced>>

SyncPool(p) ==
    /\ startup.step = "names" /\ p \in startup.todo
    /\ PutBack(p, [startup EXCEPT !.todo = @ \ {p}])

(* The names are done with, and the server begins to listen.                 *)
Serve ==
    /\ startup.step = "names" /\ startup.todo = {}
    /\ startup' = [startup EXCEPT !.step = "serving", !.missed = {}]
    /\ poolRaced' = (poolRaced /\ startup.missed # {})
    /\ UNCHANGED <<pools, hosts, born, request, hostsRaced>>

-----------------------------------------------------------------------------
Handle(r) ==
    \/ \E n \in Spellings, k \in Priorities : CheckNewHost(r, n, k)
    \/ NumberHost(r) \/ InsertHost(r)
    \/ \E id \in Ids, n \in Spellings \cup {BlankName, NoName}, k \in Priorities :
          CheckUpdate(r, id, n, k)
    \/ WriteUpdate(r)
    \/ (\E p \in Pools : CheckNewPool(r, p) \/ CheckDropPool(r, p))
    \/ InsertPool(r) \/ RemovePool(r) \/ RequestFails(r)

Next ==
    \/ \E r \in Requests : Handle(r)
    \/ \E id \in Ids : DeleteHost(id)
    \/ Restart \/ EnsureDefault \/ ListNames \/ (\E p \in Pools : SyncPool(p)) \/ Serve

Spec == Init /\ [][Next]_vars

-----------------------------------------------------------------------------
(* A host whose pool's name is spelled plainly is in a pool that exists      *)
(* ("pool not found, please create it first", hosts.go:204; "pool has hosts, *)
(* cannot delete", pools.go:79), unless a request that puts a host into a    *)
(* pool and one that deletes it have overlapped and no start that lost no    *)
(* pool has come since.                                                      *)
HostsHavePools ==
    ~poolRaced => \A h \in DOMAIN hosts :
                     hosts[h].name.blanks = "none" => hosts[h].name.pool \in pools

(* The priority made up for a host is free when it is used, unless two       *)
(* requests write hosts at the same time: leaving the priority out is never  *)
(* answered with "priority already exists in this pool" (hosts.go:219).      *)
MadeUpPriorityFree ==
    ~hostsRaced => \A r \in Requests :
                      request[r].step = "append" /\ request[r].name.blanks = "none"
                          => ~Taken(request[r].name, request[r].priority, DOMAIN hosts)

(* When a start has run its course and requests are served again, the pool   *)
(* of every host exists, however the name is spelled and whatever raced or   *)
(* was cut short before, but for a pool whose own statement failed: neither  *)
(* an earlier pool's failure (pool_seed.go:37) nor the default's keeps the   *)
(* others from being put back.                                               *)
RestartHeals ==
    [][~Serving /\ Serving' =>
          \A h \in DOMAIN hosts' : hosts'[h].name \in Spellings =>
             hosts'[h].name.pool \in pools' \cup startup.missed]_vars
=============================================================================
