# Verification of ippool

ippool keeps a pool of hosts, checks them through the heartbeats of an agent,
elects the best one as leader, runs a command on it and points a Cloudflare A
record at it. These TLA+ modules model that program, TLC checks them on small
instances, and TLAPS proves the safety properties for every instance.

    tlc -config PollQuiet.cfg MCPollCycle      # a run: config and module of PROJECT.json
    tlapm PollCycle_proofs.tla                 # the proofs: PollCycle_, WsHub_, Services_,
                                               # AgentLink_, Sessions_, HostCatalog_,
                                               # Config_ and Admin_proofs

## 1. Inventory

### The parts and their state

| Part | Code | State it keeps | Operations |
|---|---|---|---|
| Poller | `engine/poller.go` | fail and recover streaks per host; the locals of `RunOnce` | `Start`, `RunOnce` |
| State machine | `engine/statemachine.go` | column `hosts.state` | `Transition`, `ForceSet`, `ApplyCheckResult` |
| Election, circuit breaker | `engine/election.go`, `circuit.go` | `isOpen` | `Elect`, `Check` |
| Command executor | `engine/executor.go` | a semaphore | `Execute`, `ExecuteDisconnect` over SSH or HTTP |
| DDNS updater | `engine/ddns.go`, `ddns_remote.go` | none; Cloudflare's records | `Update`, `UpdateWithGlobalKey`, `SyncRemoteScript`, `VerifyResolvedIP` |
| Host and pool handlers | `api/hosts.go`, `pools.go` | tables `hosts`, `pools`; install tasks in memory | create, update, delete, force a state, install an agent |
| Config store | `config/config.go` | table of settings; subscribers | `GetAs` (which stores defaults), `Set`, `SetMany`, events |
| Config and DDNS handlers | `api/config.go`, `ddns_apply.go`, the settings page | settings, among them the DDNS rules; Cloudflare's records | `GetConfig`, `UpdateConfig`, `normalizeDDNSRules`, `applyDDNSRulesNow` |
| Agent handlers | `api/agent.go` | table of heartbeats | heartbeat, configuration |
| Agent installer, install tasks | `engine/agent_install.go`, `api/hosts.go`, the settings page | tasks with their logs, in memory; the agents' copies of the token | installation, task log |
| Agent binary | `agent/main.go` | its parameters | fetch, probe, report, sleep |
| WebSocket hub | `ws/hub.go`, `safeConn.go`, `api/ws.go` | map of connections, two kinds of mutex | `Register`, `Unregister`, `Broadcast`, snapshot |
| Notifier | `notifier/` | message template | `Send`, `SetTemplate` |
| Start-up | `database/dbcore/`, `cmd/server.go` | | migrations, default pool, missing pools, subscriptions |
| Accounts and sessions | `database/accounts/`, `api/auth.go`, `account.go`, `middleware.go` | tables `users`, `sessions` | login, logout, change of password |
| Audit log, pages, utilities | the rest | | |

### How they interact

There is one long-lived goroutine that matters, the poller's. It calls the state
machine, executor, DDNS updater, notifier and hub **synchronously**: what blocks
one of them blocks all polls. Every HTTP request runs in a goroutine of its own
and shares with the poller only the database (SQLite; each statement is atomic,
nothing uses a transaction), the hub, and Cloudflare. Settings changes reach the
notifier through goroutines started per event.

### What is hard

* **Interleaving with handlers.** `RunOnce` works on copies it read seconds or
  minutes before; hosts are created, deleted, edited and forced meanwhile.
* **Several writes that belong together.** Installing a leader is three writes,
  a transition is a read and a write, creating a host is up to three statements.
* **Failure half-way.** A command, a statement or a Cloudflare call may fail, and
  most errors are only logged. The process may die between any two statements,
  and its streaks and circuit state die with it.
* **Lost answers and retries** towards Cloudflare.
* **Hysteresis.** Three bad snapshots kill, two good ones revive.
* **Goroutines that outlive their caller.** A dial or a command that timed out
  goes on; two readers and a page follow one installation.
* **Clocks of their own.** Agent and poller only share the age of a report.
* **Secrets behind masks.** The page sends back what it was never told.
* **Errors that are no errors.** `GetAs` takes every failing read for a missing row,
  stores its default and returns it even if that fails as well; its callers go on.
* **Blocking.** Writes to WebSockets have no deadline; opening an SSH session and
  the session that writes the DDNS script have no time limit.

### What makes each part correct

* Poll: at most one leader flag, flag and record agree, the leader is the best
  ready host and in service, DNS points at it and never at a host that has not
  been connected, deaths and revivals are confirmed, every poll ends.
* State machine: rows change only along the matrix unless a state is forced.
* Circuit: open exactly when there are hosts and none is ready; no false alarm.
* Hub: the map holds only served connections, nobody misses a change, nobody
  can stop a broadcast for good (this one the code does not keep).
* Catalog: every host's pool exists, priorities are unique per pool, made-up
  priorities are free, a start puts missing pools back even if others fail.
* DDNS: one record, only promised addresses, proxied flag kept.
* Settings: nobody overwrites the agents' token who could know of it, but for an
  administrator; notifier and table agree on the template; a save of DDNS rules
  changes no secret it was not given.
* Executor: slots and connections come back on every way out, a definite answer
  is final, every call returns.
* Installation: the log is complete when the task ends, the error is shown,
  success means that the agent runs (this one the code does not keep).
* Agent and poller: a running host stays up through a bad report, an outage and
  a recovery are noticed in bounded time.
* Sessions: logout and age end a session for good, a password is replaced only
  by someone who knows it.

`PROJECT.json` lists every hazard at its line with the properties that watch it.

## 2. Modules

| Module | Models |
|---|---|
| `HostStates` | the pure decisions: matrix, hysteresis, verdict, election, circuit |
| `PollCycle` | `RunOnce` statement by statement, the handlers that write the same tables, crashes |
| `HostLifecycle` | abstract: how a row of `hosts` may live. `PollCycle` refines it (`MatrixObeyed`) |
| `PollObserver` | `PollCycle` with history variables that count snapshots independently of the poller's streaks |
| `PollCycle_proofs` | theorems about `PollCycle` and `PollObserver` |
| `WsHub` | hub, connection mutexes, `WSHandler`, the goroutine that broadcasts |
| `WsHub_proofs` | theorems about `WsHub` |
| `HostCatalog` | `pools` and `hosts` under concurrent handlers and under starts that run statement by statement |
| `HostCatalog_proofs` | theorems about `HostCatalog` |
| `DnsAddresses` | abstract: what updates promise about the addresses a name resolves to |
| `DdnsRecord` | Cloudflare's records under updaters, retries and lost answers. Refines `DnsAddresses` (`AddressesPromised`) |
| `ConfigStore` | `GetAs`/`Set`/`SetMany`/events for the agents' token, with the settings page that sends it back, and for the template |
| `DdnsRules` | masking, normalisation and storage of the DDNS rules, with the pages that edit them |
| `Config_proofs` | theorems about `DdnsRules` and `ConfigStore` |
| `CommandRun` | abstract: what the executor promises about a command and its answer |
| `Executor` | semaphore, `execHTTP`, `execSSH` with its goroutines, channels and contexts. Refines `CommandRun` (`ResultsPromised`) |
| `InstallTask` | the installation of an agent: script, two readers, task table, the page that asks |
| `AgentLink` | one agent's loop, its reports and the poller's verdict in discrete time; takes the hysteresis from `HostStates` |
| `AgentLink_proofs` | theorems about `AgentLink` |
| `Sessions` | login, sessions with expiry, logout, change of password |
| `Sessions_proofs` | theorems about `Sessions` |
| `MCServices` | composition for TLC of `DdnsRecord`, `Executor` and `InstallTask` |
| `Services_proofs` | theorems about `DdnsRecord`, `Executor`, `InstallTask` and `MCServices` |
| `MCAdmin` | composition for TLC of `HostCatalog`, `ConfigStore`, `DdnsRules`, `Sessions` and `AgentLink` |
| `Admin_proofs` | theorems about `MCAdmin`, from those about its parts |
| `MCPollCycle`, `MCPollObserver` | instances for TLC: values of constants and symmetry |

`MCServices` and `MCAdmin` put parts that share no state into one run: a variable
`part`, chosen at first, says which of them moves; the others stand still. Each
part's actions, properties and mutants are the same as in a run of its own.
`ServicesTypeOK` and `AdminTypeOK` join the type invariants of the parts. That a
behaviour of the composition is one of every part is a theorem (section 5).

### PollCycle and the code

One variable `pc` is the place in `RunOnce`. Labels and lines of `poller.go`:
`idle` 103, `check`/`apply` the loop 134-202, `elect` 232-249, `disconnect` 251,
`clear` 260, `verify` 272, `connect` 285, `demote`/`retry` 277-282 and 303-308,
`ddns` 311-412, `unflag`, `flag`, `record` 414-416. `snap` is the first read of
hosts and heartbeats, `list` the later ones (`retryHosts`), `reach` the
reachability map, `prevId` is `currentLeaderID`, `attempt` the loop counter.
`BeginTransition` and `EndTransition` are the two statements of
`StateMachine.Transition`. Handlers are `CreateHost`, `DeleteHost`, `ForceSet`,
`EditCommands`, `EditFlag`, `BeginApply`/`EndApply`; `Crash` keeps the database
only. Which of them a run allows is its constant `Events`.

Abstractions. Heartbeats are arbitrary at each snapshot (good or bad, over the
threshold or not) for the hosts in `Flaky`, so there is no clock. `RunOnce`'s two
initial reads are one step: only the heartbeats lie between them. The order in
which hosts are checked is left open, and so is a tie in the election. A streak
saturates at its threshold, above which its value is never looked at. DDNS in a
poll is one step here and a module of its own (`DdnsRecord`); with `StorageErrors`
the rules or the legacy settings may be read wrongly, and that step updates
another record or none (`RecordsFor`). Broadcasts are left
out here and in `WsHub`. Requests that carry an explicit `id` are not modelled:
the settings page never sends one.

### The other modules and the code

* `WsHub`: `hubLock` is held across steps only by `Unregister`, the one critical
  section that waits inside; `connLock` is `SafeConn.mu`, held from `Begin...` to
  `End...` of a write. A stalled peer is one whose buffers are full.
  `version` stands for the state of the hosts, `newest` for what a page has seen.
  Only changes that are announced count: what handlers change (`UpdateHost`,
  `ForceSet`) is broadcast with the next poll's summary.
* `HostCatalog`: a request is a record with the statement it is about to execute;
  names keep whether they were padded with blanks because `poolExists` trims and
  the index, the numbering of other hosts and `DeletePool` do not.
  A start is `EnsureDefault`, `ListNames`, a `SyncPool` for each name and `Serve`;
  each of them may fail, and a `Restart` may come at any point. `startup.missed`
  observes the pools whose own statement failed. `poolRaced` and `hostsRaced` only
  observe which requests overlapped; the properties use them to say exactly which
  races are excluded.
* `DdnsRecord`: a caller is a goroutine in `UpdateWithGlobalKey` or `Update`; a call
  may fail before its effect, or take effect and lose its answer. The zone lookup
  fails like the listing it precedes. `SyncRemoteScript` has no action, because
  the script it writes never runs (section 4).
* `ConfigStore`: `GetAs` is a read and, on any error, a write of the default, which
  may fail too: the caller gets the default either way. `LoadPage` and `SaveToken`
  are the settings page, which shows the token and sends it back with whatever
  else its form holds. `outdated` observes the agents whose token was overwritten
  since it was read for them, `tokenLost` that the writer was an administrator or
  a request whose read had failed (`blind`) or been `overtaken`; `startBlind` that
  the Notifier was started without the stored template.
* `DdnsRules`: a secret is a value, `masked` (the page's asterisks) or blank.
  `saving` is what a request in `UpdateConfig` is about to do; `stale` observes
  that another write came between its read and its own, `blind` that its read
  failed and gave it the empty list. Fields that are never
  masked are left out, and so is the row the page makes up from an earlier
  version's settings.
* `Executor`: `call` is the place in `ExecuteCommand`; `dial` and `runner` are the
  two goroutines of `execSSH` together with the channel each writes to
  (capacity one); `expired` is whichever context is in force. `command` is what
  happens on the host. `lost` is an error of a connection, which says nothing
  about the command. Today the poller is the only caller and makes one call at a
  time; several calls in the model are also the leftovers of earlier calls.
* `InstallTask`: lines of the log are numbers, the table keeps the newest `kept`
  of `total`, the page counts the lines it has seen and asks for the rest by
  position. The script is the steps it prints: up to `LastStep`, because the
  here-document swallows what follows. It never waits for a reader: after a
  scanner has given up, a script with more output than SSH's window takes would
  block, and `session.Wait` with it; `HostReplies` assumes that away.
* `AgentLink`: one unit is six seconds: interval 30 s = 5, HTTP client 12 s = 2,
  `curl` and `wget` together 16 s = 3, timeout 90 s = 15, poll 60 s = 10. Every
  phase may end at any time within its limit and a report may arrive at any time
  of its request. The probe's limit is an assumption, since `wget --timeout=8`
  limits each phase of the request separately. A poll's verdict holds from its
  snapshot on; the code writes it later in the same poll, at most `PollTime`
  later. The bytes an agent reports and the restart of the panel, after which
  the streaks are new, belong to `PollCycle`.
* `Sessions`: a cookie is the number of the login that made it; statements of
  different requests interleave, and so do several requests with one cookie.

## 3. Runs

| Run | Instance | Shows |
|---|---|---|
| `poll_any` | 2 hosts, every event once, statements, commands and DDNS fail, thresholds 2/1 | `TypeOK`, `PollReturns` |
| `poll_quiet` | 3 hosts, 2 with failing commands, no events, thresholds 3/2 | leader, circuit, alarm, flag, DNS between polls; refinement; commands cleared |
| `poll_crash` | 2 hosts, a crash or deletion anywhere, failing DDNS | one flag, DNS after connect, hysteresis against real snapshots |
| `poll_live` | 2 hosts, one created late, create and delete | the leader serves; liveness of leadership |
| `hub` | 2 connections, one may stall, 2 changes | map, missed changes, conditional liveness |
| `services` | one of: 2 updaters, 3 attempts, 2 addresses, 4 updates or deletions; 2 commands, 1 slot; 1 installation, log of 3 lines | one record, promised addresses; connections, answers, termination; complete logs |
| `administration` | one of: 2 pools, 2 ids, 2 requests, starts; 2 agents, 2 requests, 2 generated tokens and a typed one; 2 requests, 3 templates, 2 saves; 2 pages, 2 pools, 2 names, 2 saves; 2 requests, 2 logins; 1 agent | integrity of the tables, token and template, rules and secrets, sessions, verdicts in time |
| `leader_out_of_service`, `created_during_poll`, `dns_never_retried`, `hub_stalled`, `install_hollow` | smallest instance | the five findings below |

Why the bounds are enough. Every race in `RunOnce` is between one poll and one
other actor, so one event (`MaxEvents`) at an arbitrary step shows it; two events
are used where a host must both come and go. Three hosts are needed to use up
the three rounds of the election, two to have a leader and a successor. Polls
themselves are not bounded: the states repeat. `poll_any` lowers the thresholds
to 2 and 1 to afford all events at once; the hysteresis itself is checked with
the code's 3 and 2. Two connections suffice for the hub because its locks are
pairwise: one stalled peer and one that suffers from it. Two requests are what a
race needs. Token and template are two values of `part` although they are one
module: they share nothing but the table. Three attempts are the code's `ddnsRetries`. Two calls over one slot
make one wait for the other. Four updates or deletions in all let an update meet
another one, what that left behind, and a record deleted meanwhile. A log of 3 lines with 3 steps and 2 lines of the
package manager overflows its window, as 300 lines do. Rules: two rows, two
pages and two saves let a page be outdated and rows change places. `AgentLink`
has the code's own times and is not bounded otherwise; `Spacing` = 3 says that
of four reports in a row at most one is bad or lost.

Deadlock is checked except in `hub` and `hub_stalled` (all connections may have
ended and all changes been made), `services` and `install_hollow` (all updates,
calls or the installation may be over).

Every property has a mutant, a plausible slip in one mapped definition, that
TLC finds violating it; they are named `...Sticky`, `...Kept`, `...Any` and so on
beside the definition they change.

### Fairness and why the code justifies it

* `PollCycle`: weak fairness of the poll's steps **except where it waits for a
  host** (`Remote`). `Start` loops for ever, sleeping is bounded, calls to
  Cloudflare have 15 s, a dial 30 s, a command 60 s. Opening an SSH session
  (`executor.go:142`) and writing the DDNS script (`ddns_remote.go:109`) have no limit,
  so the liveness properties assume `HostsAnswer`: no host keeps a poll waiting
  for ever. Broadcasts must return as well, which `WsHub` shows to need that
  stalled clients go away.
* `WsHub`: strong fairness of each goroutine's steps, since Go's mutexes do not
  starve waiters; the read loop must end only for peers that send nothing more.
* `DdnsRecord`: weak fairness of the updaters' calls (`ddnsTimeout`).
* `Executor`: contexts expire and a `select` with a ready case takes one; slots
  are granted in turn (Go's channels queue their senders), hence strong fairness
  of `Acquire`. Nothing is expected of `dialSSH`, `NewSession` and the host;
  `CallsReturn` assumes `HostsOpenSessions`, because `NewSession` has no limit.
* `InstallTask`: readers, installer and page go on; `InstallEnds` assumes
  `HostReplies`, because neither the session nor the script has a limit.

`MCAdmin` has safety properties only, `AgentLink`'s among them: its bounds are
counted, so "in time" needs no fairness.

## 4. Findings

Checked as runs that TLC must find violated:

1. `leader_out_of_service` - the old leader is disconnected, all candidates
   fail, it stays recorded, recovers and leads without its connect command
   (`poller.go:247`).
2. `created_during_poll` - a host created during a poll is elected from the new
   list, is missing from the old reachability map, and is marked dead with no
   missed heartbeat after the working leader was disconnected (`poller.go:272`).
3. `dns_never_retried` - one failed DDNS update leaves the record wrong for as
   long as the leader stays the same (`poller.go:394`).
4. `hub_stalled` - a client that stops reading blocks the poller for ever
   (`hub.go:53`).
5. `install_hollow` - the here-document that writes `agent.sh` never ends, because
   the line `EOF` is indented: no service is installed or started, and the task
   reports success (`agent_install.go:87`, `:141`).

Seen with TLC on the same modules and not kept as runs:

* Three ready hosts whose commands fail use up the rounds of a poll, which gives up
  although a fourth works: `LeaderIsBest` with three failing hosts and a fourth.
* With no host left every poll sends `circuit_open` although the circuit is
  closed (`poller.go:241`): `CircuitExact` with a deleted host.
* If the third candidate of a poll was the last ready host, the circuit stays
  closed (`poller.go:232`): `CircuitExact` with three failing hosts.
* `applyDDNSRulesNow` points the record at a host no poll has connected
  (`ddns_apply.go:52`): `DnsAfterConnect` with event `apply`.
* A dead host that recovers over its threshold stays dead, although design
  property 5 makes it full (`statemachine.go:139`).
* A full host may become ready on a failed heartbeat that the hysteresis masks
  and whose traffic is low (`poller.go:189`, against the comment of the matrix).
* A state forced during a poll is overwritten by that poll, may make it write
  dead -> full, and may revive a host early (`statemachine.go:68`, `:133`).

* A connect timeout in `execSSH` leaks the SSH connection if the dial succeeds
  later (`executor.go:132`): `ClientsAccounted` without its exception.
* When the log of an installation passes 300 lines the page stops showing lines,
  since it counts lines of a window that moves (`settings.html:475`, `hosts.go:88`):
  `PageShowsLog` without its limit.
* A request for the rules that fails makes `GetAs` store the empty list: all DDNS
  rules and their secrets are gone (`config.go:136` in `api/`). If storing it fails
  too, the save goes on with the empty list and blanks the secrets behind its
  masks. All is lost as well when the page fails to load and is saved
  (`settings.html:963`): `SecretsSurvive` without `blind`.
* A heartbeat that cannot read the token, or read before there was one, stores the
  empty token over it (`config.go:61`, `agent.go:38`); a settings page that was
  loaded before the token changed brings the old one back when only a timeout is
  saved (`settings.html:187`). Every agent is then answered with 401:
  `AgentsAccepted` without `outdated`.
* A start that cannot read the template sends the empty one until the next change
  or start (`server.go:71`): `TemplateCurrent` without `startBlind`.
* With bad or lost reports less than three good ones apart a running host may be
  declared dead, and so with polls every 42 s or less even for one lost report,
  although 10 s are allowed (`poller.go:16`): `HealthyStaysUp` with `Spacing` = 2,
  and with `PollInterval` = 7.
* Of two changes of the password from the same old one both report success
  (`accounts.go:87`): `ChangeKnowsPassword` without its exception.

Read in the code, at hazards the models do not reach: the here-document of the
DDNS script (`ddns_remote.go:51`) has no end either, because the `EOF` of line 94 is
indented by a tab, so the script is written to the host but neither made executable
nor run; `SyncRemoteScript`, which "uploads and runs a DDNS script on target host"
(`ddns_remote.go:11`), returns nil and the poller notifies `ddns_remote_synced`
(`poller.go:357`, `:402`). Pools without a rule fall back to `cf_record_name`
(`poller.go:369`), which may be the name of another pool's rule: polls then point
one record at two leaders by turns, which no check of the rules prevents. Further:
the older snapshot that
arrives after a newer broadcast, the connection that leaves the map without
being closed, ids of connections from the clock, padded pool names that
`DeletePool` does not count, template and output data races, sessions that
outlive a changed password. A rule that uses an old token loses its zone id when
the page saves it, because the page has no field for it (`settings.html:935`).
`agent.sh`, which the installer writes, posts without a time limit (line 135),
unlike `agent/main.go`, which `AgentLink` follows.

## 5. Proofs

All theorems hold for every value of the constants under the assumptions the
modules name (`...Assumption`); TLC evaluates those in the runs. Each rests on an
inductive invariant that adds to the property what makes it hold: `Init => Inv`,
`Inv /\ [Next]_vars => Inv'` with one lemma or step per action, `Inv => property`.
An action property is shown of every step that starts where the invariant holds.

### The poll

* **`TypeCorrect`**: `Spec => []TypeOK`. `TypeOK` bounds `attempt` by
  `MaxElectRetries`, which is not inductive alone: a retry increments it.
  `RoundLeft` (inside a round fewer attempts are used up) makes it so.
* **`OneLeader`**: `Spec => []AtMostOneLeader`, when no request carries the flag
  (`"flag" \notin Events`) and no UPDATE fails (`~StorageErrors`). The
  strengthening is `OnlyLeaderFlagged`: after the first write the only flag left
  is the new leader's own, whatever handlers and crashes do in between.
* **`MatrixHolds`**: `Spec => MatrixObeyed`, when no state is forced
  (`"force" \notin Events`): `PollCycle` implements `HostLifecycle` under the
  refinement mapping `status <- [h \in rows |-> state[h]], used <- born`. The
  strengthening is `PendingLegal`: a transition found legal when it was read is
  still legal when it is written, because the poll alone changes states and ids
  are never given again.

What a poll does when it changes leaders, for any hosts and priorities. Each
theorem excludes only what breaks its property: for each event or failure that a
hypothesis rules out TLC finds a violation with two or three hosts once it is let in
(the findings of section 4 are among them).

* **`ReadyKeepCommands`**: `Spec => OnlyExhaustedCleared`, unless a state is forced.
  `StatesCurrent`: during the election the reloaded list is true of every state it
  holds; `Leaving`: the host that loses its commands is in that list and exhausted.
* **`ConnectedFirst`**: `Spec => DnsAfterConnect`, unless a request edits commands
  or applies the DDNS rules. `InService`: a poll comes to the DDNS update only with
  a leader whose connect command ran last, or that has none;
  `CommandsCurrent`: a command in the table is in the list the poll works from.
* **`FlagsMatch`**: `Spec => []FlagMatchesRecord`, and **`RecordPointsAtLeader`**:
  `Spec => []DnsFollowsLeader`: no crash, no failing statement, and no request that
  writes the flag or applies the rules (for the second no failing update either).
  `FlagsFollow` and `RecordsFollow` say how far the writes have come at each place.
* **`BestIsInstalled`**: from its election until it is recorded the new leader is the
  best of the ready hosts *as they are*, not only as the list has them, unless it
  was deleted meanwhile: through crashes, deletions and every failure, without
  created hosts and forced states. `RowsListed`: no host is missing in the list of
  an election.

After a crash. The invariants above hold only while nothing crashes between the
writes; what a crash leaves behind lasts until the next switch, and these theorems
say that the next switch that completes ends it (crashes, deletions, created hosts
and forced states are all allowed):

* **`SwitchHealsFlags`**: `is_leader` marks the new leader and no other host, and
  `current_leader_id` names it (no request sets the flag, statements succeed);
* **`SwitchConnects`**: the last command run on it is its connect command (no request
  edits commands);
* **`SwitchPointsRecord`**: its pool's record points at it (updates and statements
  succeed, no rules are applied by hand).

A poll that keeps its leader repairs nothing: findings 1 and 3.

How a poll ends.

* **`NoPollGivesUp`**: `Spec => []NotGivingUp`: no poll uses up its rounds while fewer
  hosts than it has rounds can make one fail, whatever is deleted and wherever
  the process crashes. `Doubtful` are the hosts whose commands may fail and
  those created while a poll runs, which its reachability map does not know.
  `Reached` is the link from the snapshot to the election: a ready host of the
  reloaded list is in the map or doubtful. `RoundsFailed` counts: each round
  that failed has left another doubtful host dead or deleted, and none of them
  is among those the present round chooses from (`SpentAmong`).
* **`PollsEndWell`**: every poll that does not give up ends with the circuit open and no
  host ready, or with the best ready host on record, whatever state a crash or a
  deletion has left it (no created hosts, forced states or failing statements).
* **`PollsAreBounded`**: `StepsLeft` falls with every step of a poll and no handler
  raises it, whatever fails. A poll of n hosts takes at most
  2n + 10 * maxElectRetries + 11 steps; that it takes them is `PollReturns`.

The leader between polls.

* **`LeaderInService`**: `Spec => ([]NotGivingUp => []LeaderServes)`, with hosts
  created and deleted at any time, if statements succeed, nothing crashes and no
  state or command is edited. Commands may fail on one host if no other host is
  created (`Sole`); with a second such host finding 1 appears. `LeaderConnected`:
  the recorded leader is connected, or a round is under way that will elect it
  only if it is still the one connected; `Afresh`: in the first round the poll knows it.
* **`LeaderServesAlways`**: `Spec => []LeaderServes` with fewer doubtful hosts than
  rounds; the run `poll_live` is an instance of it. With as many hosts created
  during one poll as it has rounds the property fails.
* **`BestLeads`**: `Spec => []LeaderIsBest`, and **`CircuitTells`**:
  `Spec => []CircuitExact`, when only polls change states and fewer hosts have
  failing commands than a poll has rounds, so that by `NoPollGivesUp` none gives
  up. `CircuitTells` needs a host to exist at all.

`PollObserver`'s counters see the snapshots and not the streaks.

* **`VerdictsHold`**: `ObservedSpec => VerdictsConfirmed` for every pair of
  thresholds, without forced states and new hosts (finding 2 is what happens with
  one). `Noticed`: no streak is longer than what was observed, not even after the
  check still to come; `Checked` and `VerdictJust`: a verdict that is about to be
  written, or that a host's absence from the reachability map stands for, is one
  that the observations confirm.

### The hub

For any set of connections, any of them stalling and any number of changes:

* **`MapServed`**: `Spec => []RegisteredServed`: no connection stays in the map
  after its handler has ended.
* **`ChangesArrive`**: `Spec => []NothingMissed`: a registered client that reads
  has every announced change once no broadcast is under way.

* **`HubTyped`**: `Spec => []TypeOK`.

They rest on one inductive invariant. Its heart is `OnTheWay`: once the snapshot
has been read, the latest change has reached the client or is on its way to it,
because a broadcast has yet to come to it or because the snapshot still to be
written holds it. That needs `NoneAhead` (no copy is newer than the hosts table),
`TargetsKnown` (the connection being written to is one of the broadcast's
targets, and none are left once it has sent) and `OpenWhileServed` (the handler
alone closes its connection, after it has unregistered it).

The mutexes, by `LocksHeld` (who holds one is where its holder stands):

* **`OneWriter`**: no step of a handler writes to a connection, or closes it, while
  a broadcast writes to it. gorilla/websocket allows one writer at a time.
* **`NoLockCycle`**: `Spec => []WaitsEndInWrites`: the hub's mutex waits for nothing
  but the connection's that its holder closes, and that for nothing but a write.
  So every chain of waiting ends at a peer that does not read, which finding 4 is
  about; there is no deadlock among the mutexes themselves.

### The tables

`HostCatalog_proofs`, for any number of requests whose statements interleave:

* **`NoHostWithoutPool`**: `Spec => []HostsHavePools`. `Pooled` adds the requests
  that have only checked so far: whoever is about to put a host into a pool finds
  it there, and a pool about to be deleted has no host and is about to get none.
* **`MadeUpPriorityAccepted`**: `Spec => []MadeUpPriorityFree`. `Numbered` adds that
  one request at most is about to write a host. That the number made up is free
  needs the greatest element of a finite set of integers to exist
  (`GreatestExists`), which follows from the well-founded order of finite subsets.
  Priorities are any integers here, negative ones as well.
* **`PoolsRestored`**: `Spec => RestartHeals`: a start that gets as far as serving
  requests has put back the pool of every host, but for those whose own statement
  failed. `Booted` follows the start: the pools of all hosts are there, still to
  be looked at, or missed.

### Settings

`Config_proofs`. For any number of pages and any length of the list:

* **`OneRulePerPool`**: `RulesSpec => []RulesDistinct`, **`NoSecretIsLost`**:
  `RulesSpec => SecretsSurvive`, **`MasksNeverStored`**: `RulesSpec => []RulesTypeOK`.
  `ReadyToStore` says what a request about to write holds: rows that have passed
  the checks and, unless another write came in between, what the rules now stored
  make of them, or no rules at all if the read failed (`Found`). Since no two rules are for one pool, the rule a secret is taken
  from is the only one (`ExistingAt`).

For any number of requests, agents and saves, with reads and writes that fail, an
administrator who saves tokens, and restarts:

* **`AgentsStayAccepted`**: `ConfigSpec => []AgentsAccepted`. `TokenKnown` says what
  each request knows: one about to store a token, or the default, knows that
  there is none unless its read failed or was overtaken; one about to install
  an agent holds the token of the table unless that was overwritten since.
* **`TemplateReloaded`**: `ConfigSpec => []TemplateCurrent`. `TemplateKnown`: as long
  as saves keep apart, one save or one event is under way, and that event carries
  the stored template to the Notifier unless it has it already or was started blind.
* **`ConfigTyped`**: `ConfigSpec => []ConfigTypeOK`. `Sound`: a token about to be
  stored or installed is not empty.

### DNS records

`Services_proofs`, first part, for any updaters, attempts and addresses:

* **`RecordStaysIntact`**: `DnsSpec => []RecordIntact`. `Alone`: without a race
  whoever is about to create a record is the only one, and there is none yet;
  `Flags`: whoever is about to send a flag back sends the one the record has.
* **`PromiseImplemented`**: `DnsSpec => AddressesPromised`: `DdnsRecord` implements
  `DnsAddresses` under `addresses <- contents of the records, target <- address of
  each call`. A step is a step of the abstract updater or leaves it alone.
* **`AttemptsBounded`**: `DnsSpec => []DnsTypeOK`.

### Commands and installations

`Services_proofs`, second part, for any number of calls and slots:

* **`ConnectionsAccounted`**: `ExecSpec => []ClientsAccounted`, and **`PromiseKept`**:
  `ExecSpec => ResultsPromised`, the refinement of `CommandRun`. The invariant,
  `PartsAgree`, says of each call where its two goroutines, its connection and its
  command may be; it is a conjunct of `ServicesTypeOK`, so TLC checks it as well.

Third part, for any number of steps and any window:

* **`LogComplete`**: `InstallSpec => []NothingLost`. `Stages` ties the installer to
  its script, its readers and the task: a reader that is done has drained its
  pipe, and a task ends only when both are.
* **`ErrorsReachThePage`**: `InstallSpec => []PageShowsLog`. `PageFollows`: while the
  log fits, the page shows the lines it has counted; of a failed task there is
  always one it has not.

### The agent's link to the poller

`AgentLink_proofs`, for all limits, intervals and thresholds:

* **`LinkTyped`**: `LinkSpec => []LinkTypeOK`, and **`DownInTime`**: a host that is down
  is declared dead within `DetectIn`. `OffAge`: the last report is at least as old
  as the outage; `OffReady`: a host that is still ready has been down for no longer
  than the timeout and one poll for each that failed.

The other two need `RoomLeft`, four inequalities between the settings; TLC shows a
behaviour against `HealthyStaysUp` when any one of them fails by one unit:

| Inequality | Meaning | With the defaults |
|---|---|---|
| `Span <= Timeout` | a good report is not too old before the next one arrives | 82 <= 90 s |
| `Span + PollInterval < FailThreshold * PollInterval` | a bad or lost report does not last for all the polls a death takes | 142 < 180 s |
| `ReportIn < PollInterval` | a poll that found a host well comes again only after its first report | 40 < 60 s |
| `MaxGap < Spacing * Interval` | between two bad reports there is a poll that finds a good one | 60 s + the poll < `Spacing` * 30 s |

The first three hold of the code's defaults; the fourth says which losses the
defaults bear: with polls of less than 30 s, one report in four. Intervals the
administrator sets may break any of them.

* **`HealthyHostsStay`**: `RoomLeft => (LinkSpec => HealthyStaysUp)`.
  `ReportDue`: unless a good report is sure to come next, the last one is good and
  will do until the next one is there. `FailsExplained`: the polls that have failed
  since the host was last found well fit between two good reports, and the next
  poll comes before the next bad one; so they are fewer than `FailThreshold`.
* **`VerdictsInTime`**: `RoomLeft => (LinkSpec => []VerdictInTime)`. `RecoverySoon`:
  a host that is up and not ready waits for its first good report, or every poll
  since has extended its streak.

Products of a streak and an interval are named (`FailTime`, `HitTime`, ...) and
treated by lemmas of their own, so that all steps are linear arithmetic.

### Accounts

`Sessions_proofs`, for any number of requests and any life of a session:

* **`EndIsFinal`**: `SessionsSpec => EndedStaysEnded`. `RowsHonest`: a row expires
  when its session's life is over, and a logout leaves none.
* **`ChangesNeedPassword`**: `SessionsSpec => ChangeKnowsPassword`. `WritesKnown`: a
  change about to write was given the password, unless another came in between.

### The compositions

* **`ServicesMove`**: `MCServices`'s specification implies those of its three parts,
  and **`AdminMoves`**: `MCAdmin`'s those of its five. What is proved of a part holds
  of the run it is checked in.
* **`ServicesTyped`**: `MCSpec => []ServicesTypeOK`, and **`AdminTyped`**:
  `MCSpec => []AdminTypeOK`, from the parts' `AttemptsBounded`, `ExecInvariant`,
  `InstallInvariant`, `CatalogInvariant`, `ConfigTyped`, `MasksNeverStored`,
  `SessionsInvariant` and `LinkTyped`.

### Only model-checked

Liveness, `ENABLED` and induction over data are out of the prover's reach:
`PollReturns`, `LeaderReturns`, `GoneLeaves`, `BroadcastOutlivesStalls`,
`UpdateEnds`, `CallsReturn` and `InstallEnds` stay with TLC. Two of them have a safety half that is proved: `PollsAreBounded` (no poll goes
on for ever if its steps are taken) and `NoLockCycle` (the mutexes alone cannot
stop a broadcast). Every safety property that a passing run checks is stated by a
theorem, for all values of the constants and under the hypotheses named above.

## 6. Not modelled

Checks of the other settings (lengths, URLs), rendering of pages and
notifications, the audit log (rows nobody else reads, with ignored errors),
`HealthChecker.CheckAll` and `existingConnection.go` (no caller), the WebSocket
upgrade and its comparison of origins, logging and the command line: they keep no
state that another part reads. Functions without a caller (`ForceResetPassword`,
`DeleteAllSessions`, `SetManyAs`, ...) are left out as well. SQLite, gorm, SSH,
gorilla/websocket, browsers and Cloudflare are external: their behaviour is
modelled from how the code uses them.

## 7. Plan

1. Done: the modules and runs above, and the proofs of section 5.
2. Next proofs: variants like `StepsLeft` for the executor's calls, the updater and
   the installation, behind `CallsReturn`, `UpdateEnds` and `InstallEnds`.
3. Next models: `current_leader_id` under `GetAs`'s default, composed with the
   poll's record; what a page shows after a snapshot older than a broadcast.
