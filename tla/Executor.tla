------------------------------- MODULE Executor -------------------------------
(* CommandExecutor (engine/executor.go): a call takes a slot of the          *)
(* semaphore, then sends a GET or runs the command over SSH.  execSSH waits  *)
(* for two goroutines of its own, the one that dials and the one that runs   *)
(* the session, each of which leaves its outcome in a channel that holds one *)
(* value, and gives up on each when a context expires; the goroutines, the   *)
(* connection and the command at the host may outlive the call.  Two waits   *)
(* have no limit: the SSH handshake in dialSSH, after its TCP connection is  *)
(* up, and NewSession.                                                       *)
EXTENDS Naturals, FiniteSets

CONSTANTS
    Calls,              \* calls of ExecuteCommand
    MaxConcurrency      \* capacity of the semaphore

ASSUME ExecAssumption == IsFiniteSet(Calls) /\ MaxConcurrency \in Nat \ {0}

VARIABLES
    call,               \* where ExecuteCommand stands
    slots,              \* the semaphore: calls that hold a slot
    expired,            \* calls whose present context has expired
    dial,               \* the goroutine that dials, and its two channels
    client,             \* the SSH connection: "none", "open" or "closed"
    runner,             \* the goroutine of session.Run, and channel done
    verdict,            \* what session.Run returned
    command,            \* the command or GET, as the host sees it
    result              \* what the call returned

execVars == <<call, slots, expired, dial, client, runner, verdict, command, result>>
remote == <<verdict, command>>

Holding == {"chosen", "fetching", "connecting", "opening", "running"}
Results == {"ok", "failed", "lost", "timeout",
            "dialError", "sessionError", "connectTimeout"}

(* Types, and no more calls hold a slot than the semaphore has.              *)
ExecTypeOK ==
    /\ call \in [Calls -> {"new", "queued", "ended"} \cup Holding]
    /\ slots \in SUBSET Calls /\ Cardinality(slots) <= MaxConcurrency
    /\ expired \in SUBSET Calls
    /\ dial \in [Calls -> {"none", "dialing", "dialed", "failed", "taken"}]
    /\ client \in [Calls -> {"none", "open", "closed"}]
    /\ runner \in [Calls -> {"none", "running", "sending", "sent"}]
    /\ verdict \in [Calls -> {"none", "ok", "failed", "lost"}]
    /\ command \in [Calls -> {"none", "active", "ok", "failed"}]
    /\ result \in [Calls -> Results \cup {"none"}]

ExecInit ==
    /\ call = [c \in Calls |-> "new"] /\ slots = {} /\ expired = {}
    /\ dial = [c \in Calls |-> "none"] /\ client = [c \in Calls |-> "none"]
    /\ runner = [c \in Calls |-> "none"] /\ verdict = [c \in Calls |-> "none"]
    /\ command = [c \in Calls |-> "none"] /\ result = [c \in Calls |-> "none"]

Proceed(c, label) == call' = [call EXCEPT ![c] = label]

(* Mutated form: the slot is returned by the way out of success only.        *)
ReleaseOnSuccess(c, r) == IF r = "ok" THEN slots \ {c} ELSE slots

Release(c, r) == slots \ {c}

(* The deferred calls of a return, client.Close aside.                       *)
Return(c, r) ==
    /\ Proceed(c, "ended")
    /\ result' = [result EXCEPT ![c] = r]
    /\ slots' = Release(c, r)

-----------------------------------------------------------------------------
Submit(c) ==
    /\ call[c] = "new" /\ Proceed(c, "queued")
    /\ UNCHANGED <<slots, expired, dial, client, runner, remote, result>>

(* Mutated form: the semaphore lets one call too many in.                    *)
SlotFreeLate == Cardinality(slots) <= MaxConcurrency

SlotFree == Cardinality(slots) < MaxConcurrency

(* A slot is taken before it is known whether there is anything to run.      *)
Acquire(c) ==
    /\ call[c] = "queued" /\ SlotFree
    /\ slots' = slots \cup {c} /\ Proceed(c, "chosen")
    /\ UNCHANGED <<expired, dial, client, runner, remote, result>>

RunNothing(c) ==
    /\ call[c] = "chosen" /\ Return(c, "ok")
    /\ UNCHANGED <<expired, dial, client, runner, remote>>

-----------------------------------------------------------------------------
(* execHTTP.  The answer may be lost, or late, whatever the request did.     *)

SendGet(c) ==
    /\ call[c] = "chosen" /\ Proceed(c, "fetching")
    /\ command' = [command EXCEPT ![c] = "active"]
    /\ UNCHANGED <<slots, expired, dial, client, runner, verdict, result>>

GetReturns(c) ==
    /\ call[c] = "fetching"
    /\ \E r \in {"ok", "failed", "lost"} :
          r \in {command[c], "lost"} /\ Return(c, r)
    /\ UNCHANGED <<expired, dial, client, runner, remote>>

-----------------------------------------------------------------------------
(* execSSH: the connection.                                                  *)

StartDial(c) ==
    /\ call[c] = "chosen" /\ Proceed(c, "connecting")
    /\ dial' = [dial EXCEPT ![c] = "dialing"]
    /\ UNCHANGED <<slots, expired, client, runner, remote, result>>

(* dialSSH, in its goroutine: whether or not anybody still waits for it.     *)
DialEnds(c) ==
    /\ dial[c] = "dialing"
    /\ \/ /\ dial' = [dial EXCEPT ![c] = "dialed"]
          /\ client' = [client EXCEPT ![c] = "open"]
       \/ dial' = [dial EXCEPT ![c] = "failed"] /\ UNCHANGED client
    /\ UNCHANGED <<call, slots, expired, runner, remote, result>>

(* The context of the connection (30 s) or of the execution (60 s, from      *)
(* before NewSession).                                                       *)
Expire(c) ==
    /\ call[c] \in {"connecting", "opening", "running"}
    /\ expired' = expired \cup {c}
    /\ UNCHANGED <<call, slots, dial, client, runner, remote, result>>

(* The three cases of the first select; of those that are ready, any.        *)
TakeClient(c) ==
    /\ call[c] = "connecting" /\ dial[c] = "dialed"
    /\ dial' = [dial EXCEPT ![c] = "taken"]
    /\ expired' = expired \ {c} /\ Proceed(c, "opening")
    /\ UNCHANGED <<slots, client, runner, remote, result>>

TakeDialError(c) ==
    /\ call[c] = "connecting" /\ dial[c] = "failed"
    /\ dial' = [dial EXCEPT ![c] = "taken"]
    /\ Return(c, "dialError")
    /\ UNCHANGED <<expired, client, runner, remote>>

ConnectTimesOut(c) ==
    /\ call[c] = "connecting" /\ c \in expired
    /\ Return(c, "connectTimeout")
    /\ UNCHANGED <<expired, dial, client, runner, remote>>

-----------------------------------------------------------------------------
(* execSSH: the session.                                                     *)

(* Mutated form: the connection is closed only when all went well.           *)
CloseOnSuccess(c, r) == IF r = "ok" THEN [client EXCEPT ![c] = "closed"] ELSE client

(* The deferred client.Close.                                                *)
CloseClient(c, r) == [client EXCEPT ![c] = "closed"]

ReturnClosing(c, r) ==
    /\ Return(c, r)
    /\ client' = CloseClient(c, r)
    /\ UNCHANGED <<expired, dial, runner, remote>>

OpenSession(c) ==
    /\ call[c] = "opening" /\ Proceed(c, "running")
    /\ runner' = [runner EXCEPT ![c] = "running"]
    /\ command' = [command EXCEPT ![c] = "active"]
    /\ UNCHANGED <<slots, expired, dial, client, verdict, result>>

SessionRefused(c) == call[c] = "opening" /\ ReturnClosing(c, "sessionError")

(* session.Run returns the command's status, or an error as soon as the      *)
(* connection is lost or closed.                                             *)
RunReturns(c) ==
    /\ runner[c] = "running"
    /\ \E v \in {"ok", "failed", "lost"} :
          /\ v \in {command[c], "lost"}
          /\ v # "lost" => client[c] = "open"
          /\ verdict' = [verdict EXCEPT ![c] = v]
    /\ runner' = [runner EXCEPT ![c] = "sending"]
    /\ UNCHANGED <<call, slots, expired, dial, client, command, result>>

(* done has room for one value, and one is ever sent.                        *)
DoneFree(c) == runner[c] # "sent"

SendVerdict(c) ==
    /\ runner[c] = "sending" /\ DoneFree(c)
    /\ runner' = [runner EXCEPT ![c] = "sent"]
    /\ UNCHANGED <<call, slots, expired, dial, client, remote, result>>

(* Mutated form: the error of session.Run decides nothing.                   *)
ReportedOk(v) == IF v = "lost" THEN "failed" ELSE v

Reported(v) == v

(* The two cases of the second select.  SIGKILL is a request to the host,    *)
(* which may go on.                                                          *)
TakeVerdict(c) ==
    /\ call[c] = "running" /\ runner[c] = "sent"
    /\ ReturnClosing(c, Reported(verdict[c]))

RunTimesOut(c) ==
    call[c] = "running" /\ c \in expired /\ ReturnClosing(c, "timeout")

(* The host: the command or the request ends there, with or without success; *)
(* it may also never start, or never end.                                    *)
CommandEnds(c) ==
    /\ command[c] = "active"
    /\ \E v \in {"ok", "failed"} : command' = [command EXCEPT ![c] = v]
    /\ UNCHANGED <<call, slots, expired, dial, client, runner, verdict, result>>

-----------------------------------------------------------------------------
Choose(c) == RunNothing(c) \/ SendGet(c) \/ StartDial(c)

Select(c) ==
    \/ TakeClient(c) \/ TakeDialError(c) \/ ConnectTimesOut(c)
    \/ TakeVerdict(c) \/ RunTimesOut(c)

Session(c) == OpenSession(c) \/ SessionRefused(c)

CallStep(c) ==
    \/ Submit(c) \/ Acquire(c) \/ Choose(c) \/ GetReturns(c)
    \/ Expire(c) \/ Select(c) \/ Session(c)
    \/ DialEnds(c) \/ RunReturns(c) \/ SendVerdict(c) \/ CommandEnds(c)

ExecNext == \E c \in Calls : CallStep(c)

ExecSpec == ExecInit /\ [][ExecNext]_execVars

(* Contexts expire, a select with a ready case takes one, slots are granted  *)
(* in turn, a closed connection ends session.Run.  Nothing is expected of    *)
(* dialSSH, NewSession and the host.                                         *)
ExecFairness ==
    \A c \in Calls :
        /\ SF_execVars(Acquire(c))
        /\ WF_execVars(Choose(c) \/ GetReturns(c) \/ Select(c))
        /\ WF_execVars(c \notin expired /\ Expire(c))
        /\ WF_execVars(SendVerdict(c) \/ (client[c] = "closed" /\ RunReturns(c)))

-----------------------------------------------------------------------------
(* What makes the properties inductive: how the parts of a call go together. *)
(* A call holds a slot from Acquire to its return, whichever way out it      *)
(* takes; it has a connection only from a dial that has succeeded, and that  *)
(* is open as long as the call uses it; what it returns is what the host     *)
(* said, or that it does not know.                                           *)
Agree(c) ==
    /\ c \in slots <=> call[c] \in Holding
    /\ call[c] # "ended" <=> result[c] = "none"
    /\ dial[c] = "none" => call[c] \notin {"connecting", "opening", "running"}
    /\ dial[c] \in {"none", "dialing", "failed"} => client[c] = "none"
    /\ dial[c] \in {"dialing", "dialed", "failed"} =>
          call[c] = "connecting" \/ result[c] = "connectTimeout"
    /\ dial[c] = "taken" =>
          client[c] # "open" \/ call[c] \in {"opening", "running"}
    /\ call[c] \in {"new", "queued", "chosen", "connecting", "opening"} =>
          command[c] = "none" /\ runner[c] = "none"
    /\ call[c] \in {"new", "queued", "chosen", "fetching"} => dial[c] = "none"
    /\ call[c] \in {"opening", "running"} => dial[c] = "taken"
    /\ runner[c] = "none" => call[c] # "running" /\ verdict[c] = "none"
    /\ runner[c] \in {"sending", "sent"} => verdict[c] # "none"
    /\ verdict[c] \in {"ok", "failed"} => command[c] = verdict[c]
    /\ result[c] \in {"dialError", "sessionError", "connectTimeout"} =>
          command[c] = "none" /\ runner[c] = "none"
    /\ result[c] = "ok" => command[c] \in {"none", "ok"}
    /\ result[c] = "failed" => command[c] = "failed"

PartsAgree == \A c \in Calls : Agree(c)

-----------------------------------------------------------------------------
(* A connection is open only for a call that holds a slot, or because it     *)
(* came up too late for a call that had stopped waiting for it: that one     *)
(* nobody closes (executor.go:133).  Beyond those, no more connections are   *)
(* open than max_ssh_concurrency allows (design.md, "CommandExecutor").      *)
ClientsAccounted ==
    \A c \in Calls :
        client[c] = "open" => c \in slots \/ result[c] = "connectTimeout"

(* The executor keeps the promise of CommandRun: only a call that timed out  *)
(* while its command ran, or that lost its connection, leaves it open        *)
(* whether the command takes effect, even afterwards; after any other error  *)
(* the poller may turn to the next host.                                     *)
AnswerOf(r) ==
    CASE r = "none" -> "none"
      [] r = "ok" -> "ok"
      [] r \in {"lost", "timeout"} -> "unknown"
      [] OTHER -> "refused"

Promised == INSTANCE CommandRun WITH
    answer <- [c \in Calls |-> AnswerOf(result[c])],
    effect <- {c \in Calls : command[c] \in {"ok", "failed"}}

ResultsPromised == Promised!CommandSpec

(* NewSession comes back from every host, however late.                      *)
HostsOpenSessions == \A c \in Calls : []<>(call[c] # "opening")

(* Every call that waits for a slot gets one and returns, and with it the    *)
(* poll that made it: no way out keeps its slot, no select waits for ever.   *)
(* The goroutine of session.Run ends too, although a call that has timed out *)
(* no longer reads its channel (executor.go:155).                            *)
CallsReturn ==
    \A c \in Calls :
        /\ HostsOpenSessions => (call[c] = "queued" ~> call[c] = "ended")
        /\ runner[c] = "running" ~> runner[c] = "sent"
===============================================================================
