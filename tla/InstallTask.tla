------------------------------ MODULE InstallTask ------------------------------
(* The installation of an agent: the handler that starts it and the table of *)
(* tasks (api/hosts.go), the installer, which runs a script over SSH and     *)
(* reads its two streams in goroutines of their own                          *)
(* (engine/agent_install.go), and the page that asks for the task's log      *)
(* every 900 ms (settings.html).  Lines of the log are numbered from 1 in    *)
(* the order of their arrival; those the table has kept are the newest.      *)
EXTENDS Integers, Sequences

CONSTANTS
    LogLimit,       \* lines the table keeps: 300
    MaxChatter      \* bound: lines printed by the package manager

ASSUME InstallAssumption == LogLimit \in Nat \ {0} /\ MaxChatter \in Nat

VARIABLES
    task,           \* [status, progress, total, kept]: total lines ever, kept ones
    installer,      \* where InstallWithProgress stands
    script,         \* the script on the host: "none", "running", "ok", "failed"
    step,           \* the last [n/8] it has printed
    chatter,        \* lines of the package manager so far
    agentRuns,      \* the script has started the agent
    pipe,           \* [stream -> lines not yet read]
    reader,         \* the goroutine of each stream
    page,           \* the dialog: "closed", "polling" or what it ends with
    counted,        \* hostInstallLastLogCount
    displayed       \* numbers of the lines it shows

host == <<script, step, chatter, agentRuns>>
dialog == <<page, counted, displayed>>
installVars == <<task, installer, host, pipe, reader, dialog>>

Streams == {"stdout", "stderr"}
Steps == 8
Plain == 0          \* a line without a step
Oversize == -1      \* a line of more than 1 MiB
NoTask == [status |-> "none", progress |-> 0, total |-> 0, kept |-> 0]

(* Types; progress is 100 on success and only then, and the table exceeds    *)
(* its limit by the line of a failure at most.                               *)
InstallTypeOK ==
    /\ task \in [status : {"none", "running", "success", "failed"},
                 progress : 0..100, total : Nat, kept : 0..LogLimit + 1]
    /\ task.progress = 100 <=> task.status = "success"
    /\ task.kept > LogLimit => task.status = "failed"
    /\ installer \in {"off", "dial", "session", "start", "wait", "join", "over"}
    /\ script \in {"none", "running", "ok", "failed"}
    /\ step \in 0..Steps /\ chatter \in 0..MaxChatter /\ agentRuns \in BOOLEAN
    /\ pipe \in [Streams -> Seq(Oversize..Steps)]
    /\ reader \in [Streams -> {"none", "scanning", "done"}]
    /\ page \in {"closed", "polling", "success", "failed", "error"}
    /\ counted \in 0..task.kept \/ task = NoTask
    /\ displayed \subseteq 1..task.total \/ task = NoTask

InstallInit ==
    /\ task = NoTask /\ installer = "off"
    /\ script = "none" /\ step = 0 /\ chatter = 0 /\ agentRuns = FALSE
    /\ pipe = [s \in Streams |-> <<>>] /\ reader = [s \in Streams |-> "none"]
    /\ page = "closed" /\ counted = 0 /\ displayed = {}

-----------------------------------------------------------------------------
(* The table of tasks.                                                       *)

Least(a, b) == IF a < b THEN a ELSE b
Greatest(a, b) == IF a > b THEN a ELSE b

(* parseInstallProgress; 0 for a line without a step.                        *)
ParseProgress(n) ==
    IF n = Plain THEN 0 ELSE Least(99, Greatest(5, (n * 100) \div Steps))

LogLine(t, n) ==
    [t EXCEPT !.total = @ + 1, !.kept = Least(LogLimit, @ + 1),
              !.progress = IF ParseProgress(n) > 0 THEN ParseProgress(n) ELSE @]

Succeeded(t) == [t EXCEPT !.status = "success", !.progress = 100]

(* Mutated form: the window is kept when the error is added, too.            *)
FailedTrimmed(t) ==
    [t EXCEPT !.status = "failed", !.progress = Greatest(5, @),
              !.total = @ + 1, !.kept = Least(LogLimit, @ + 1)]

Failed(t) ==
    [t EXCEPT !.status = "failed", !.progress = Greatest(5, @),
              !.total = @ + 1, !.kept = @ + 1]

-----------------------------------------------------------------------------
(* InstallHostAgent, or CreateHost with install_agent, for a host that       *)
(* exists; the answer names the task, and the page begins to ask for it.     *)
Install ==
    /\ task = NoTask /\ page = "closed"
    /\ task' = [status |-> "running", progress |-> 5, total |-> 1, kept |-> 1]
    /\ installer' = "dial"
    /\ page' = "polling"
    /\ UNCHANGED <<host, pipe, reader, counted, displayed>>

Finish(t) ==
    /\ task' = t /\ installer' = "over"
    /\ UNCHANGED <<pipe, reader, dialog>>

(* dialSSH, NewSession with its pipes, session.Start.                        *)
Reach ==
    /\ \/ installer = "dial" /\ installer' = "session"
       \/ installer = "session" /\ installer' = "start"
    /\ UNCHANGED <<task, host, pipe, reader, dialog>>

StartScript ==
    /\ installer = "start" /\ installer' = "wait"
    /\ script' = "running"
    /\ reader' = [s \in Streams |-> "scanning"]
    /\ UNCHANGED <<task, step, chatter, agentRuns, pipe, dialog>>

ReachFails ==
    /\ installer \in {"dial", "session", "start"}
    /\ Finish(Failed(task)) /\ UNCHANGED host

-----------------------------------------------------------------------------
(* The script on the host.                                                   *)

Emit(s, n) == pipe' = [pipe EXCEPT ![s] = Append(@, n)]

(* The here-document of step 3 is delimited by a line EOF; the line in the   *)
(* script is indented, so the document goes on to the end of the script, and *)
(* steps 4 to 8 are text of the file that it writes.                         *)
LastStep == 3

(* systemctl enable --now, or nohup, before [7/8].                           *)
AgentStartedBy(n) == n > 6

PrintStep ==
    /\ script = "running" /\ step < LastStep
    /\ step' = step + 1
    /\ agentRuns' = AgentStartedBy(step')
    /\ Emit("stdout", step')
    /\ UNCHANGED <<task, installer, script, chatter, reader, dialog>>

(* The package manager, when the host has no curl.                           *)
PrintChatter ==
    /\ script = "running" /\ step = 2 /\ chatter < MaxChatter
    /\ chatter' = chatter + 1
    /\ \E s \in Streams, n \in {Plain, Oversize} : Emit(s, n)
    /\ UNCHANGED <<task, installer, script, step, agentRuns, reader, dialog>>

(* Under set -e any command may end the script; a connection that is lost    *)
(* ends it as far as the installer can tell.                                 *)
ScriptEnds ==
    /\ script = "running"
    /\ \/ step = LastStep /\ script' = "ok"
       \/ script' = "failed"
    /\ UNCHANGED <<task, installer, step, chatter, agentRuns, pipe, reader, dialog>>

-----------------------------------------------------------------------------
(* The installer's goroutines.                                               *)

(* Mutated form: wg.Done is not deferred but follows the loop's last line.   *)
GiveUpSilently(s) == reader

(* A scanner gives up at an oversize line, without a word, and nobody reads  *)
(* that stream from then on.  A script that has more to print than SSH's     *)
(* window takes would wait for a reader for ever: see HostReplies.           *)
GiveUp(s) == [reader EXCEPT ![s] = "done"]

ReadLine(s) ==
    /\ reader[s] = "scanning" /\ pipe[s] # <<>>
    /\ IF Head(pipe[s]) = Oversize
          THEN reader' = GiveUp(s) /\ UNCHANGED <<task, pipe>>
          ELSE /\ task' = LogLine(task, Head(pipe[s]))
               /\ pipe' = [pipe EXCEPT ![s] = Tail(@)]
               /\ UNCHANGED reader
    /\ UNCHANGED <<installer, host, dialog>>

ReadEnd(s) ==
    /\ reader[s] = "scanning" /\ pipe[s] = <<>>
    /\ script \in {"ok", "failed"}
    /\ reader' = [reader EXCEPT ![s] = "done"]
    /\ UNCHANGED <<task, installer, host, pipe, dialog>>

(* session.Wait returns when the script has ended, whatever is still unread. *)
WaitReturns ==
    /\ installer = "wait" /\ script \in {"ok", "failed"}
    /\ installer' = "join"
    /\ UNCHANGED <<task, host, pipe, reader, dialog>>

(* Mutated form: only one of the readers is waited for.                      *)
ReadersDoneOne == reader["stdout"] = "done"

ReadersDone == \A s \in Streams : reader[s] = "done"

(* wg.Wait, then runAgentInstallTask's call of finishAgentInstallTask.       *)
JoinReaders ==
    /\ installer = "join" /\ ReadersDone
    /\ Finish(IF script = "ok" THEN Succeeded(task) ELSE Failed(task))
    /\ UNCHANGED host

-----------------------------------------------------------------------------
(* logs.slice(hostInstallLastLogCount), as numbers of lines.                 *)
Slice == task.total - task.kept + counted + 1 .. task.total

(* The page asks, and the server answers with a copy of the task.            *)
PollTask ==
    /\ page = "polling" /\ task # NoTask
    /\ displayed' = displayed \cup Slice
    /\ counted' = Greatest(counted, task.kept)
    /\ page' = IF task.status = "running" THEN "polling" ELSE task.status
    /\ UNCHANGED <<task, installer, host, pipe, reader>>

(* It gives up on the first request that fails; after a restart no task is   *)
(* found.                                                                    *)
PollFails ==
    /\ page = "polling"
    /\ page' = "error"
    /\ UNCHANGED <<task, installer, host, pipe, reader, counted, displayed>>

(* The server dies; the table and the goroutines die with it, and the script *)
(* is left to itself.                                                        *)
ServerRestarts ==
    /\ task # NoTask
    /\ task' = NoTask /\ installer' = "over"
    /\ reader' = [s \in Streams |-> "none"]
    /\ UNCHANGED <<host, pipe, dialog>>

InstallerStep ==
    \/ WaitReturns \/ JoinReaders \/ \E s \in Streams : ReadLine(s) \/ ReadEnd(s)

InstallNext ==
    \/ Install \/ Reach \/ StartScript \/ ReachFails
    \/ PrintStep \/ PrintChatter \/ ScriptEnds
    \/ InstallerStep
    \/ PollTask \/ PollFails \/ ServerRestarts

InstallSpec == InstallInit /\ [][InstallNext]_installVars

InstallFairness ==
    /\ \A s \in Streams : WF_installVars(ReadLine(s) \/ ReadEnd(s))
    /\ WF_installVars(WaitReturns \/ JoinReaders)
    /\ WF_installVars(PollTask \/ (task = NoTask /\ PollFails))

-----------------------------------------------------------------------------
(* A task that has ended has nothing left to say: every line the script      *)
(* printed before it ended is in the log by then, on success and on failure, *)
(* except after a line the scanner gives up at; a status the page sees as    *)
(* final is never followed by more lines (agent_install.go:210).             *)
NothingLost ==
    task.status \in {"success", "failed"} =>
        \A s \in Streams :
            /\ reader[s] # "scanning"
            /\ pipe[s] # <<>> => Head(pipe[s]) = Oversize

(* The page that reports the end of a task has shown its whole log as long   *)
(* as that fits the table, and the message of a failure in any case,         *)
(* although it counts lines of a window that moves: only because the message *)
(* is added without keeping the window (hosts.go:117).                       *)
PageShowsLog ==
    page \in {"success", "failed"} /\ task # NoTask =>
        /\ task.total <= LogLimit => displayed = 1..task.total
        /\ page = "failed" => task.total \in displayed

(* The host accepts or refuses the session, and its script ends.  That takes *)
(* for granted that after GiveUp the rest of a stream fits SSH's window: the *)
(* model's script never waits for a reader.                                  *)
HostReplies ==
    /\ []<>(installer \notin {"dial", "session", "start"})
    /\ []<>(script # "running")

(* The page stops asking: every task comes to an end, whatever its streams   *)
(* held, and the page notices, or the server has forgotten the task.         *)
InstallEnds == HostReplies => (page = "polling" ~> page # "polling")

(* Violated.  "[8/8] Agent 安装完成" (agent_install.go:169): a task that     *)
(* ends with success has installed and started the agent.                    *)
AgentInstalled == task.status = "success" => agentRuns
================================================================================
