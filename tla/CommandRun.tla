------------------------------ MODULE CommandRun ------------------------------
(* What the command executor (engine/executor.go) promises to the poller     *)
(* about a command and the answer it gives: one answer per call, and after   *)
(* a definite answer the command changes nothing on the host any more.       *)
CONSTANTS Calls         \* calls of ExecuteCommand

VARIABLES
    answer,             \* "none", "ok", "refused" or "unknown"
    effect              \* calls whose command has run to its end on the host

CommandInit == answer = [c \in Calls |-> "none"] /\ effect = {}

TakeEffect(c) ==
    /\ c \notin effect /\ answer[c] \in {"none", "unknown"}
    /\ effect' = effect \cup {c}
    /\ UNCHANGED answer

Answer(c, a) ==
    /\ answer[c] = "none"
    /\ answer' = [answer EXCEPT ![c] = a]
    /\ UNCHANGED effect

CommandNext ==
    \E c \in Calls :
        TakeEffect(c) \/ \E a \in {"ok", "refused", "unknown"} : Answer(c, a)

CommandSpec == CommandInit /\ [][CommandNext]_<<answer, effect>>
===============================================================================
