----------------------------- MODULE ConfigStore -----------------------------
(* The table configs behind config.GetAs, Set and SetMany (config/config.go) *)
(* for the two keys several goroutines share: the agents' token, read by     *)
(* every heartbeat, made up by the first installation of an agent            *)
(* (api/hosts.go, api/agent.go) and sent back by the settings page; and the  *)
(* notification template, saved by UpdateConfig and passed on to the         *)
(* Notifier by a subscriber (cmd/server.go, notifier/notifier.go).           *)
(*                                                                           *)
(* GetAs is no mere read: when it finds no row, or cannot read it, it stores *)
(* the default its caller gave, and its callers take what it returns even    *)
(* when that fails too.  publishEvent starts a goroutine for each            *)
(* subscriber, so events arrive in any order.                                *)
EXTENDS Naturals, SequencesExt

CONSTANTS
    Agents,         \* hosts with an agent
    Accesses,       \* requests that may be under way at once
    Templates,      \* notification templates, the first of them empty
    NoTemplate,
    Absent,         \* no row
    TypedTokens,    \* tokens an administrator may type
    MaxTokens,      \* bound: tokens generated
    MaxSaves,       \* bound: templates saved
    StorageErrors   \* a statement may fail

ASSUME ConfigAssumption ==
    /\ NoTemplate \in Templates /\ Absent \notin Nat /\ Absent \notin Templates
    /\ MaxTokens \in Nat /\ MaxSaves \in Nat /\ StorageErrors \in BOOLEAN
    /\ TypedTokens \subseteq Nat /\ TypedTokens \cap (0..MaxTokens) = {}

NoToken == 0        \* the empty string; a generated token is its number
NoAgent == "nobody"
RealTokens == 1..MaxTokens \cup TypedTokens

VARIABLES
    token,          \* row agent_shared_token
    template,       \* row notify_template
    access,         \* the requests under way
    posted,         \* events whose goroutines have not run yet
    sending,        \* Notifier's template
    agentToken,     \* the token each agent was installed with
    shown,          \* the token on a settings page that is open
    generated,      \* tokens generated so far
    saves,          \* templates saved so far
    outdated,       \* observation: agents whose token has been overwritten
                    \* since they, or those who install them, got it
    tokenLost,      \* observation: see StoreRow
    savesRaced,     \* observation: since the start a save began before
                    \* another was done with
    startBlind      \* observation: the start could not read the template and
                    \* left it stored, and no change has been delivered since

tokens    == <<token, agentToken, shown, generated, outdated, tokenLost>>
templates == <<template, posted, sending, saves, savesRaced, startBlind>>
configVars == <<tokens, templates, access>>

(* blind: its read has failed.  overtaken: somebody has changed the token    *)
(* since it was read.  Both are observations.                                *)
Off == [step |-> "off", agent |-> NoAgent, token |-> NoToken,
        blind |-> FALSE, overtaken |-> FALSE,
        old |-> NoTemplate, new |-> NoTemplate]

(* The old value of an event; Absent when SetMany could not read it.         *)
Olds == Templates \cup {Absent}

TokenSteps == {"heartbeat", "install", "heartbeat default", "install default",
               "store", "deploy"}

(* The token has been read, or could not be.                                 *)
ReadSteps == {"heartbeat default", "install default", "store", "deploy"}

(* GetAs goes on to store the default.                                       *)
Defaulting == [heartbeat |-> "heartbeat default", install |-> "install default"]

(* Types; an agent is never installed with an empty token (agent_install.go).*)
ConfigTypeOK ==
    /\ token \in {Absent, NoToken} \cup RealTokens
    /\ template \in Templates /\ sending \in Templates
    /\ access \in [Accesses -> [step : TokenSteps \cup {"off", "save"},
                                 agent : Agents \cup {NoAgent},
                                 token : {NoToken} \cup RealTokens,
                                 blind : BOOLEAN, overtaken : BOOLEAN,
                                 old : Olds, new : Templates]]
    /\ posted \in Seq([old : Olds, new : Templates])
    /\ agentToken \in [Agents -> {NoToken} \cup RealTokens]
    /\ shown \in {NoToken} \cup RealTokens
    /\ generated \in 0..MaxTokens /\ saves \in 0..MaxSaves
    /\ outdated \in SUBSET Agents /\ tokenLost \in BOOLEAN
    /\ savesRaced \in BOOLEAN /\ startBlind \in BOOLEAN
    /\ \A r \in Accesses : access[r].step = "deploy" => access[r].token # NoToken

(* runServer has read the template, and GetAs has stored its default.        *)
ConfigInit ==
    /\ token \in {Absent, NoToken} /\ template = NoTemplate
    /\ access = [r \in Accesses |-> Off]
    /\ posted = <<>> /\ sending = NoTemplate
    /\ agentToken = [a \in Agents |-> NoToken] /\ shown = NoToken
    /\ generated = 0 /\ saves = 0
    /\ outdated = {} /\ tokenLost = FALSE
    /\ savesRaced = FALSE /\ startBlind = FALSE

EndAccess(r) == access' = [access EXCEPT ![r] = Off]

-----------------------------------------------------------------------------
(* The agents' token.                                                        *)

(* The row becomes v.  When that takes a token away, the agents installed    *)
(* with it are outdated; that is excused, and tokenLost, if whoever writes   *)
(* could not know of the token or was told to replace it.                    *)
StoreRow(v, excused) ==
    LET loses == token \in RealTokens /\ v # token
    IN  /\ token' = v
        /\ outdated' = IF loses THEN {a \in Agents : agentToken[a] # NoToken}
                                ELSE outdated
        /\ tokenLost' = (tokenLost \/ (loses /\ excused))

Unknowing(q) == q.blind \/ q.overtaken

(* What the other requests are then.                                         *)
Overtaken(v) ==
    [q \in Accesses |->
        IF v # token /\ access[q].step \in ReadSteps
           THEN [access[q] EXCEPT !.overtaken = TRUE] ELSE access[q]]

(* A heartbeat, from anybody (the endpoint is public), or the request for an *)
(* agent's settings; or the installation of an agent.                        *)
BeginToken(r, kind, a) ==
    /\ access[r] = Off
    /\ access' = [access EXCEPT ![r] = [Off EXCEPT !.step = kind, !.agent = a]]
    /\ UNCHANGED <<tokens, templates>>

(* Mutated form: a token is generated whatever is stored.                    *)
ReusableNever(t) == FALSE

Reusable(t) == t # NoToken

(* What becomes of request q when GetAs has returned t.  A heartbeat is      *)
(* accepted or answered with 401 and changes nothing here;                   *)
(* ensureAgentSharedToken takes t or generates one.                          *)
Got(kind, q, t) ==
    IF kind = "heartbeat" THEN Off
    ELSE IF Reusable(t) THEN [q EXCEPT !.step = "deploy", !.token = t]
    ELSE [q EXCEPT !.step = "store", !.token = generated + 1]

Generated(kind, t) ==
    IF kind = "install" /\ ~Reusable(t)
       THEN generated < MaxTokens /\ generated' = generated + 1
       ELSE UNCHANGED generated

(* GetAs reads the row; when that fails it goes on to store the default.     *)
ReadToken(r, kind) ==
    /\ access[r].step = kind
    /\ \/ /\ token # Absent
          /\ access' = [access EXCEPT ![r] = Got(kind, access[r], token)]
          /\ Generated(kind, token)
       \/ /\ token = Absent \/ StorageErrors
          /\ access' = [access EXCEPT ![r].step = Defaulting[kind],
                                      ![r].blind = (token # Absent)]
          /\ UNCHANGED generated
    /\ UNCHANGED <<token, agentToken, shown, outdated, tokenLost, templates>>

(* GetAs stores the empty default and returns it, even if that fails.        *)
WriteDefault(r, kind) ==
    /\ access[r].step = Defaulting[kind]
    /\ \/ /\ StoreRow(NoToken, Unknowing(access[r]))
          /\ access' = [Overtaken(NoToken) EXCEPT ![r] = Got(kind, access[r], NoToken)]
       \/ /\ StorageErrors
          /\ access' = [access EXCEPT ![r] = Got(kind, access[r], NoToken)]
          /\ UNCHANGED <<token, outdated, tokenLost>>
    /\ Generated(kind, NoToken)
    /\ UNCHANGED <<agentToken, shown, templates>>

(* ensureAgentSharedToken stores what it has generated.                      *)
StoreToken(r) ==
    LET q == access[r]
    IN  /\ q.step = "store"
        /\ \/ /\ StoreRow(q.token, Unknowing(q))
              /\ access' = [Overtaken(q.token) EXCEPT ![r] =
                    [q EXCEPT !.step = "deploy", !.blind = FALSE, !.overtaken = FALSE]]
           \/ /\ StorageErrors /\ EndAccess(r)
              /\ UNCHANGED <<token, outdated, tokenLost>>
        /\ UNCHANGED <<agentToken, shown, generated, templates>>

(* The installation over SSH succeeds or fails.                              *)
DeployAgent(r) ==
    LET q == access[r]
    IN  /\ q.step = "deploy"
        /\ \/ /\ agentToken' = [agentToken EXCEPT ![q.agent] = q.token]
              /\ outdated' = IF q.overtaken THEN outdated \cup {q.agent}
                                            ELSE outdated \ {q.agent}
           \/ UNCHANGED <<agentToken, outdated>>
        /\ EndAccess(r)
        /\ UNCHANGED <<token, shown, generated, tokenLost, templates>>

(* GetSettings: the page shows the token as it is stored, or nothing.        *)
LoadPage ==
    /\ shown' \in {t \in {token} : t \in RealTokens}
                  \cup (IF token \in RealTokens /\ ~StorageErrors THEN {} ELSE {NoToken})
    /\ UNCHANGED <<token, agentToken, generated, outdated, tokenLost, templates, access>>

(* UpdateConfig: the form is saved, with the token the page shows or another *)
(* one typed over it (an empty field is not sent, saveConfig).               *)
SaveToken(t) ==
    /\ t \in TypedTokens \cup ({shown} \ {NoToken})
    /\ StoreRow(t, TRUE)
    /\ access' = Overtaken(t)
    /\ UNCHANGED <<agentToken, shown, generated, templates>>

-----------------------------------------------------------------------------
(* The notification template.                                                *)

(* SetMany reads the old value, stores the new one and posts the event.      *)
BeginSave(r, t) ==
    /\ access[r] = Off /\ saves < MaxSaves
    /\ \E old \in IF StorageErrors THEN {template, Absent} ELSE {template} :
          access' = [access EXCEPT ![r] = [Off EXCEPT !.step = "save",
                                                !.old = old, !.new = t]]
    /\ saves' = saves + 1
    /\ savesRaced' = (savesRaced \/ posted # <<>>
                         \/ \E q \in Accesses : access[q].step = "save")
    /\ UNCHANGED <<tokens, template, posted, sending, startBlind>>

EndSave(r) ==
    /\ access[r].step = "save"
    /\ \/ /\ template' = access[r].new
          /\ posted' = Append(posted, [old |-> access[r].old, new |-> access[r].new])
       \/ StorageErrors /\ UNCHANGED <<template, posted>>
    /\ EndAccess(r)
    /\ UNCHANGED <<tokens, sending, saves, savesRaced, startBlind>>

(* Mutated form: a change is one from nothing.                               *)
IsChangedFirst(e) == e.old = NoTemplate /\ e.new # e.old

IsChanged(e) == e.new # e.old

(* The subscriber's goroutine: SetTemplate, if the event changes the key.    *)
Deliver(i) ==
    /\ i \in 1..Len(posted)
    /\ IF IsChanged(posted[i])
          THEN sending' = posted[i].new /\ startBlind' = FALSE
          ELSE UNCHANGED <<sending, startBlind>>
    /\ posted' = RemoveAt(posted, i)
    /\ UNCHANGED <<tokens, template, saves, savesRaced, access>>

(* The process starts again and reads the template anew.  When that fails it *)
(* starts with the empty one, which GetAs stores unless that fails as well.  *)
ConfigRestart ==
    /\ access' = [r \in Accesses |-> Off]
    /\ posted' = <<>> /\ savesRaced' = FALSE
    /\ \/ sending' = template /\ template' = template
       \/ /\ StorageErrors /\ sending' = NoTemplate
          /\ template' \in {template, NoTemplate}
    /\ startBlind' = (sending' # template')
    /\ UNCHANGED <<tokens, saves>>

-----------------------------------------------------------------------------
HandleToken(r) ==
    \/ BeginToken(r, "heartbeat", NoAgent)
    \/ \E a \in Agents : BeginToken(r, "install", a)
    \/ \E kind \in {"heartbeat", "install"} : ReadToken(r, kind) \/ WriteDefault(r, kind)
    \/ StoreToken(r) \/ DeployAgent(r)

TokenNext ==
    \/ \E r \in Accesses : HandleToken(r)
    \/ LoadPage \/ \E t \in RealTokens : SaveToken(t)

HandleSave(r) == (\E t \in Templates : BeginSave(r, t)) \/ EndSave(r)

TemplateNext ==
    \/ \E r \in Accesses : HandleSave(r)
    \/ \E i \in 1..Len(posted) : Deliver(i)

ConfigNext == TokenNext \/ TemplateNext \/ ConfigRestart

ConfigSpec == ConfigInit /\ [][ConfigNext]_configVars

-----------------------------------------------------------------------------
(* An installed agent holds the token heartbeats are compared with, unless   *)
(* the token was overwritten after it had been read for the agent; and       *)
(* nobody overwrites a token but an administrator and a request that could   *)
(* not know of it, since its read failed or came before the token            *)
(* (ensureAgentSharedToken, hosts.go:481: the token is shared).              *)
AgentsAccepted ==
    /\ \A a \in Agents \ outdated : agentToken[a] \in {NoToken, token}
    /\ ~tokenLost => outdated = {}

(* Once no save and no event is under way the Notifier uses the template     *)
(* that is stored (server.go:74, "Hot-reload notify template (no restart     *)
(* needed)"), unless a save began before an earlier one had been delivered,  *)
(* or the process has started without being able to read it: then until the  *)
(* next start, or the next change to the template.                           *)
TemplateCurrent ==
    /\ ~savesRaced /\ ~startBlind /\ posted = <<>>
    /\ \A r \in Accesses : access[r].step # "save"
    => sending = template
=============================================================================
