------------------------------- MODULE Sessions --------------------------------
(* Logging in and out and changing the password (api/auth.go,                *)
(* api/middleware.go, api/account.go, database/accounts): one user, the      *)
(* tables users and sessions, and requests whose statements interleave.      *)
(* A cookie is the number of the login that made it.                         *)
EXTENDS Naturals

CONSTANTS
    Visits,             \* requests that may be under way at once
    Passwords,          \* of six characters or more
    Short,              \* any shorter one
    SessionLife,        \* 30 days
    MaxLogins,          \* bound: sessions made
    MaxClock,           \* bound: time
    AccountErrors       \* a statement may fail

ASSUME SessionsAssumption ==
    /\ SessionLife \in Nat /\ MaxLogins \in Nat /\ MaxClock \in Nat
    /\ Short \notin Passwords /\ AccountErrors \in BOOLEAN

Cookies == 1..MaxLogins
NoCookie == 0
NoRow   == MaxClock + SessionLife + 1   \* no row of the table has this cookie

VARIABLES
    password,           \* users.passwd
    sessions,           \* [cookie -> Expires]
    visits,             \* the requests under way
    logins,             \* sessions made
    clock,
    madeAt,             \* observation: [cookie -> when its session was made]
    loggedOut           \* observation: cookies whose session a logout deleted

sessionVars == <<password, sessions, visits, logins, clock, madeAt, loggedOut>>

NoVisit == [step |-> "idle", cookie |-> NoCookie, old |-> Short, new |-> Short, late |-> FALSE]

(* What a request that has passed AuthMiddleware does next.                  *)
Served == {"page", "logout", "compare"}

SessionsTypeOK ==
    /\ password \in Passwords
    /\ sessions \in [Cookies -> 0..NoRow]
    /\ visits \in [Visits -> [step : Served \cup {"idle", "create", "expired", "write"},
                              cookie : Cookies \cup {NoCookie},
                              old : Passwords \cup {Short}, new : Passwords \cup {Short},
                              late : BOOLEAN]]
    /\ logins \in 0..MaxLogins /\ clock \in 0..MaxClock
    /\ madeAt \in [Cookies -> 0..MaxClock] /\ loggedOut \subseteq 1..logins
    /\ \A c \in Cookies : c > logins => sessions[c] = NoRow

(* CreateDefaultAdminAccount has run.                                        *)
SessionsInit ==
    /\ password \in Passwords
    /\ sessions = [c \in Cookies |-> NoRow]
    /\ visits = [v \in Visits |-> NoVisit]
    /\ logins = 0 /\ clock = 0
    /\ madeAt = [c \in Cookies |-> 0] /\ loggedOut = {}

Leave(v) == visits' = [visits EXCEPT ![v] = NoVisit]

-----------------------------------------------------------------------------
(* PostLogin: CheckPassword of the right password (a wrong one changes       *)
(* nothing), then CreateSession.                                             *)
CheckPassword(v) ==
    /\ visits[v] = NoVisit
    /\ visits' = [visits EXCEPT ![v].step = "create"]
    /\ UNCHANGED <<password, sessions, logins, clock, madeAt, loggedOut>>

CreateSession(v) ==
    /\ visits[v].step = "create" /\ logins < MaxLogins
    /\ \/ /\ sessions' = [sessions EXCEPT ![logins + 1] = clock + SessionLife]
          /\ madeAt' = [madeAt EXCEPT ![logins + 1] = clock]
          /\ logins' = logins + 1
       \/ AccountErrors /\ UNCHANGED <<sessions, madeAt, logins>>
    /\ Leave(v)
    /\ UNCHANGED <<password, clock, loggedOut>>

-----------------------------------------------------------------------------
(* Mutated form: a session without a row is refused, an old one is not.      *)
ValidWhileStored(c) == sessions[c] # NoRow

Valid(c) == sessions[c] # NoRow /\ ~(clock > sessions[c])

(* GetSession, for AuthMiddleware and GetLogin: a session that has expired   *)
(* is deleted next; a cookie without a row is refused at once.               *)
GetSession(v, c, next) ==
    /\ visits[v] = NoVisit /\ sessions[c] # NoRow
    /\ visits' = [visits EXCEPT ![v] =
                     IF Valid(c) THEN next ELSE [NoVisit EXCEPT !.step = "expired", !.cookie = c]]
    /\ UNCHANGED <<password, sessions, logins, clock, madeAt, loggedOut>>

OpenPage(v, c) == GetSession(v, c, [NoVisit EXCEPT !.step = "page", !.cookie = c])
AskLogout(v, c) == GetSession(v, c, [NoVisit EXCEPT !.step = "logout", !.cookie = c])
AskChange(v, c, old, new) ==
    GetSession(v, c, [step |-> "compare", cookie |-> c, old |-> old, new |-> new, late |-> FALSE])

(* Mutated form: nothing is deleted.                                         *)
WithoutNone(c) == sessions

Without(c) == [sessions EXCEPT ![c] = NoRow]

(* DeleteSession; both callers ignore an error.                              *)
DropExpired(v) ==
    /\ visits[v].step = "expired"
    /\ \/ sessions' = Without(visits[v].cookie)
       \/ AccountErrors /\ UNCHANGED sessions
    /\ Leave(v)
    /\ UNCHANGED <<password, logins, clock, madeAt, loggedOut>>

Logout(v) ==
    /\ visits[v].step = "logout"
    /\ \/ /\ sessions' = Without(visits[v].cookie)
          /\ loggedOut' = loggedOut \cup {visits[v].cookie}
       \/ AccountErrors /\ UNCHANGED <<sessions, loggedOut>>
    /\ Leave(v)
    /\ UNCHANGED <<password, logins, clock, madeAt>>

ShowPage(v) ==
    /\ visits[v].step = "page"
    /\ Leave(v)
    /\ UNCHANGED <<password, sessions, logins, clock, madeAt, loggedOut>>

-----------------------------------------------------------------------------
(* Mutated form: any old password will do.                                   *)
AcceptedUnseen(v) == visits[v].new # Short

(* The new password is long enough, and the old one is the user's.           *)
Accepted(v) == visits[v].new # Short /\ visits[v].old = password

(* ChangePassword checks the new password, reads the user and compares.      *)
ComparePassword(v) ==
    /\ visits[v].step = "compare"
    /\ visits' = [visits EXCEPT ![v] = IF Accepted(v) THEN [@ EXCEPT !.step = "write"] ELSE NoVisit]
    /\ UNCHANGED <<password, sessions, logins, clock, madeAt, loggedOut>>

(* Then it writes; whoever has compared and not yet written is late.         *)
WritePassword(v) ==
    /\ visits[v].step = "write"
    /\ \/ /\ password' = visits[v].new
          /\ visits' = [w \in Visits |->
                IF w = v THEN NoVisit
                ELSE [visits[w] EXCEPT !.late = @ \/ visits[w].step = "write"]]
       \/ AccountErrors /\ UNCHANGED password /\ Leave(v)
    /\ UNCHANGED <<sessions, logins, clock, madeAt, loggedOut>>

(* The process stops and starts again; both tables stay.                     *)
SessionsRestart ==
    /\ visits' = [v \in Visits |-> NoVisit]
    /\ UNCHANGED <<password, sessions, logins, clock, madeAt, loggedOut>>

TimePasses ==
    /\ clock < MaxClock
    /\ clock' = clock + 1
    /\ UNCHANGED <<password, sessions, visits, logins, madeAt, loggedOut>>

SessionsNext ==
    \/ \E v \in Visits :
          \/ CheckPassword(v) \/ CreateSession(v)
          \/ \E c \in Cookies :
                \/ OpenPage(v, c) \/ AskLogout(v, c)
                \/ \E old, new \in Passwords \cup {Short} : AskChange(v, c, old, new)
          \/ DropExpired(v) \/ Logout(v) \/ ShowPage(v)
          \/ ComparePassword(v) \/ WritePassword(v)
    \/ SessionsRestart
    \/ TimePasses

SessionsSpec == SessionsInit /\ [][SessionsNext]_sessionVars

-----------------------------------------------------------------------------
(* No request is let in by the cookie of a session that a logout has deleted *)
(* or that was made more than its life ago, whatever other requests with the *)
(* same cookie are under way and however often the process restarts.  (A     *)
(* request that was let in before goes on.)                                  *)
EndedStaysEnded ==
    [][\A v \in Visits :
          visits[v] = NoVisit /\ visits'[v].step \in Served =>
              /\ visits'[v].cookie \notin loggedOut
              /\ clock - madeAt[visits'[v].cookie] <= SessionLife]_sessionVars

(* The password that a change replaces is the one it was given as the old    *)
(* one (accounts.go:79, "ChangePassword verifies old password"), except that *)
(* of several changes that have compared before any has written each         *)
(* replaces the one before.                                                  *)
ChangeKnowsPassword ==
    [][\A v \in Visits :
          visits[v].step = "write" /\ ~visits[v].late /\ password' # password
          /\ visits'[v].step = "idle"
          => visits[v].old = password]_sessionVars
================================================================================
