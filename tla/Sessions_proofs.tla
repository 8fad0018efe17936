---------------------------- MODULE Sessions_proofs ----------------------------
(* Theorems about Sessions, for any number of requests, logins and passwords *)
(* and any life of a session.                                                *)
EXTENDS Sessions, TLAPS

(* A row expires when its session's life is over, and a logout leaves none.  *)
RowsHonest ==
    \A c \in Cookies :
        /\ sessions[c] # NoRow => sessions[c] = madeAt[c] + SessionLife
        /\ c \in loggedOut => sessions[c] = NoRow

(* A request that was let in came with the cookie of a session made before.  *)
CookiesKnown ==
    \A v \in Visits :
        visits[v].step \in Served \cup {"expired"} => visits[v].cookie \in 1..logins

(* A change about to write has a new password that is long enough, and the   *)
(* old one still is the user's unless another change has come in between.    *)
WritesKnown ==
    \A v \in Visits : visits[v].step = "write" =>
        visits[v].new \in Passwords /\ (visits[v].late \/ visits[v].old = password)

SessionsInv == SessionsTypeOK /\ RowsHonest /\ CookiesKnown /\ WritesKnown

LEMMA SessionsInvInit == SessionsInit => SessionsInv
<1> SUFFICES ASSUME SessionsInit PROVE SessionsInv
  OBVIOUS
<1> USE SessionsAssumption DEF SessionsInit
<1>1. NoRow \in 0..NoRow /\ 0 \in 0..MaxClock
  BY DEF NoRow
<1>2. SessionsTypeOK
  BY <1>1 DEF SessionsTypeOK, NoVisit, NoCookie, Served
<1>3. RowsHonest /\ CookiesKnown /\ WritesKnown
  BY DEF RowsHonest, CookiesKnown, WritesKnown, NoVisit, Served
<1> QED
  BY <1>2, <1>3 DEF SessionsInv

(* The visits of the other requests stay of their type, and so does this one.*)
VisitType == [step : Served \cup {"idle", "create", "expired", "write"},
              cookie : Cookies \cup {NoCookie},
              old : Passwords \cup {Short}, new : Passwords \cup {Short},
              late : BOOLEAN]

LEMMA NoVisitType == NoVisit \in VisitType
BY DEF NoVisit, VisitType, NoCookie, Served

(* A request with cookie c that finds a row: it is served only while the     *)
(* session is valid.                                                         *)
Asks(v, c) ==
    \/ OpenPage(v, c) \/ AskLogout(v, c)
    \/ \E old, new \in Passwords \cup {Short} : AskChange(v, c, old, new)

LEMMA Asked ==
    ASSUME NEW v \in Visits, NEW c \in Cookies, Asks(v, c)
    PROVE  /\ \E x \in VisitType :
                 /\ visits' = [visits EXCEPT ![v] = x]
                 /\ x.cookie = c /\ x.step \in Served \cup {"expired"}
                 /\ x.step \in Served => Valid(c)
           /\ sessions[c] # NoRow
           /\ UNCHANGED <<password, sessions, logins, clock, madeAt, loggedOut>>
<1>1. ASSUME NEW x \in VisitType, GetSession(v, c, x), x.cookie = c, x.step \in Served
      PROVE  /\ \E y \in VisitType :
                   /\ visits' = [visits EXCEPT ![v] = y]
                   /\ y.cookie = c /\ y.step \in Served \cup {"expired"}
                   /\ y.step \in Served => Valid(c)
             /\ sessions[c] # NoRow
             /\ UNCHANGED <<password, sessions, logins, clock, madeAt, loggedOut>>
  <2> DEFINE e == [NoVisit EXCEPT !.step = "expired", !.cookie = c]
  <2>1. e \in VisitType /\ e.cookie = c /\ e.step = "expired"
    BY NoVisitType DEF VisitType, NoVisit
  <2>2. "expired" \notin Served
    BY DEF Served
  <2>3. visits' = [visits EXCEPT ![v] = IF Valid(c) THEN x ELSE e]
    BY <1>1 DEF GetSession
  <2>4. CASE Valid(c)
    BY <1>1, <2>3, <2>4 DEF GetSession
  <2>5. CASE ~Valid(c)
    BY <1>1, <2>1, <2>2, <2>3, <2>5 DEF GetSession
  <2> QED
    BY <2>4, <2>5
<1>2. CASE OpenPage(v, c)
  <2> DEFINE x == [NoVisit EXCEPT !.step = "page", !.cookie = c]
  <2>1. x \in VisitType /\ x.cookie = c /\ x.step \in Served
    BY NoVisitType DEF VisitType, NoVisit, Served
  <2> QED
    BY <1>1, <1>2, <2>1 DEF OpenPage
<1>3. CASE AskLogout(v, c)
  <2> DEFINE x == [NoVisit EXCEPT !.step = "logout", !.cookie = c]
  <2>1. x \in VisitType /\ x.cookie = c /\ x.step \in Served
    BY NoVisitType DEF VisitType, NoVisit, Served
  <2> QED
    BY <1>1, <1>3, <2>1 DEF AskLogout
<1>4. ASSUME NEW old \in Passwords \cup {Short}, NEW new \in Passwords \cup {Short},
             AskChange(v, c, old, new)
      PROVE  /\ \E y \in VisitType :
                   /\ visits' = [visits EXCEPT ![v] = y]
                   /\ y.cookie = c /\ y.step \in Served \cup {"expired"}
                   /\ y.step \in Served => Valid(c)
             /\ sessions[c] # NoRow
             /\ UNCHANGED <<password, sessions, logins, clock, madeAt, loggedOut>>
  <2> DEFINE x == [step |-> "compare", cookie |-> c, old |-> old, new |-> new, late |-> FALSE]
  <2>1. x \in VisitType /\ x.cookie = c /\ x.step \in Served
    BY DEF VisitType, Served
  <2> QED
    BY <1>1, <1>4, <2>1 DEF AskChange
<1> QED
  BY <1>2, <1>3, <1>4 DEF Asks

LEMMA AskInv ==
    ASSUME SessionsInv, NEW v \in Visits, NEW c \in Cookies, Asks(v, c)
    PROVE  SessionsInv'
<1>1. visits \in [Visits -> VisitType]
  BY DEF SessionsInv, SessionsTypeOK, VisitType
<1>2. PICK x \in VisitType : visits' = [visits EXCEPT ![v] = x]
                             /\ x.cookie = c /\ x.step \in Served \cup {"expired"}
  BY Asked
<1>3. UNCHANGED <<password, sessions, logins, clock, madeAt, loggedOut>>
      /\ sessions[c] # NoRow
  BY Asked
<1>4. c \in 1..logins
  BY <1>3, SessionsAssumption DEF SessionsInv, SessionsTypeOK, Cookies
<1>5. /\ visits' \in [Visits -> VisitType]
      /\ \A w \in Visits : visits'[w] = visits[w] \/ visits'[w] = x
  BY <1>1, <1>2
<1>6. x.step # "write"
  BY <1>2 DEF Served
<1>7. CookiesKnown' /\ WritesKnown'
  BY <1>2, <1>3, <1>4, <1>5, <1>6 DEF CookiesKnown, WritesKnown, SessionsInv
<1> QED
  BY <1>3, <1>5, <1>7 DEF SessionsInv, SessionsTypeOK, RowsHonest, VisitType

(* A request that ends comes with no cookie any more.                        *)
LEMMA LeaveKnown ==
    ASSUME SessionsInv, NEW v \in Visits, Leave(v), logins' \in {logins, logins + 1},
           UNCHANGED password
    PROVE  CookiesKnown' /\ WritesKnown'
<1>1. \A w \in Visits : visits'[w] = visits[w] \/ visits'[w].step = "idle"
  BY DEF Leave, NoVisit, SessionsInv, SessionsTypeOK
<1> QED
  BY <1>1, SessionsAssumption DEF CookiesKnown, WritesKnown, Served, SessionsInv, SessionsTypeOK

LEMMA CreateInv ==
    ASSUME SessionsInv, NEW v \in Visits, CreateSession(v)
    PROVE  SessionsInv'
<1> USE SessionsAssumption DEF SessionsInv, SessionsTypeOK, VisitType
<1>1. visits' \in [Visits -> VisitType] /\ UNCHANGED <<password, clock, loggedOut>>
  BY NoVisitType DEF CreateSession, Leave
<1>0. CookiesKnown' /\ WritesKnown'
  BY LeaveKnown DEF CreateSession
<1>2. CASE UNCHANGED <<sessions, madeAt, logins>>
  BY <1>0, <1>1, <1>2 DEF RowsHonest
<1>3. CASE /\ sessions' = [sessions EXCEPT ![logins + 1] = clock + SessionLife]
           /\ madeAt' = [madeAt EXCEPT ![logins + 1] = clock]
           /\ logins' = logins + 1
  <2>1. logins + 1 \in Cookies /\ logins + 1 \notin loggedOut
    BY DEF CreateSession, Cookies
  <2>2. clock + SessionLife \in 0..NoRow
    BY DEF NoRow
  <2>3. sessions' \in [Cookies -> 0..NoRow] /\ madeAt' \in [Cookies -> 0..MaxClock]
    BY <1>3, <2>1, <2>2
  <2>4. logins' \in 0..MaxLogins /\ loggedOut' \subseteq 1..logins'
    BY <1>1, <1>3, <2>1 DEF Cookies
  <2>5. \A c \in Cookies : c > logins' => sessions'[c] = NoRow
    BY <1>3, <2>1 DEF Cookies
  <2>6. RowsHonest'
    BY <1>1, <1>3, <2>1 DEF RowsHonest
  <2> QED
    BY <1>0, <1>1, <2>3, <2>4, <2>5, <2>6
<1> QED
  BY <1>2, <1>3 DEF CreateSession

LEMMA DeleteInv ==
    ASSUME SessionsInv, NEW v \in Visits, DropExpired(v) \/ Logout(v)
    PROVE  SessionsInv'
<1> USE SessionsAssumption DEF SessionsInv, SessionsTypeOK, VisitType
<1>1. /\ visits' \in [Visits -> VisitType]
      /\ UNCHANGED <<password, logins, clock, madeAt>>
  BY NoVisitType DEF DropExpired, Logout, Leave
<1>0. CookiesKnown' /\ WritesKnown'
  BY LeaveKnown DEF DropExpired, Logout
<1> DEFINE c == visits[v].cookie
<1>2. CASE sessions' = sessions /\ loggedOut' = loggedOut
  BY <1>0, <1>1, <1>2 DEF RowsHonest
<1>3. CASE sessions' = Without(c) /\ loggedOut' \in {loggedOut, loggedOut \cup {c}}
  <2>1. NoRow \in 0..NoRow
    BY DEF NoRow
  <2>2. sessions' = [sessions EXCEPT ![c] = NoRow]
    BY <1>3 DEF Without
  <2>3. sessions' \in [Cookies -> 0..NoRow] /\ RowsHonest'
        /\ \A d \in Cookies : d > logins => sessions'[d] = NoRow
    BY <1>1, <1>3, <2>1, <2>2 DEF RowsHonest
  <2>4. c \in 1..logins
    BY DEF DropExpired, Logout, CookiesKnown, Served
  <2>5. loggedOut' \subseteq 1..logins
    BY <1>3, <2>4
  <2> QED
    BY <1>0, <1>1, <2>3, <2>5
<1> QED
  BY <1>2, <1>3 DEF DropExpired, Logout

(* The other steps leave the table of sessions alone.                        *)
LEMMA OtherInv ==
    ASSUME SessionsInv, [SessionsNext]_sessionVars, UNCHANGED <<sessions, logins, madeAt, loggedOut>>,
           visits' \in [Visits -> VisitType], password' \in Passwords, clock' \in 0..MaxClock,
           \A v \in Visits : visits'[v].step \in Served \cup {"expired"} =>
              visits'[v].cookie = visits[v].cookie /\ visits[v].step \in Served \cup {"expired"},
           WritesKnown'
    PROVE  SessionsInv'
BY DEF SessionsInv, SessionsTypeOK, VisitType, RowsHonest, CookiesKnown

LEMMA SessionsInvStep == SessionsInv /\ [SessionsNext]_sessionVars => SessionsInv'
<1> SUFFICES ASSUME SessionsInv, [SessionsNext]_sessionVars PROVE SessionsInv'
  OBVIOUS
<1>1. visits \in [Visits -> VisitType] /\ password \in Passwords /\ clock \in 0..MaxClock
  BY DEF SessionsInv, SessionsTypeOK, VisitType
<1>2. ASSUME NEW v \in Visits, CheckPassword(v) PROVE SessionsInv'
  <2>1. [visits[v] EXCEPT !.step = "create"] \in VisitType
    BY <1>1 DEF VisitType
  <2>2. visits' = [visits EXCEPT ![v] = [visits[v] EXCEPT !.step = "create"]]
    BY <1>2 DEF CheckPassword
  <2>3. /\ visits' \in [Visits -> VisitType] /\ visits'[v].step = "create"
        /\ \A w \in Visits : w # v => visits'[w] = visits[w]
    BY <1>1, <2>1, <2>2 DEF VisitType
  <2>4. WritesKnown'
    BY <1>2, <2>3 DEF CheckPassword, WritesKnown, SessionsInv
  <2> QED
    BY <1>1, <1>2, <2>3, <2>4, OtherInv DEF CheckPassword, Served
<1>3. ASSUME NEW v \in Visits, ShowPage(v) PROVE SessionsInv'
  <2>1. /\ visits' \in [Visits -> VisitType] /\ visits'[v].step = "idle"
        /\ \A w \in Visits : w # v => visits'[w] = visits[w]
    BY <1>1, <1>3, NoVisitType DEF ShowPage, Leave, NoVisit
  <2>2. WritesKnown'
    BY <1>3, <2>1 DEF ShowPage, WritesKnown, SessionsInv
  <2> QED
    BY <1>1, <1>3, <2>1, <2>2, OtherInv DEF ShowPage, Served
<1>4. ASSUME NEW v \in Visits, ComparePassword(v) PROVE SessionsInv'
  <2>1. [visits[v] EXCEPT !.step = "write"] \in VisitType
    BY <1>1 DEF VisitType
  <2>2. visits' = [visits EXCEPT ![v] =
                      IF Accepted(v) THEN [visits[v] EXCEPT !.step = "write"] ELSE NoVisit]
    BY <1>4 DEF ComparePassword
  <2>3. /\ visits' \in [Visits -> VisitType] /\ visits'[v].step \in {"write", "idle"}
        /\ \A w \in Visits : w # v => visits'[w] = visits[w]
    BY <1>1, <2>1, <2>2, NoVisitType DEF VisitType, NoVisit
  <2>4. visits'[v].step = "write" =>
           /\ Accepted(v) /\ visits'[v].new = visits[v].new /\ visits'[v].old = visits[v].old
    BY <1>1, <2>2 DEF VisitType, NoVisit
  <2>5. WritesKnown'
    BY <1>1, <1>4, <2>3, <2>4 DEF ComparePassword, Accepted, WritesKnown, SessionsInv, VisitType
  <2> QED
    BY <1>1, <1>4, <2>3, <2>5, OtherInv DEF ComparePassword, Served
<1>5. ASSUME NEW v \in Visits, WritePassword(v) PROVE SessionsInv'
  <2>1. CASE password' = password /\ Leave(v)
    <3>1. /\ visits' \in [Visits -> VisitType] /\ visits'[v].step = "idle"
          /\ \A w \in Visits : w # v => visits'[w] = visits[w]
      BY <1>1, <2>1, NoVisitType DEF Leave, NoVisit
    <3>2. WritesKnown'
      BY <1>5, <2>1, <3>1 DEF WritePassword, WritesKnown, SessionsInv
    <3> QED
      BY <1>1, <1>5, <2>1, <3>1, <3>2, OtherInv DEF WritePassword, Served
  <2>2. CASE /\ password' = visits[v].new
             /\ visits' = [w \in Visits |->
                   IF w = v THEN NoVisit
                   ELSE [visits[w] EXCEPT !.late = @ \/ visits[w].step = "write"]]
    <3>1. password' \in Passwords
      BY <1>5, <2>2 DEF WritePassword, SessionsInv, WritesKnown
    <3>2. ASSUME NEW w \in Visits, w # v
          PROVE  /\ visits'[w] \in VisitType /\ visits'[w].step = visits[w].step
                 /\ visits'[w].cookie = visits[w].cookie
                 /\ visits'[w].new = visits[w].new
                 /\ visits[w].step = "write" => visits'[w].late
      BY <1>1, <2>2, <3>2 DEF VisitType
    <3>3. visits'[v] = NoVisit
      BY <2>2
    <3>4. WritesKnown'
      BY <3>2, <3>3 DEF WritesKnown, SessionsInv, NoVisit
    <3> QED
      BY <1>1, <1>5, <2>2, <3>1, <3>2, <3>3, <3>4, NoVisitType, OtherInv
         DEF WritePassword, Served, NoVisit
  <2> QED
    BY <1>5, <2>1, <2>2 DEF WritePassword
<1>6. CASE SessionsRestart
  <2>1. \A v \in Visits : visits'[v] = NoVisit
    BY <1>6 DEF SessionsRestart
  <2>2. visits' \in [Visits -> VisitType]
    BY <1>6, NoVisitType DEF SessionsRestart
  <2>3. WritesKnown'
    BY <2>1 DEF WritesKnown, NoVisit
  <2> QED
    BY <1>1, <1>6, <2>1, <2>2, <2>3, OtherInv DEF SessionsRestart, NoVisit, Served
<1>7. CASE TimePasses
  BY <1>1, <1>7, SessionsAssumption, OtherInv DEF TimePasses, WritesKnown, SessionsInv
<1>8. CASE UNCHANGED sessionVars
  BY <1>1, <1>8, OtherInv DEF sessionVars, WritesKnown, SessionsInv
<1> QED
  BY <1>2, <1>3, <1>4, <1>5, <1>6, <1>7, <1>8, AskInv, CreateInv, DeleteInv
     DEF SessionsNext, Asks

-----------------------------------------------------------------------------
(* Types, honest rows and known requests, in every state.                    *)
THEOREM SessionsInvariant == SessionsSpec => []SessionsInv
BY SessionsInvInit, SessionsInvStep, PTL DEF SessionsSpec

(* Logout and age end a session for good: no later request is let in by its  *)
(* cookie, however the statements of the requests interleave.                *)
THEOREM EndIsFinal == SessionsSpec => EndedStaysEnded
<1>1. ASSUME SessionsInv, [SessionsNext]_sessionVars, NEW v \in Visits,
             visits[v] = NoVisit, visits'[v].step \in Served
      PROVE  /\ visits'[v].cookie \notin loggedOut
             /\ clock - madeAt[visits'[v].cookie] <= SessionLife
  <2>1. visits \in [Visits -> VisitType] /\ visits[v].step = "idle"
    BY <1>1 DEF SessionsInv, SessionsTypeOK, VisitType, NoVisit
  <2>2. PICK c \in Cookies : Asks(v, c)
    <3>1. ASSUME NEW w \in Visits, NEW c \in Cookies, w # v, Asks(w, c)
          PROVE  visits'[v] = visits[v]
      BY <2>1, <3>1, Asked
    <3>2. ASSUME NEW w \in Visits,
                 \/ CheckPassword(w) \/ CreateSession(w) \/ DropExpired(w) \/ Logout(w)
                 \/ ShowPage(w) \/ ComparePassword(w)
          PROVE  visits'[v].step \notin Served
      BY <2>1, <3>2 DEF CheckPassword, CreateSession, DropExpired, Logout, ShowPage,
                        ComparePassword, Leave, NoVisit, Served, VisitType
    <3>3. ASSUME NEW w \in Visits, WritePassword(w)
          PROVE  visits'[v].step = "idle"
      BY <2>1, <3>3 DEF WritePassword, Leave, NoVisit, VisitType
    <3>4. CASE SessionsRestart \/ TimePasses \/ UNCHANGED sessionVars
      BY <1>1, <2>1, <3>4 DEF SessionsRestart, TimePasses, sessionVars, NoVisit, Served
    <3> QED
      BY <1>1, <2>1, <3>1, <3>2, <3>3, <3>4 DEF SessionsNext, Served, Asks
  <2>3. Valid(c) /\ visits'[v].cookie = c
    BY <1>1, <2>1, <2>2, Asked
  <2> QED
    BY <1>1, <2>3, SessionsAssumption DEF Valid, SessionsInv, RowsHonest, SessionsTypeOK
<1>2. SessionsInv /\ [SessionsNext]_sessionVars =>
         [\A v \in Visits :
             visits[v] = NoVisit /\ visits'[v].step \in Served =>
                 /\ visits'[v].cookie \notin loggedOut
                 /\ clock - madeAt[visits'[v].cookie] <= SessionLife]_sessionVars
  BY <1>1
<1> QED
  BY <1>2, SessionsInvariant, PTL DEF SessionsSpec, EndedStaysEnded

(* Only someone who knows the present password replaces it, unless two       *)
(* changes have compared before either has written.                          *)
THEOREM ChangesNeedPassword == SessionsSpec => ChangeKnowsPassword
<1>1. SessionsInv => \A v \in Visits :
                visits[v].step = "write" /\ ~visits[v].late => visits[v].old = password
  BY DEF SessionsInv, WritesKnown
<1>2. SessionsInv => [\A v \in Visits :
                 visits[v].step = "write" /\ ~visits[v].late /\ password' # password
                 /\ visits'[v].step = "idle"
                 => visits[v].old = password]_sessionVars
  BY <1>1
<1> QED
  BY <1>2, SessionsInvariant, PTL DEF ChangeKnowsPassword
================================================================================
