------------------------------ MODULE Sessions ------------------------------
(***************************************************************************)
(* The sessions of the Web API in LAN mode (src/api/auth.rs): login,       *)
(* logout, expiry, and the check in front of every protected route.        *)
(* The tabs of one browser share its session cookie, and each keeps the    *)
(* CSRF token it was given last.  A check reads the session, looks at the  *)
(* clock, and removes an expired session under a second lock.              *)
(*                                                                         *)
(* Tokens are never given twice (Uuid::new_v4); the CSRF token of a        *)
(* session is named by the session's token.                                *)
(***************************************************************************)
EXTENDS Naturals, FiniteSets

CONSTANTS
  Token, NoToken,
  Tab,
  SessionTicks,   \* SESSION_HOURS
  MaxClock        \* bound of the clock

VARIABLES
  sessions,   \* for every token in the map, when it expires
  clock,
  given,      \* tokens handed out so far
  cookie,     \* the cookie of the browser
  tab,        \* CSRF token of each tab and its request under way
  ended       \* history: tokens whose session has ended, by logout, by time or a restart

vars == <<sessions, clock, given, cookie, tab, ended>>

NoRequest == [at |-> "none", kind |-> "get", token |-> NoToken, csrf |-> NoToken,
              expires |-> 0, late |-> FALSE]

Init ==
  /\ sessions = << >>
  /\ clock = 0
  /\ given = {}
  /\ cookie = NoToken
  /\ tab = [b \in Tab |-> [csrf |-> NoToken, request |-> NoRequest]]
  /\ ended = {}

Remove(t) == [u \in DOMAIN sessions \ {t} |-> sessions[u]]

\* Mutant: an expired session is one whose time has passed, not reached.
Expired_Later(expires) == expires < clock

Expired(expires) == expires <= clock

-----------------------------------------------------------------------------

Tick ==
  /\ clock < MaxClock
  /\ clock' = clock + 1
  /\ ended' = ended \union {t \in DOMAIN sessions : sessions[t] <= clock'}
  /\ UNCHANGED <<sessions, given, cookie, tab>>

\* POST /auth/login with the right credentials; others are refused.
Login(b) ==
  /\ tab[b].request = NoRequest
  /\ \E t \in Token \ given :
       /\ given' = given \union {t}
       /\ sessions' = [u \in DOMAIN sessions \union {t} |->
                         IF u = t THEN clock + SessionTicks ELSE sessions[u]]
       /\ cookie' = t
       /\ tab' = [tab EXCEPT ![b].csrf = t]
  /\ UNCHANGED <<clock, ended>>

\* GET /auth/session: the CSRF token of the session of the cookie, if it lives.
\* An expired session is removed on the way.
AskSession(b) ==
  /\ tab[b].request = NoRequest
  /\ LET alive == cookie \in DOMAIN sessions /\ ~ Expired(sessions[cookie])
     IN /\ tab' = [tab EXCEPT ![b].csrf = IF alive THEN cookie ELSE NoToken]
        /\ sessions' = IF alive THEN sessions ELSE Remove(cookie)
  /\ UNCHANGED <<clock, given, cookie, ended>>

\* A request to a protected route leaves the tab with the cookie of that moment.
\* "late" remembers that its session had ended before it was sent.
Send(b, kind) ==
  /\ tab[b].request = NoRequest /\ cookie # NoToken
  /\ tab' = [tab EXCEPT ![b].request =
               [at |-> "sent", kind |-> kind, token |-> cookie, csrf |-> tab[b].csrf,
                expires |-> 0, late |-> cookie \in ended]]
  /\ UNCHANGED <<sessions, clock, given, cookie, ended>>

Answer(b) == tab' = [tab EXCEPT ![b].request = NoRequest]

\* AuthManager::session, under the read lock: a copy of the session, or 401.
ReadSession(b) ==
  LET r == tab[b].request
  IN /\ r.at = "sent"
     /\ IF r.token \in DOMAIN sessions
        THEN tab' = [tab EXCEPT ![b].request.at = "read",
                                ![b].request.expires = sessions[r.token]]
        ELSE Answer(b)
     /\ UNCHANGED <<sessions, clock, given, cookie, ended>>

CsrfMatches(r) == r.kind = "get" \/ r.csrf = r.token

\* The rest of require_auth: 401 and removal, 403, or the handler runs.
CheckSession(b) ==
  LET r == tab[b].request
  IN /\ r.at = "read"
     /\ IF Expired(r.expires)
        THEN Answer(b) /\ sessions' = Remove(r.token)
        ELSE /\ IF CsrfMatches(r) THEN tab' = [tab EXCEPT ![b].request.at = "admitted"]
                                  ELSE Answer(b)
             /\ UNCHANGED sessions
     /\ UNCHANGED <<clock, given, cookie, ended>>

\* The handler of any other route.
Serve(b) ==
  /\ tab[b].request.at = "admitted" /\ tab[b].request.kind # "logout"
  /\ Answer(b)
  /\ UNCHANGED <<sessions, clock, given, cookie, ended>>

\* DELETE /auth/session, itself a protected route.
Logout(b) ==
  /\ tab[b].request.at = "admitted" /\ tab[b].request.kind = "logout"
  /\ sessions' = Remove(tab[b].request.token)
  /\ ended' = ended \union {tab[b].request.token}
  /\ tab' = [tab EXCEPT ![b].request.at = "loggedOut"]
  /\ UNCHANGED <<clock, given, cookie>>

\* Its answer clears the cookie of the browser, or is lost.
LoggedOut(b) ==
  /\ tab[b].request.at = "loggedOut"
  /\ cookie' \in {NoToken, cookie}
  /\ Answer(b)
  /\ UNCHANGED <<sessions, clock, given, ended>>

\* Sessions live in memory only.  The browser keeps its cookie.
Restart ==
  /\ sessions' = << >>
  /\ ended' = given
  /\ tab' = [b \in Tab |-> [tab[b] EXCEPT !.request = NoRequest]]
  /\ UNCHANGED <<clock, given, cookie>>

Next ==
  \/ Tick \/ Restart
  \/ \E b \in Tab :
       \/ Login(b) \/ AskSession(b)
       \/ \E kind \in {"get", "put", "logout"} : Send(b, kind)
       \/ ReadSession(b) \/ CheckSession(b) \/ Serve(b) \/ Logout(b) \/ LoggedOut(b)

Spec == Init /\ [][Next]_vars

-----------------------------------------------------------------------------
(* Properties *)

\* A request sent after its session ended never reaches a handler, whether any
\* tab logged out, the time was up or the process was restarted; a request that
\* was already under way may.
EndedStaysEnded ==
  \A b \in Tab : tab[b].request.at = "admitted" => ~ tab[b].request.late
=============================================================================
