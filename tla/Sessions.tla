------------------------------- MODULE Sessions -------------------------------
(***************************************************************************)
(* The session of a person in a browser, under the OIDC provider of the    *)
(* web application: login, the sliding cookie, and logout                  *)
(* (apps/web/src/lib/auth, apps/web/src/app/api/auth; under the local      *)
(* provider a login is one form post and a logout asks no issuer).         *)
(*                                                                         *)
(* The tabs share the browser's cookies. A page's answer may carry a new   *)
(* cookie; it takes effect when the answer arrives.                        *)
(***************************************************************************)
EXTENDS Integers

CONSTANTS
  Tabs,      \* tabs of the browser
  Ttl,       \* units of time that a session lives
  Threshold  \* remaining units from which a session is renewed

ASSUME SessionsAssumption == Ttl \in Nat /\ Threshold \in 1..(Ttl - 1)

VARIABLES
  at,        \* where each tab is
  cookie,    \* units that the session cookie has left; none at 0
  flow,      \* the tab whose login the transient cookies belong to
  discovery, \* the process's memoised discovery of the issuer
  arriving,  \* pages in flight: those that carry a renewed cookie
  out,       \* history: logged out since the last login
  idle       \* history: units since the person last opened a page

sessionVars == <<at, cookie, flow, discovery, arriving, out, idle>>

NoTab == "NO_TAB"
Places == {"LOGIN", "ISSUER", "PAGE"}

SessionsTypeOK ==
  /\ at \in [Tabs -> Places]
  /\ cookie \in 0..Ttl /\ idle \in 0..Ttl
  /\ flow \in Tabs \cup {NoTab}
  /\ discovery \in {"NONE", "READY", "REJECTED"}
  /\ arriving \subseteq Tabs
  /\ out \in BOOLEAN

SessionsInit ==
  /\ at = [t \in Tabs |-> "LOGIN"]
  /\ cookie = 0 /\ idle = 0
  /\ flow = NoTab
  /\ discovery = "NONE"
  /\ arriving = {}
  /\ out = FALSE

------------------------------------------------------------------------------
(* Login *)

\* The first that asks for the issuer's configuration has it discovered; what
\* came of it, a failure too, is kept until the process restarts.
Discovered(d) ==
  /\ discovery' = d
  /\ d \in IF discovery = "NONE" THEN {"READY", "REJECTED"} ELSE {discovery}

\* A tab goes to the issuer, the state of its login in the transient cookies.
Start(t) ==
  /\ at[t] = "LOGIN"
  /\ \E d \in {"READY", "REJECTED"} :
       /\ Discovered(d)
       /\ flow' = IF d = "READY" THEN t ELSE flow
       /\ at' = IF d = "READY" THEN [at EXCEPT ![t] = "ISSUER"] ELSE at
  /\ UNCHANGED <<cookie, arriving, out, idle>>

\* The issuer sends the tab back. The login must be the one of the transient
\* cookies, which are cleared whatever comes of it; to complete it the issuer's
\* configuration is needed again.
Callback(t) ==
  /\ at[t] = "ISSUER"
  /\ flow' = NoTab
  /\ \E d \in {"READY", "REJECTED"}, completes \in BOOLEAN :
       /\ IF flow = NoTab THEN UNCHANGED discovery ELSE Discovered(d)
       /\ IF completes /\ flow = t /\ d = "READY"
          THEN /\ at' = [at EXCEPT ![t] = "PAGE"]
               /\ cookie' = Ttl /\ idle' = 0 /\ out' = FALSE
          ELSE /\ at' = [at EXCEPT ![t] = "LOGIN"]
               /\ UNCHANGED <<cookie, idle, out>>
  /\ UNCHANGED arriving

------------------------------------------------------------------------------
(* The sliding cookie *)

\* Mutant: a session at the threshold is not renewed.
ShouldRefreshLate(left) == left < Threshold
ShouldRefresh(left) == left <= Threshold

\* A tab opens a page. Without a session it is sent to /login; near its end the
\* session is issued anew. API routes are exempt: they neither redirect nor renew.
Navigate(t) ==
  /\ at[t] \in {"LOGIN", "PAGE"} /\ t \notin arriving
  /\ at' = [at EXCEPT ![t] = IF cookie = 0 THEN "LOGIN" ELSE "PAGE"]
  /\ arriving' = IF cookie > 0 /\ ShouldRefresh(cookie) THEN arriving \cup {t} ELSE arriving
  /\ idle' = IF cookie > 0 THEN 0 ELSE idle
  /\ UNCHANGED <<cookie, flow, discovery, out>>

\* The answer arrives, its cookie with it.
Arrive(t) ==
  /\ t \in arriving
  /\ arriving' = arriving \ {t}
  /\ cookie' = Ttl
  /\ UNCHANGED <<at, flow, discovery, out, idle>>

\* Time passes, in units in which an answer arrives.
Tick ==
  /\ cookie > 0 /\ arriving = {}
  /\ cookie' = cookie - 1
  /\ idle' = IF idle < Ttl THEN idle + 1 ELSE idle
  /\ UNCHANGED <<at, flow, discovery, arriving, out>>

------------------------------------------------------------------------------
(* Logout *)

\* A logout asks the issuer where to go next, and then clears the cookie. If
\* the issuer cannot be discovered it fails, and the cookie stays.
Logout(t) ==
  /\ at[t] = "PAGE"
  /\ out' = TRUE
  /\ \E d \in {"READY", "REJECTED"} :
       /\ Discovered(d)
       /\ cookie' = IF d = "READY" THEN 0 ELSE cookie
       /\ at' = IF d = "READY" THEN [at EXCEPT ![t] = "LOGIN"] ELSE at
  /\ UNCHANGED <<flow, arriving, idle>>

\* The web process restarts.
RestartWeb ==
  /\ discovery' = "NONE"
  /\ UNCHANGED <<at, cookie, flow, arriving, out, idle>>

------------------------------------------------------------------------------
(* Properties *)

\* "Sliding refresh: keep an active human signed in past the original expiry"
\* (session-middleware.ts): a session has time left for as long as its person
\* has opened a page within the threshold; whatever ends earlier was logged out.
UsedSessionsLast ==
  cookie > 0 /\ arriving = {} => cookie + idle > Threshold
=============================================================================
