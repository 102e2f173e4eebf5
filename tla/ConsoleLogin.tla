----------------------------- MODULE ConsoleLogin -----------------------------
(***************************************************************************)
(* Logins and sessions of the console (internal/pveweb/auth.go), for the   *)
(* tabs of one remote address: the limit is kept for each address apart.   *)
(* A login is checked against the limit, verified, and recorded in three   *)
(* steps, between which other requests run; each step holds its mutex.     *)
(*                                                                         *)
(* A token is the number of the login that was granted it, and a tab's     *)
(* cookie the last token it got, 0 when it has none.                       *)
(***************************************************************************)
EXTENDS ConsoleRequests

CONSTANTS
  FailureLimit, BlockDuration, LoginWindow,   \* auth.go's constants
  SessionTTL,
  MaxFailures, MaxLogins                      \* bounds: of failures, of logins

ASSUME LimitsAssumption ==
  {FailureLimit, BlockDuration, LoginWindow, SessionTTL} \subseteq Nat \ {0}

VARIABLES
  attempt,                 \* the address's entry in the map of failures
  verifying,               \* tabs whose login has passed the limit
  sessions,                \* [token, expires]
  cookie,                  \* of each tab
  failedAt,                \* history: failures since the last success
  granted, loggedOut       \* history: the end of each login's session; tokens given back

login == <<attempt, verifying, sessions, cookie, failedAt, granted, loggedOut>>

(* A zero time.Time, before every other.                                   *)
Zero == -1

(* An address without an entry reads as an empty one.                      *)
NoAttempt == [failures |-> 0, windowStart |-> Zero, blockedUntil |-> Zero]

InitLogin ==
  /\ attempt = NoAttempt
  /\ verifying = {}
  /\ sessions = {}
  /\ cookie = [t \in Tabs |-> 0]
  /\ failedAt = <<>>
  /\ granted = <<>> /\ loggedOut = {}

WindowOver(a) == a.windowStart # Zero /\ now - a.windowStart >= LoginWindow

Blocked(a) == a.blockedUntil > now

(* handleLogin up to the verification of the password: loginAllowed        *)
(* forgets an entry whose window is over.                                  *)
BeginLogin(t) ==
  /\ t \notin verifying
  /\ ~Blocked(attempt)
  /\ attempt' = IF WindowOver(attempt) THEN NoAttempt ELSE attempt
  /\ verifying' = verifying \cup {t}
  /\ UNCHANGED <<sessions, cookie, failedAt, granted, loggedOut>>

(* Mutant: the failures of the window before still count.                  *)
FailureInAnyWindow(a) ==
  LET failures == a.failures + 1
  IN  [failures     |-> failures,
       windowStart  |-> IF a.windowStart = Zero THEN now ELSE a.windowStart,
       blockedUntil |-> IF failures >= FailureLimit THEN now + BlockDuration ELSE a.blockedUntil]

(* recordLoginFailure.                                                     *)
Failure(a) ==
  LET b        == IF a.windowStart = Zero \/ WindowOver(a)
                  THEN [NoAttempt EXCEPT !.windowStart = now] ELSE a
      failures == b.failures + 1
  IN  [b EXCEPT !.failures = failures,
                !.blockedUntil = IF failures >= FailureLimit THEN now + BlockDuration ELSE @]

LoginFails(t) ==
  /\ t \in verifying
  /\ Len(failedAt) < MaxFailures
  /\ verifying' = verifying \ {t}
  /\ attempt' = Failure(attempt)
  /\ failedAt' = Append(failedAt, now)
  /\ UNCHANGED <<sessions, cookie, granted, loggedOut>>

(* Mutant: the sessions that are still good are pruned.                    *)
Unended(stored) == {s \in stored : s.expires <= now}

Unexpired(stored) == {s \in stored : s.expires > now}

(* clearLoginFailures, and put, which prunes what has expired.             *)
LoginSucceeds(t) ==
  LET token == Len(granted) + 1
  IN  /\ t \in verifying
      /\ token <= MaxLogins
      /\ verifying' = verifying \ {t}
      /\ attempt' = NoAttempt
      /\ sessions' = Unexpired(sessions) \cup {[token |-> token, expires |-> now + SessionTTL]}
      /\ cookie' = [cookie EXCEPT ![t] = token]
      /\ failedAt' = <<>>
      /\ granted' = Append(granted, now + SessionTTL)
      /\ UNCHANGED loggedOut

(* sessionFor: the token's session, unless it has expired.                 *)
Accepted(token) == \E s \in sessions : s.token = token /\ s.expires > now

(* A request behind requireSession, or handleSession: an expired session   *)
(* is deleted when it is asked for.                                        *)
UseSession(t) ==
  /\ cookie[t] # 0
  /\ ~Accepted(cookie[t])
  /\ sessions' = {s \in sessions : s.token # cookie[t]}
  /\ UNCHANGED <<attempt, verifying, cookie, failedAt, granted, loggedOut>>

Logout(t) ==
  /\ cookie[t] # 0
  /\ sessions' = {s \in sessions : s.token # cookie[t]}
  /\ cookie' = [cookie EXCEPT ![t] = 0]
  /\ loggedOut' = loggedOut \cup {cookie[t]}
  /\ UNCHANGED <<attempt, verifying, failedAt, granted>>

LoginStep ==
  \E t \in Tabs :
    BeginLogin(t) \/ LoginFails(t) \/ LoginSucceeds(t) \/ UseSession(t) \/ Logout(t)

-----------------------------------------------------------------------------
LoginTypeOK ==
  /\ attempt.failures \in 0 .. Len(failedAt)
  /\ attempt.blockedUntil <= now + BlockDuration
  /\ verifying \subseteq Tabs
  /\ \A s \in sessions : s.token \in DOMAIN granted /\ s.expires = granted[s.token]
  /\ \A t \in Tabs : cookie[t] \in {0} \cup (DOMAIN granted \ loggedOut)

(* Who is turned away has earned it: a login is refused only while the     *)
(* last of FailureLimit failures in one LoginWindow, none of them before a *)
(* success of the address, is less than BlockDuration ago; and a session   *)
(* is refused only when it was logged out or has had its SessionTTL,       *)
(* whatever the logins of other tabs prune and however their requests      *)
(* interleave (loginAllowed, recordLoginFailure, sessionStore).            *)
AdmissionJustified ==
  /\ Blocked(attempt) =>
       \E last \in FailureLimit .. Len(failedAt) :
         /\ now < failedAt[last] + BlockDuration
         /\ failedAt[last] - failedAt[last - FailureLimit + 1] < LoginWindow
  /\ \A token \in DOMAIN granted :
       Accepted(token) <=> token \notin loggedOut /\ now < granted[token]
=============================================================================
