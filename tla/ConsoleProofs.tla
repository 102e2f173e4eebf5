----------------------------- MODULE ConsoleProofs -----------------------------
(***************************************************************************)
(* Proofs about Console, for any settings, tabs, limits and number of      *)
(* requests.                                                               *)
(*                                                                         *)
(* LoneSavesApply compares what the guard applied with what is stored.     *)
(* The induction has to know that what is to be stored next has a revision *)
(* beyond both, which holds as long as no two requests overlap: a request  *)
(* that ends then leaves no other with the revision that it stores.        *)
(*                                                                         *)
(* AdmissionJustified speaks of those who are refused; the induction has   *)
(* to know what an address's entry says of its last failures also while    *)
(* nobody is, and that every session that is good is still stored.         *)
(*                                                                         *)
(* AgentsHeard speaks of the end of a round.  The induction has to know of *)
(* each moment before, while guests are queued, how many tests had begun:  *)
(* every slot was busy, and no test keeps its slot for longer than its     *)
(* timeout, so that the last of the guests gets one by LastStart.          *)
(***************************************************************************)
EXTENDS Console, FiniteSetTheorems, TLAPS

(* The types of the configuration's variables.                             *)
Types ==
  /\ stored \in Configuration /\ applied \in Configuration
  /\ saving \in [Tabs -> SUBSET Configuration]
  /\ overlapped \in BOOLEAN

(* What a request is to store follows what is stored.                      *)
Ahead == \A t \in Tabs : \A c \in saving[t] : c.revision = stored.revision + 1

(* The guard is not ahead of the file, and one revision is one             *)
(* configuration.                                                          *)
Behind ==
  /\ applied.revision <= stored.revision
  /\ applied.revision = stored.revision => applied = stored

IInv == Types /\ (~overlapped => Ahead /\ Behind)

(* The initial states have the invariant.                                  *)
LEMMA InitInv == Init => IInv
<1> SUFFICES ASSUME InitConfig PROVE IInv
  BY DEF Init
<1>1. Default \in Configuration
  BY DefaultAssumption DEF Default, Configuration
<1>2. Types
  BY <1>1 DEF InitConfig, Types
<1>3. Ahead
  BY DEF InitConfig, Ahead
<1>4. Behind
  BY DEF InitConfig, Default, Behind
<1> QED
  BY <1>2, <1>3, <1>4 DEF IInv

(* A request that begins is numbered after what is stored.                 *)
LEMMA BeginSaveInv ==
  ASSUME IInv, NEW t \in Tabs, NEW settings \in Settings, BeginSave(t, settings)
  PROVE  IInv'
<1>1. Candidate(settings) \in Configuration /\ Candidate(settings).revision = stored.revision + 1
  BY DEF IInv, Types, Configuration, Candidate
<1>2. Types'
  BY <1>1 DEF IInv, Types, BeginSave
<1>3. ASSUME ~overlapped PROVE Ahead'
  BY <1>1, <1>3 DEF IInv, Types, Ahead, BeginSave
<1>4. ASSUME ~overlapped PROVE Behind'
  BY <1>4 DEF IInv, Behind, BeginSave
<1> QED
  BY <1>2, <1>3, <1>4 DEF IInv, BeginSave

(* A request that ends alone stores a new revision, and no other request   *)
(* is left that could store it again.                                      *)
LEMMA EndSaveInv ==
  ASSUME IInv, NEW t \in Tabs, EndSave(t)
  PROVE  IInv'
<1>1. PICK c \in saving[t] :
        /\ stored' = c
        /\ overlapped' = (overlapped \/ \E u \in Tabs \ {t} : saving[u] # {})
        /\ saving' = [saving EXCEPT ![t] = {}]
        /\ applied' = applied
  BY DEF EndSave
<1>2. c \in Configuration
  BY DEF IInv, Types
<1>3. Types'
  BY <1>1, <1>2 DEF IInv, Types
<1>4. ASSUME ~overlapped' PROVE Ahead' /\ Behind'
  <2>1. ~overlapped /\ \A u \in Tabs \ {t} : saving[u] = {}
    BY <1>1, <1>4
  <2>2. \A u \in Tabs : saving'[u] = {}
    BY <1>1, <2>1 DEF IInv, Types
  <2>3. applied.revision < c.revision
    BY <1>2, <2>1 DEF IInv, Types, Configuration, Ahead, Behind
  <2> QED
    BY <1>1, <1>2, <2>2, <2>3 DEF IInv, Types, Configuration, Ahead, Behind
<1> QED
  BY <1>3, <1>4 DEF IInv

(* Every step of the configuration's part keeps the invariant.             *)
LEMMA ConfigStepInv ==
  ASSUME IInv, ConfigStep
  PROVE  IInv'
<1>1. CASE \E t \in Tabs : EndSave(t)
  BY <1>1, EndSaveInv
<1>2. ASSUME NEW t \in Tabs, SaveFails(t) PROVE IInv'
  BY <1>2 DEF SaveFails, IInv, Types, Ahead, Behind
<1>3. CASE \E t \in Tabs, settings \in Settings : BeginSave(t, settings)
  BY <1>3, BeginSaveInv
<1>4. CASE GuardReloads
  BY <1>4 DEF GuardReloads, IInv, Types, Configuration, Ahead, Behind
<1>5. CASE GuardRestarts
  BY <1>5 DEF GuardRestarts, IInv, Types, Configuration, Ahead, Behind
<1> QED
  BY <1>1, <1>2, <1>3, <1>4, <1>5 DEF ConfigStep

(* Every step keeps the invariant: the other parts leave the configuration *)
(* alone.                                                                  *)
LEMMA NextInv ==
  ASSUME IInv, [Next]_vars
  PROVE  IInv'
<1>1. CASE ConfigStep
  BY <1>1, ConfigStepInv
<1>2. CASE UNCHANGED configuration
  BY <1>2 DEF configuration, IInv, Types, Ahead, Behind
<1> QED
  BY <1>1, <1>2 DEF Next, Tick, vars

(* A guard that finds its own revision in the file runs what the file      *)
(* says, unless two requests to save have overlapped                       *)
(* (handleSaveOutageConfig, runAutoGuard).                                 *)
THEOREM StoredSettingsApply == Spec => []LoneSavesApply
<1>1. IInv => LoneSavesApply
  BY DEF IInv, Behind, LoneSavesApply
<1> QED
  BY <1>1, InitInv, NextInv, PTL DEF Spec

-----------------------------------------------------------------------------
(* The types of the variables of logins, and of the clock.                 *)
LoginTypes ==
  /\ now \in Nat
  /\ attempt \in [failures : Nat, windowStart : Int, blockedUntil : Int]
  /\ sessions \subseteq [token : Nat, expires : Int]
  /\ cookie \in [Tabs -> Nat]
  /\ failedAt \in Seq(Nat)
  /\ granted \in Seq(Int)

(* Failures are recorded in the order of their times.                      *)
Ordered ==
  /\ \A i \in 1 .. Len(failedAt) : failedAt[i] <= now
  /\ \A i, j \in 1 .. Len(failedAt) : i <= j => failedAt[i] <= failedAt[j]

(* An entry with a window counts the last failures, all within it, and     *)
(* one with a block was blocked by the very last.                          *)
Counted ==
  LET last == Len(failedAt)
  IN  /\ attempt.windowStart # Zero =>
           /\ attempt.failures \in 1 .. last
           /\ attempt.windowStart = failedAt[last - attempt.failures + 1]
           /\ failedAt[last] - attempt.windowStart < LoginWindow
      /\ attempt.blockedUntil # Zero =>
           /\ attempt.windowStart # Zero
           /\ attempt.failures >= FailureLimit
           /\ attempt.blockedUntil = failedAt[last] + BlockDuration

(* The sessions are of logins and not given back, and a session that is    *)
(* neither given back nor over is there.                                   *)
Sessions ==
  /\ loggedOut \subseteq 1 .. Len(granted)
  /\ \A t \in Tabs : cookie[t] \in 0 .. Len(granted)
  /\ \A s \in sessions :
       s.token \in 1 .. Len(granted) /\ s.expires = granted[s.token] /\ s.token \notin loggedOut
  /\ \A token \in 1 .. Len(granted) :
       token \notin loggedOut /\ now < granted[token] =>
         \E s \in sessions : s.token = token /\ s.expires > now

LoginInv == LoginTypes /\ Ordered /\ Counted /\ Sessions

(* What LimitsAssumption says of each of the limits.                       *)
LEMMA Limits ==
  /\ FailureLimit \in Nat /\ FailureLimit > 0
  /\ BlockDuration \in Nat /\ BlockDuration > 0
  /\ LoginWindow \in Nat /\ LoginWindow > 0
  /\ SessionTTL \in Nat /\ SessionTTL > 0
  BY LimitsAssumption

(* No failures and no sessions are as they are said to be.                 *)
LEMMA InitLoginInv == Init => LoginInv
<1> SUFFICES ASSUME now = 0, InitLogin PROVE LoginInv
  BY DEF Init
<1>1. LoginTypes
  BY DEF InitLogin, LoginTypes, NoAttempt, Zero
<1>2. Ordered /\ Counted /\ Sessions
  BY DEF InitLogin, Ordered, Counted, Sessions, NoAttempt, Zero
<1> QED
  BY <1>1, <1>2 DEF LoginInv

(* A failure opens a window, or is one more of the window that is open.    *)
LEMMA FailsInv ==
  ASSUME LoginInv, NEW t \in Tabs, LoginFails(t), now' = now
  PROVE  LoginInv'
<1> DEFINE n     == Len(failedAt)
           fresh == attempt.windowStart = Zero \/ WindowOver(attempt)
           f     == IF fresh THEN 1 ELSE attempt.failures + 1
<1>1. /\ failedAt' = Append(failedAt, now)
      /\ attempt' = Failure(attempt)
      /\ UNCHANGED <<sessions, cookie, granted, loggedOut>>
  BY DEF LoginFails
<1>2. /\ failedAt' \in Seq(Nat)
      /\ Len(failedAt') = n + 1
      /\ failedAt'[n + 1] = now
      /\ \A i \in 1 .. n : failedAt'[i] = failedAt[i]
  BY <1>1 DEF LoginInv, LoginTypes
<1>3. /\ attempt' \in [failures : Nat, windowStart : Int, blockedUntil : Int]
      /\ attempt'.failures = f
      /\ attempt'.windowStart = IF fresh THEN now ELSE attempt.windowStart
      /\ attempt'.blockedUntil = IF f >= FailureLimit THEN now + BlockDuration
                                 ELSE IF fresh THEN Zero ELSE attempt.blockedUntil
  <2> DEFINE b == IF fresh THEN [NoAttempt EXCEPT !.windowStart = now] ELSE attempt
             k == b.failures + 1
  <2>1. /\ b \in [failures : Nat, windowStart : Int, blockedUntil : Int]
        /\ k = f
        /\ b.windowStart = IF fresh THEN now ELSE attempt.windowStart
        /\ b.blockedUntil = IF fresh THEN Zero ELSE attempt.blockedUntil
    BY DEF LoginInv, LoginTypes, NoAttempt, Zero
  <2>2. attempt' = [b EXCEPT !.failures = k,
                             !.blockedUntil = IF k >= FailureLimit THEN now + BlockDuration ELSE @]
    BY <1>1 DEF Failure
  <2>3. f \in Nat /\ now + BlockDuration \in Int
    BY Limits DEF LoginInv, LoginTypes
  <2> HIDE DEF b, k, f
  <2> QED
    BY <2>1, <2>2, <2>3
<1>4. LoginTypes'
  BY <1>1, <1>2, <1>3 DEF LoginInv, LoginTypes
<1>5. n \in Nat
  BY DEF LoginInv, LoginTypes
<1>6. Ordered'
  <2>1. /\ \A i \in 1 .. n : failedAt'[i] \in Nat /\ failedAt'[i] <= now
        /\ \A i, j \in 1 .. n : i <= j => failedAt'[i] <= failedAt'[j]
    <3>1. \A i \in 1 .. n : failedAt[i] \in Nat
      BY DEF LoginInv, LoginTypes
    <3>2. /\ \A i \in 1 .. n : failedAt[i] <= now
          /\ \A i, j \in 1 .. n : i <= j => failedAt[i] <= failedAt[j]
      BY DEF LoginInv, Ordered
    <3> HIDE DEF n
    <3> QED
      BY <1>2, <3>1, <3>2
  <2>2. now \in Nat
    BY DEF LoginInv, LoginTypes
  <2> HIDE DEF n
  <2>3. \A i \in 1 .. n + 1 : i = n + 1 \/ i \in 1 .. n
    BY <1>5
  <2>4. \A i \in 1 .. n + 1 : failedAt'[i] <= now
    BY <1>2, <2>1, <2>2, <2>3
  <2>5. ASSUME NEW i \in 1 .. n + 1, NEW j \in 1 .. n + 1, i <= j
        PROVE  failedAt'[i] <= failedAt'[j]
    <3>1. CASE j = n + 1
      BY <1>2, <2>4, <3>1
    <3>2. CASE j # n + 1
      BY <1>5, <2>1, <2>3, <2>5, <3>2
    <3> QED
      BY <3>1, <3>2
  <2> QED
    BY <1>2, <2>4, <2>5 DEF Ordered
<1>7. Counted'
  <2>1. CASE fresh
    BY <2>1, <1>2, <1>3, <1>5, Limits DEF LoginInv, LoginTypes, Counted, Zero
  <2>2. CASE ~fresh
    <3>1. /\ attempt.failures \in 1 .. n
          /\ attempt.windowStart = failedAt[n - attempt.failures + 1]
          /\ now - attempt.windowStart < LoginWindow
      BY <2>2, Limits DEF LoginInv, LoginTypes, Counted, WindowOver, Zero
    <3>2. /\ attempt'.failures \in 1 .. n + 1
          /\ attempt'.windowStart = failedAt'[n + 1 - attempt'.failures + 1]
          /\ failedAt'[n + 1] - attempt'.windowStart < LoginWindow
      <4>1. /\ attempt'.failures = attempt.failures + 1
            /\ attempt'.windowStart = attempt.windowStart
        BY <2>2, <1>3
      <4>2. /\ n + 1 - attempt'.failures + 1 = n - attempt.failures + 1
            /\ n - attempt.failures + 1 \in 1 .. n
            /\ attempt'.failures \in 1 .. n + 1
        <5> HIDE DEF n
        <5>1. /\ attempt'.failures = attempt.failures + 1
              /\ attempt.failures \in 1 .. n
          BY <3>1, <4>1
        <5> QED
          BY <5>1, <1>5
      <4> HIDE DEF n
      <4> QED
        BY <3>1, <4>1, <4>2, <1>2
    <3>3. attempt'.blockedUntil # Zero => attempt'.failures >= FailureLimit
      BY <2>2, <3>1, <1>3, Limits DEF LoginInv, LoginTypes, Counted
    <3>4. attempt'.blockedUntil # Zero => attempt'.blockedUntil = failedAt'[n + 1] + BlockDuration
      BY <3>3, <1>2, <1>3, Limits
    <3> QED
      <4> HIDE DEF n, fresh, f
      <4>1. attempt'.windowStart # Zero
        BY <2>2, <1>3 DEF fresh
      <4> QED
        <5>1. Len(failedAt') = n + 1
          BY <1>2
        <5> QED
          BY <3>2, <3>3, <3>4, <4>1, <5>1, <1>5 DEF Counted
  <2> QED
    BY <2>1, <2>2
<1>8. Sessions'
  BY <1>1 DEF LoginInv, Sessions
<1> QED
  BY <1>4, <1>6, <1>7, <1>8 DEF LoginInv

(* A login adds a session of its own and prunes only what is over.         *)
LEMMA SucceedsInv ==
  ASSUME LoginInv, NEW t \in Tabs, LoginSucceeds(t), now' = now
  PROVE  LoginInv'
<1> DEFINE token == Len(granted) + 1
           end   == now + SessionTTL
<1>1. /\ attempt' = NoAttempt
      /\ sessions' = Unexpired(sessions) \cup {[token |-> token, expires |-> end]}
      /\ cookie' = [cookie EXCEPT ![t] = token]
      /\ failedAt' = <<>>
      /\ granted' = Append(granted, end)
      /\ loggedOut' = loggedOut
  BY DEF LoginSucceeds
<1>2. token \in Nat /\ end \in Int /\ end > now
  BY Limits DEF LoginInv, LoginTypes
<1> HIDE DEF end
<1>3. /\ granted' \in Seq(Int)
      /\ Len(granted') = token
      /\ granted'[token] = end
      /\ \A i \in 1 .. Len(granted) : granted'[i] = granted[i]
  BY <1>1, <1>2 DEF LoginInv, LoginTypes
<1>4. LoginTypes'
  BY <1>1, <1>2, <1>3 DEF LoginInv, LoginTypes, NoAttempt, Zero, Unexpired
<1>5. Ordered' /\ Counted'
  BY <1>1 DEF Ordered, Counted, NoAttempt, Zero
<1>6. Sessions'
  <2>1. loggedOut' \subseteq 1 .. Len(granted') /\ token \notin loggedOut'
    BY <1>1, <1>2, <1>3 DEF LoginInv, LoginTypes, Sessions
  <2>2. \A u \in Tabs : cookie'[u] \in 0 .. Len(granted')
    BY <1>1, <1>2, <1>3 DEF LoginInv, LoginTypes, Sessions
  <2>3. \A s \in sessions' :
          /\ s.token \in 1 .. Len(granted')
          /\ s.expires = granted'[s.token]
          /\ s.token \notin loggedOut'
    BY <1>1, <1>2, <1>3, <2>1 DEF LoginInv, LoginTypes, Sessions, Unexpired
  <2>4. ASSUME NEW k \in 1 .. Len(granted'), k \notin loggedOut', now' < granted'[k]
        PROVE  \E s \in sessions' : s.token = k /\ s.expires > now'
    <3>1. CASE k = token
      <4> DEFINE s == [token |-> token, expires |-> end]
      <4>1. s \in sessions' /\ s.token = k /\ s.expires > now'
        BY <3>1, <1>1, <1>2
      <4> QED
        BY <4>1
    <3>2. CASE k # token
      <4>1. k \in 1 .. Len(granted) /\ k \notin loggedOut /\ now < granted[k]
        BY <3>2, <2>4, <1>1, <1>2, <1>3 DEF LoginInv, LoginTypes
      <4>2. PICK s \in sessions : s.token = k /\ s.expires > now
        BY <4>1 DEF LoginInv, Sessions
      <4> QED
        BY <4>2, <1>1 DEF Unexpired
    <3> QED
      BY <3>1, <3>2
  <2> QED
    BY <2>1, <2>2, <2>3, <2>4 DEF Sessions
<1> QED
  BY <1>4, <1>5, <1>6 DEF LoginInv

(* Every step of a login or a session keeps the invariant.                 *)
LEMMA LoginStepInv ==
  ASSUME LoginInv, LoginStep, now' = now
  PROVE  LoginInv'
<1>1. ASSUME NEW t \in Tabs, BeginLogin(t) PROVE LoginInv'
  <2>1. attempt' \in {attempt, NoAttempt} /\ UNCHANGED <<sessions, cookie, failedAt, granted, loggedOut>>
    BY <1>1 DEF BeginLogin
  <2>2. LoginTypes'
    BY <2>1 DEF LoginInv, LoginTypes, NoAttempt, Zero
  <2>3. Counted'
    BY <2>1 DEF LoginInv, Counted, NoAttempt
  <2>4. Ordered' /\ Sessions'
    BY <2>1 DEF LoginInv, Ordered, Sessions
  <2> QED
    BY <2>2, <2>3, <2>4 DEF LoginInv
<1>2. ASSUME NEW t \in Tabs, LoginFails(t) PROVE LoginInv'
  BY <1>2, FailsInv
<1>3. ASSUME NEW t \in Tabs, LoginSucceeds(t) PROVE LoginInv'
  BY <1>3, SucceedsInv
<1>4. ASSUME NEW t \in Tabs, UseSession(t) PROVE LoginInv'
  <2>1. /\ ~Accepted(cookie[t])
        /\ sessions' = {s \in sessions : s.token # cookie[t]}
        /\ UNCHANGED <<attempt, cookie, failedAt, granted, loggedOut>>
    BY <1>4 DEF UseSession
  <2>2. LoginTypes' /\ Ordered' /\ Counted'
    BY <2>1 DEF LoginInv, LoginTypes, Ordered, Counted
  <2>3. Sessions'
    BY <2>1 DEF LoginInv, Sessions, Accepted
  <2> QED
    BY <2>2, <2>3 DEF LoginInv
<1>5. ASSUME NEW t \in Tabs, Logout(t) PROVE LoginInv'
  <2>1. /\ cookie[t] # 0
        /\ sessions' = {s \in sessions : s.token # cookie[t]}
        /\ cookie' = [cookie EXCEPT ![t] = 0]
        /\ loggedOut' = loggedOut \cup {cookie[t]}
        /\ UNCHANGED <<attempt, failedAt, granted>>
    BY <1>5 DEF Logout
  <2>2. LoginTypes' /\ Ordered' /\ Counted'
    BY <2>1 DEF LoginInv, LoginTypes, Ordered, Counted
  <2>3. cookie[t] \in 1 .. Len(granted) /\ \A u \in Tabs : cookie'[u] \in {0, cookie[u]}
    BY <2>1 DEF LoginInv, LoginTypes, Sessions
  <2>4. loggedOut' \subseteq 1 .. Len(granted) /\ \A u \in Tabs : cookie'[u] \in 0 .. Len(granted)
    <3>1. loggedOut \subseteq 1 .. Len(granted) /\ \A u \in Tabs : cookie[u] \in 0 .. Len(granted)
      BY DEF LoginInv, Sessions
    <3>2. Len(granted) \in Nat
      BY DEF LoginInv, LoginTypes
    <3>3. loggedOut' \subseteq 1 .. Len(granted)
      <4>1. loggedOut' = loggedOut \cup {cookie[t]}
        BY <2>1
      <4> QED
        BY <2>3, <3>1, <4>1
    <3>4. \A u \in Tabs : cookie'[u] \in 0 .. Len(granted)
      BY <2>3, <3>1, <3>2
    <3> QED
      BY <3>3, <3>4
  <2>5. \A s \in sessions' : s.token \in 1 .. Len(granted) /\ s.expires = granted[s.token]
                               /\ s.token \notin loggedOut'
    BY <2>1 DEF LoginInv, Sessions
  <2>6. ASSUME NEW k \in 1 .. Len(granted), k \notin loggedOut', now < granted[k]
        PROVE  \E s \in sessions' : s.token = k /\ s.expires > now
    BY <2>1, <2>6 DEF LoginInv, Sessions
  <2>7. Sessions'
    BY <2>1, <2>4, <2>5, <2>6 DEF Sessions
  <2> QED
    BY <2>2, <2>7 DEF LoginInv
<1> QED
  BY <1>1, <1>2, <1>3, <1>4, <1>5 DEF LoginStep

(* Every step keeps it: the clock only ends blocks, windows and sessions.  *)
LEMMA LoginNextInv ==
  ASSUME LoginInv, [Next]_vars
  PROVE  LoginInv'
<1>1. CASE LoginStep /\ now' = now
  BY <1>1, LoginStepInv
<1>2. CASE UNCHANGED login /\ now' \in {now, now + 1}
  <2>1. LoginTypes' /\ Ordered'
    BY <1>2 DEF login, LoginInv, LoginTypes, Ordered
  <2>2. Counted'
    BY <1>2 DEF login, LoginInv, Counted
  <2>3. Sessions'
    BY <1>2 DEF login, LoginInv, LoginTypes, Sessions
  <2> QED
    BY <2>1, <2>2, <2>3 DEF LoginInv
<1> QED
  BY <1>1, <1>2 DEF Next, Tick, vars

(* Who is turned away has earned it: a block follows FailureLimit failures *)
(* within one window, and a session is refused only when it was given back *)
(* or is over (loginAllowed, recordLoginFailure, sessionStore).            *)
THEOREM RefusalsJustified == Spec => []AdmissionJustified
<1>1. ASSUME LoginInv, Blocked(attempt)
      PROVE  \E last \in FailureLimit .. Len(failedAt) :
               /\ now < failedAt[last] + BlockDuration
               /\ failedAt[last] - failedAt[last - FailureLimit + 1] < LoginWindow
  <2> DEFINE last == Len(failedAt)
  <2>1. /\ last \in Nat
        /\ attempt.blockedUntil # Zero
    BY <1>1 DEF LoginInv, LoginTypes, Blocked, Zero
  <2>2. /\ attempt.failures \in 1 .. last
        /\ attempt.failures >= FailureLimit
        /\ attempt.windowStart = failedAt[last - attempt.failures + 1]
        /\ failedAt[last] - attempt.windowStart < LoginWindow
        /\ now < failedAt[last] + BlockDuration
    BY <1>1, <2>1 DEF LoginInv, Counted, Blocked
  <2>3. /\ last - attempt.failures + 1 \in 1 .. last
        /\ last - FailureLimit + 1 \in 1 .. last
        /\ last - attempt.failures + 1 <= last - FailureLimit + 1
    BY <2>1, <2>2, Limits
  <2>4. failedAt[last - attempt.failures + 1] <= failedAt[last - FailureLimit + 1]
    BY <1>1, <2>3 DEF LoginInv, Ordered
  <2>5. failedAt[last - FailureLimit + 1] \in Nat /\ failedAt[last - attempt.failures + 1] \in Nat
        /\ failedAt[last] \in Nat
    <3>1. \A i \in 1 .. last : failedAt[i] \in Nat
      BY <1>1 DEF LoginInv, LoginTypes
    <3>2. last \in 1 .. last
      BY <2>1, <2>2
    <3> HIDE DEF last
    <3> QED
      BY <2>3, <3>1, <3>2
  <2>6. failedAt[last] - failedAt[last - FailureLimit + 1] < LoginWindow
    <3>1. failedAt[last] - failedAt[last - attempt.failures + 1] < LoginWindow
      BY <2>2
    <3>2. \A a, b, c, w \in Nat : a - b < w /\ b <= c => a - c < w
      OBVIOUS
    <3>3. LoginWindow \in Nat
      BY Limits
    <3> QED BY <2>4, <2>5, <3>1, <3>2, <3>3
  <2> QED
    BY <2>1, <2>2, <2>6, Limits
<1>2. ASSUME LoginInv, NEW token \in DOMAIN granted
      PROVE  Accepted(token) <=> token \notin loggedOut /\ now < granted[token]
  BY <1>2 DEF LoginInv, LoginTypes, Sessions, Accepted
<1>3. LoginInv => AdmissionJustified
  BY <1>1, <1>2 DEF AdmissionJustified
<1> QED
  BY <1>3, InitLoginInv, LoginNextInv, PTL DEF Spec

-----------------------------------------------------------------------------
(* The round of agent tests.                                               *)

RoundTypes ==
  /\ agent \in [VMs -> {"answers", "refuses", "hangs"}]
  /\ round \in {"listing", "testing", "answered", "failed"}
  /\ test \in [VMs -> Results \cup {"none", "queued", "testing"}]
  /\ startedAt \in [VMs -> Nat] /\ \A g \in VMs : startedAt[g] <= now
  /\ now \in Nat /\ listedAt \in Nat /\ listedAt <= now
  /\ Cardinality(In({"testing"})) <= Slots

(* How far the tests are at each stage of the round.                       *)
Stages ==
  /\ part # "agents" => round = "listing"
  /\ round \in {"listing", "failed"} => \A g \in VMs : test[g] = "none"
  /\ round \in {"testing", "answered"} =>
       now <= RoundTimeout /\ \A g \in VMs : test[g] # "none"
  /\ round = "answered" => In({"queued", "testing"}) = {}

(* The guests whose tests had begun by a moment, or were given up.         *)
Begun(moment) ==
  {g \in VMs : test[g] \notin {"none", "queued", "stopped"} /\ startedAt[g] <= moment}

(* While guests wait, every TestTimeout all slots are taken anew.          *)
Busy ==
  In({"queued"}) # {} =>
    \A k, moment \in Nat :
      listedAt + k * TestTimeout <= moment /\ moment < now =>
        Cardinality(Begun(moment)) >= Slots * (k + 1)

(* A test begins in time, and what it has found is true.                   *)
OnTime ==
  \A g \in VMs :
    /\ test[g] = "testing" =>
         /\ startedAt[g] <= LastStart
         /\ agent[g] = "answers" => now <= startedAt[g] + AnswerTime
    /\ test[g] = "success" => agent[g] = "answers"
    /\ test[g] = "failure" => agent[g] = "refuses"
    /\ test[g] = "timeout" /\ agent[g] = "answers" => LastStart + AnswerTime >= RoundTimeout

RoundInv == RoundTypes /\ Stages /\ Busy /\ OnTime

(* The constants, and their multiples, in the form the provers use.        *)
LEMMA RoundConstants ==
  /\ Slots \in Nat /\ Slots > 0
  /\ TestTimeout \in Nat /\ TestTimeout > 0
  /\ RoundTimeout \in Nat /\ RoundTimeout > 0
  /\ AnswerTime \in Nat /\ AnswerTime < TestTimeout
BY RoundAssumption

(* Turn follows turn.                                                      *)
LEMMA Turns ==
  ASSUME NEW k \in Nat
  PROVE  /\ k * TestTimeout \in Nat /\ Slots * (k + 1) \in Nat
         /\ k = 0 => k * TestTimeout = 0 /\ Slots * (k + 1) = Slots
         /\ k > 0 => /\ k * TestTimeout = (k - 1) * TestTimeout + TestTimeout
                     /\ Slots * (k + 1) = Slots * (k - 1 + 1) + Slots
<1>1. Slots \in Nat /\ TestTimeout \in Nat
  BY RoundConstants
<1>2. k * TestTimeout \in Nat /\ Slots * (k + 1) \in Nat
  BY <1>1
<1>3. k = 0 => k * TestTimeout = 0 /\ Slots * (k + 1) = Slots
  BY <1>1
<1>4. k > 0 => k * TestTimeout = (k - 1) * TestTimeout + TestTimeout
  BY <1>1
<1>5. k > 0 => Slots * (k + 1) = Slots * (k - 1 + 1) + Slots
  BY <1>1
<1> QED BY <1>2, <1>3, <1>4, <1>5

(* The turn of the last of n guests.                                       *)
LEMMA LastTurn ==
  ASSUME NEW n \in Nat, n > 0
  PROVE  \E k \in Nat : k = (n - 1) \div Slots /\ n <= Slots * (k + 1)
<1> DEFINE k == (n - 1) \div Slots
           r == (n - 1) % Slots
<1>1. Slots \in Nat /\ Slots > 0 /\ n - 1 \in Nat
  BY RoundConstants
<1>2. k \in Nat /\ r \in Nat /\ r < Slots /\ n - 1 = Slots * k + r
  BY <1>1
<1> HIDE DEF k, r
<1>3. Slots * (k + 1) = Slots * k + Slots /\ Slots * k \in Nat
  BY <1>1, <1>2
<1>4. n <= Slots * (k + 1)
  BY <1>1, <1>2, <1>3
<1> QED BY <1>2, <1>4 DEF k

(* The guests of any state of a test can be counted.                       *)
LEMMA Countable ==
  ASSUME NEW S \in SUBSET VMs
  PROVE  IsFiniteSet(S) /\ Cardinality(S) \in Nat
<1>1. IsFiniteSet(S)
  BY RoundAssumption, FS_Subset
<1> QED BY <1>1, FS_CardinalityType

(* LastStart is a time.                                                    *)
LEMMA LastStartIsTime ==
  ASSUME RoundTypes
  PROVE  LastStart \in Int
<1>1. Cardinality(VMs \ In({"stopped"})) \in Nat
  BY Countable
<1>2. PICK n \in Nat : n = Cardinality(VMs \ In({"stopped"}))
  BY <1>1
<1>3. PICK q \in Int : q = (n - 1) \div Slots
  <2>1. (n - 1) \div Slots \in Int
    BY RoundConstants
  <2> QED BY <2>1
<1>4. LastStart = listedAt + q * TestTimeout
  BY <1>2, <1>3 DEF LastStart
<1> QED BY <1>4, RoundConstants DEF RoundTypes

(* A guest that still waits has not missed the last turn.                  *)
LEMMA QueuedInTime ==
  ASSUME RoundTypes, Busy, NEW g \in VMs, test[g] = "queued"
  PROVE  now <= LastStart
<1> DEFINE N == VMs \ In({"stopped"})
           n == Cardinality(N)
<1>1. /\ N \in SUBSET VMs /\ g \in N /\ g \in In({"queued"})
      /\ IsFiniteSet(N) /\ n \in Nat
  BY Countable DEF In
<1>2. Cardinality(N \ {g}) = n - 1
  BY <1>1, FS_RemoveElement
<1>3. Cardinality(N \ {g}) \in Nat /\ IsFiniteSet(N \ {g})
  BY <1>1, Countable
<1>4. PICK k \in Nat : k = (n - 1) \div Slots /\ n <= Slots * (k + 1)
  <2>1. n > 0
    BY <1>1, <1>2, <1>3
  <2> HIDE DEF n
  <2> QED BY <1>1, <2>1, LastTurn
<1>5. LastStart = listedAt + k * TestTimeout
  BY <1>4 DEF LastStart
<1>6. /\ listedAt \in Nat /\ now \in Nat /\ k * TestTimeout \in Nat /\ Slots * (k + 1) \in Nat
  BY Turns DEF RoundTypes
<1>7. Begun(LastStart) \subseteq N \ {g}
  BY DEF Begun, In
<1>8. Cardinality(Begun(LastStart)) <= n - 1 /\ Cardinality(Begun(LastStart)) \in Nat
  <2>1. Cardinality(Begun(LastStart)) <= Cardinality(N \ {g})
    BY <1>3, <1>7, FS_Subset
  <2>2. Begun(LastStart) \in SUBSET VMs
    BY DEF Begun
  <2> QED BY <1>2, <2>1, <2>2, Countable
<1> HIDE DEF n
<1>9. SUFFICES ASSUME now > LastStart PROVE FALSE
  BY <1>5, <1>6
<1>10. LastStart \in Nat
  BY <1>5, <1>6
<1>11. Cardinality(Begun(LastStart)) >= Slots * (k + 1)
  BY <1>1, <1>5, <1>6, <1>9, <1>10 DEF Busy
<1> QED BY <1>1, <1>4, <1>6, <1>8, <1>11

(* A round begins with its list.                                           *)
LEMMA InitRoundInv == Init => RoundInv
<1> SUFFICES ASSUME Init PROVE RoundInv
  OBVIOUS
<1>1. /\ now = 0 /\ round = "listing" /\ listedAt = 0
      /\ agent \in [VMs -> {"answers", "refuses", "hangs"}]
      /\ test = [g \in VMs |-> "none"] /\ startedAt = [g \in VMs |-> 0]
  BY DEF Init, InitRound
<1>2. In({"testing"}) = {} /\ In({"queued"}) = {}
  BY <1>1 DEF In
<1>3. RoundTypes
  BY <1>1, <1>2, RoundConstants, FS_EmptySet DEF RoundTypes
<1>4. Stages /\ OnTime
  BY <1>1 DEF Stages, OnTime
<1> QED BY <1>2, <1>3, <1>4 DEF RoundInv, Busy

(* What a test may come to.                                                *)
Comes(g, v) ==
  /\ test[g] \in {"queued", "testing"}
  /\ test' = [test EXCEPT ![g] = v]
  /\ v \in {"testing", "success", "failure", "timeout"}
  /\ startedAt' = IF v = "testing" THEN [startedAt EXCEPT ![g] = now] ELSE startedAt
  /\ v = "testing" => test[g] = "queued" /\ Cardinality(In({"testing"})) < Slots
  /\ v = "success" => agent[g] = "answers"
  /\ v = "failure" => agent[g] = "refuses"
  /\ v = "timeout" /\ agent[g] = "answers" => LastStart + AnswerTime >= RoundTimeout

(* One test goes on: fewer guests wait, and more have begun.               *)
LEMMA TestInv ==
  ASSUME RoundInv, NEW g \in VMs, NEW v, Comes(g, v),
         UNCHANGED <<now, part, agent, round, listedAt>>
  PROVE  RoundInv'
<1>1. /\ RoundTypes /\ Stages /\ Busy /\ OnTime
  BY DEF RoundInv
<1>2. /\ now' = now /\ part' = part /\ agent' = agent /\ round' = round /\ listedAt' = listedAt
      /\ test[g] \in {"queued", "testing"}
      /\ test' = [test EXCEPT ![g] = v]
      /\ v \in {"testing", "success", "failure", "timeout"}
  BY DEF Comes
<1>3. /\ test \in [VMs -> Results \cup {"none", "queued", "testing"}]
      /\ startedAt \in [VMs -> Nat] /\ now \in Nat
      /\ \A h \in VMs : startedAt[h] <= now
  BY <1>1 DEF RoundTypes
<1>4. /\ test'[g] = v
      /\ \A h \in VMs : h # g => test'[h] = test[h]
      /\ test' \in [VMs -> Results \cup {"none", "queued", "testing"}]
  BY <1>2, <1>3 DEF Results
<1>5. /\ startedAt' \in [VMs -> Nat]
      /\ \A h \in VMs : h # g => startedAt'[h] = startedAt[h]
      /\ v = "testing" => startedAt'[g] = now
      /\ v # "testing" => startedAt'[g] = startedAt[g]
  <2>1. CASE v = "testing"
    BY <1>3, <2>1 DEF Comes
  <2>2. CASE v # "testing"
    BY <1>3, <2>2 DEF Comes
  <2> QED BY <2>1, <2>2
<1>6. \A h \in VMs : startedAt'[h] <= now
  BY <1>3, <1>5
<1>7. round = "testing"
  BY <1>1, <1>2, <1>3 DEF Stages, In, RoundTypes
<1>8. Cardinality(In({"testing"})') <= Slots
  <2> DEFINE S == In({"testing"})
             T == In({"testing"})'
  <2>1. IsFiniteSet(S) /\ Cardinality(S) \in Nat /\ Cardinality(S) <= Slots /\ Slots \in Nat
    BY <1>1, Countable, RoundConstants DEF In, RoundTypes
  <2>2. CASE v = "testing"
    <3>1. T = S \cup {g} /\ g \notin S
      BY <1>4, <2>2 DEF In, Comes
    <3>2. Cardinality(S) < Slots
      BY <2>2 DEF Comes
    <3>3. Cardinality(S \cup {g}) = Cardinality(S) + 1
      BY <2>1, <3>1, FS_AddElement
    <3> HIDE DEF S, T
    <3>4. Cardinality(T) <= Slots
      BY <2>1, <3>1, <3>2, <3>3
    <3> QED BY <3>4 DEF T
  <2>3. CASE v # "testing"
    <3>1. T \subseteq S
      BY <1>4, <2>3 DEF In
    <3>2. IsFiniteSet(T) /\ Cardinality(T) \in Nat
      BY Countable DEF In
    <3>3. Cardinality(T) <= Cardinality(S)
      BY <2>1, <3>1, FS_Subset
    <3> HIDE DEF S, T
    <3>4. Cardinality(T) <= Slots
      BY <2>1, <3>2, <3>3
    <3> QED BY <3>4 DEF T
  <2> QED BY <2>2, <2>3
<1>9. RoundTypes'
  BY <1>1, <1>2, <1>4, <1>5, <1>6, <1>8 DEF RoundTypes
<1>10. Stages'
  BY <1>1, <1>2, <1>4, <1>7 DEF Stages
<1>11. Busy'
  <2>1. SUFFICES ASSUME In({"queued"})' # {}, NEW k \in Nat, NEW moment \in Nat,
                        listedAt + k * TestTimeout <= moment, moment < now
                 PROVE  Cardinality(Begun(moment)') >= Slots * (k + 1)
    BY <1>2 DEF Busy
  <2>2. In({"queued"}) # {}
    BY <1>2, <1>4, <2>1 DEF In
  <2>3. Cardinality(Begun(moment)) >= Slots * (k + 1)
    BY <1>1, <2>1, <2>2 DEF Busy
  <2>4. Begun(moment) \subseteq Begun(moment)'
    BY <1>2, <1>4, <1>5 DEF Begun, Comes
  <2>5. /\ IsFiniteSet(Begun(moment)') /\ Cardinality(Begun(moment)') \in Nat
        /\ Cardinality(Begun(moment)) \in Nat
    <3>1. Begun(moment)' \in SUBSET VMs /\ Begun(moment) \in SUBSET VMs
      BY DEF Begun
    <3> QED BY <3>1, Countable
  <2>6. Cardinality(Begun(moment)) <= Cardinality(Begun(moment)')
    BY <2>4, <2>5, FS_Subset
  <2>7. Slots * (k + 1) \in Nat
    BY Turns
  <2> QED BY <2>3, <2>5, <2>6, <2>7
<1>12. OnTime'
  <2>1. In({"stopped"})' = In({"stopped"})
    BY <1>2, <1>3, <1>4 DEF In
  <2>2. LastStart' = LastStart /\ LastStart \in Int
    BY <1>1, <1>2, <2>1, LastStartIsTime DEF LastStart
  <2> SUFFICES ASSUME NEW h \in VMs
               PROVE  /\ test'[h] = "testing" =>
                           /\ startedAt'[h] <= LastStart
                           /\ agent[h] = "answers" => now <= startedAt'[h] + AnswerTime
                      /\ test'[h] = "success" => agent[h] = "answers"
                      /\ test'[h] = "failure" => agent[h] = "refuses"
                      /\ test'[h] = "timeout" /\ agent[h] = "answers" =>
                           LastStart + AnswerTime >= RoundTimeout
    BY <1>2, <2>2 DEF OnTime
  <2>3. CASE h # g
    BY <1>1, <1>4, <1>5, <2>3 DEF OnTime
  <2>4. CASE h = g
    <3>1. v = "testing" => now <= LastStart
      BY <1>1, QueuedInTime DEF Comes
    <3>2. AnswerTime \in Nat
      BY RoundConstants
    <3> QED BY <1>3, <1>4, <1>5, <2>4, <3>1, <3>2 DEF Comes
  <2> QED BY <2>3, <2>4
<1> QED BY <1>9, <1>10, <1>11, <1>12 DEF RoundInv

(* Every slot is busy when the clock moves, with tests that began after    *)
(* those of the turn before.                                               *)
LEMMA SlotsBusy ==
  ASSUME RoundTypes, Busy, RoundIdle, In({"queued"}) # {}, round = "testing",
         NEW k \in Nat, listedAt + k * TestTimeout <= now
  PROVE  Cardinality(Begun(now)) >= Slots * (k + 1)
<1> DEFINE S == In({"testing"})
           N == Begun(now)
           B == Begun(now - TestTimeout)
<1>1. /\ S \in SUBSET VMs /\ B \in SUBSET VMs /\ N \in SUBSET VMs
      /\ \A g \in S : ~TestOver(g)
      /\ Cardinality(S) = Slots
  BY DEF RoundIdle, In, Begun
<1>2. /\ IsFiniteSet(S) /\ IsFiniteSet(B) /\ IsFiniteSet(N)
      /\ Cardinality(S) \in Nat /\ Cardinality(B) \in Nat /\ Cardinality(N) \in Nat
  BY <1>1, Countable
<1>3. /\ now \in Nat /\ listedAt \in Nat /\ startedAt \in [VMs -> Nat]
      /\ \A g \in VMs : startedAt[g] <= now
      /\ TestTimeout \in Nat /\ TestTimeout > 0 /\ Slots \in Nat
  BY RoundConstants DEF RoundTypes
<1>4. S \subseteq N
  BY <1>3 DEF Begun, In
<1>5. CASE k = 0
  <2>1. Cardinality(S) <= Cardinality(N)
    BY <1>2, <1>4, FS_Subset
  <2>2. Slots * (k + 1) = Slots
    BY <1>5, Turns
  <2> HIDE DEF S, N, B
  <2>3. Cardinality(N) >= Slots * (k + 1)
    BY <1>1, <1>2, <1>3, <2>1, <2>2
  <2> QED BY <2>3 DEF N
<1>6. CASE k > 0
  <2>1. /\ k - 1 \in Nat
        /\ k * TestTimeout = (k - 1) * TestTimeout + TestTimeout
        /\ (k - 1) * TestTimeout \in Nat
        /\ Slots * (k + 1) = Slots * (k - 1 + 1) + Slots
        /\ Slots * (k - 1 + 1) \in Nat
    BY <1>6, Turns
  <2>2. /\ now - TestTimeout \in Nat /\ now - TestTimeout < now
        /\ listedAt + (k - 1) * TestTimeout <= now - TestTimeout
    BY <1>3, <2>1
  <2>3. Cardinality(B) >= Slots * (k - 1 + 1)
    BY <2>1, <2>2 DEF Busy
  <2>4. B \cap S = {}
    <3>1. \A g \in S : startedAt[g] > now - TestTimeout
      BY <1>1, <1>3 DEF TestOver, In
    <3>2. \A g \in B : startedAt[g] <= now - TestTimeout
      BY DEF Begun
    <3> QED BY <1>1, <1>3, <3>1, <3>2
  <2>5. B \cup S \subseteq N
    BY <1>3, <1>4, <2>2 DEF Begun
  <2>6. Cardinality(B \cup S) = Cardinality(B) + Cardinality(S) - Cardinality(B \cap S)
    BY <1>2, FS_Union
  <2>7. Cardinality(B \cap S) = 0
    BY <2>4, FS_EmptySet
  <2>8. Cardinality(B \cup S) <= Cardinality(N)
    BY <1>2, <2>5, FS_Subset
  <2> HIDE DEF S, N, B
  <2>9. Cardinality(N) >= Slots * (k + 1)
    BY <1>1, <1>2, <1>3, <2>1, <2>3, <2>6, <2>7, <2>8
  <2> QED BY <2>9 DEF N
<1> QED BY <1>5, <1>6

(* Time that passes finds nobody late.                                     *)
LEMMA RoundTickInv ==
  ASSUME RoundInv, RoundIdle, now' = now + 1, UNCHANGED <<part, agents>>
  PROVE  RoundInv'
<1>1. RoundTypes /\ Stages /\ Busy /\ OnTime
  BY DEF RoundInv
<1>2. /\ part' = part /\ agent' = agent /\ round' = round /\ listedAt' = listedAt
      /\ test' = test /\ startedAt' = startedAt /\ now' = now + 1
  BY DEF agents
<1>3. now \in Nat /\ now + 1 <= RoundTimeout /\ RoundTimeout \in Nat
  BY <1>1, RoundConstants DEF RoundTypes, RoundIdle, RoundOver
<1>4. RoundTypes'
  <2>1. In({"testing"})' = In({"testing"})
    BY <1>2 DEF In
  <2> QED BY <1>1, <1>2, <2>1 DEF RoundTypes
<1>5. Stages'
  <2>1. In({"queued", "testing"})' = In({"queued", "testing"})
    BY <1>2 DEF In
  <2> QED BY <1>1, <1>2, <1>3, <2>1 DEF Stages
<1>6. Busy'
  <2>1. SUFFICES ASSUME In({"queued"})' # {}, NEW k \in Nat, NEW moment \in Nat,
                        listedAt + k * TestTimeout <= moment, moment < now + 1
                 PROVE  Cardinality(Begun(moment)') >= Slots * (k + 1)
    BY <1>2 DEF Busy
  <2>2. In({"queued"}) # {} /\ Begun(moment)' = Begun(moment)
    BY <1>2, <2>1 DEF In, Begun
  <2>3. round = "testing"
    BY <1>1, <2>2 DEF RoundIdle, Stages, In
  <2>4. CASE moment < now
    BY <1>1, <2>1, <2>2, <2>4 DEF Busy
  <2>5. CASE moment = now
    BY <1>1, <2>1, <2>2, <2>3, <2>5, SlotsBusy
  <2> QED BY <1>3, <2>1, <2>4, <2>5
<1>7. OnTime'
  <2>1. LastStart' = LastStart
    BY <1>2 DEF LastStart, In
  <2>2. \A g \in VMs : test[g] = "testing" /\ agent[g] = "answers" =>
          now + 1 <= startedAt[g] + AnswerTime
    <3>1. SUFFICES ASSUME NEW g \in VMs, test[g] = "testing", agent[g] = "answers"
                   PROVE  now + 1 <= startedAt[g] + AnswerTime
      OBVIOUS
    <3>2. now < startedAt[g] + AnswerTime
      BY <1>1, <3>1 DEF RoundIdle, Stages, In
    <3>3. startedAt[g] \in Nat /\ AnswerTime \in Nat
      BY <1>1, RoundConstants DEF RoundTypes
    <3> QED BY <1>3, <3>2, <3>3
  <2> QED BY <1>1, <1>2, <2>1, <2>2 DEF OnTime
<1> QED BY <1>4, <1>5, <1>6, <1>7 DEF RoundInv

(* Every step of the round keeps the invariant.                            *)
LEMMA RoundStepInv ==
  ASSUME RoundInv, RoundStep, part = "agents", UNCHANGED <<now, part>>
  PROVE  RoundInv'
<1>1. RoundTypes /\ Stages /\ Busy /\ OnTime
  BY DEF RoundInv
<1>2. now' = now /\ part' = part /\ now \in Nat
  BY <1>1 DEF RoundTypes
<1>3. RoundTimeout \in Nat /\ AnswerTime \in Nat /\ AnswerTime < TestTimeout /\ TestTimeout \in Nat
  BY RoundConstants
<1>4. LastStart \in Int
  BY <1>1, LastStartIsTime
<1>5. \A g \in VMs : startedAt[g] \in Nat
  BY <1>1 DEF RoundTypes
<1>6. ASSUME ListFails PROVE RoundInv'
  <2>1. /\ round = "listing" /\ round' = "failed"
        /\ agent' = agent /\ listedAt' = listedAt /\ test' = test /\ startedAt' = startedAt
    BY <1>6 DEF ListFails
  <2>2. In({"testing"})' = In({"testing"}) /\ In({"queued"})' = {} /\ LastStart' = LastStart
    BY <1>1, <2>1 DEF In, Stages, LastStart
  <2>3. RoundTypes' /\ Stages'
    BY <1>1, <1>2, <2>1, <2>2 DEF RoundTypes, Stages
  <2>4. OnTime'
    BY <1>1, <1>2, <2>1, <2>2 DEF OnTime
  <2> QED BY <2>2, <2>3, <2>4 DEF RoundInv, Busy
<1>7. ASSUME Respond PROVE RoundInv'
  <2>1. /\ round = "testing" /\ round' = "answered" /\ In({"queued", "testing"}) = {}
        /\ agent' = agent /\ listedAt' = listedAt /\ test' = test /\ startedAt' = startedAt
    BY <1>7 DEF Respond
  <2>2. /\ In({"testing"})' = In({"testing"}) /\ In({"queued"})' = {} /\ LastStart' = LastStart
        /\ In({"queued", "testing"})' = {}
    BY <2>1 DEF In, LastStart
  <2>3. RoundTypes' /\ Stages'
    BY <1>1, <1>2, <2>1, <2>2 DEF RoundTypes, Stages
  <2>4. OnTime'
    BY <1>1, <1>2, <2>1, <2>2 DEF OnTime
  <2> QED BY <2>2, <2>3, <2>4 DEF RoundInv, Busy
<1>8. ASSUME NEW stopped \in SUBSET VMs, List(stopped) PROVE RoundInv'
  <2>1. /\ round = "listing" /\ round' = "testing" /\ listedAt' = now /\ ~RoundOver
        /\ test' = [g \in VMs |-> IF g \in stopped THEN "stopped" ELSE "queued"]
        /\ agent' = agent /\ startedAt' = startedAt
    BY <1>8 DEF List
  <2>2. In({"testing"})' = {}
    BY <2>1 DEF In
  <2>3. Cardinality(In({"testing"})') <= Slots
    BY <2>2, RoundConstants, FS_EmptySet
  <2>4. test' \in [VMs -> Results \cup {"none", "queued", "testing"}]
    BY <2>1 DEF Results
  <2>5. RoundTypes'
    BY <1>1, <1>2, <2>1, <2>3, <2>4 DEF RoundTypes
  <2>6. Stages'
    BY <1>2, <1>3, <2>1 DEF Stages, RoundOver
  <2>7. Busy'
    <3>1. SUFFICES ASSUME NEW k \in Nat, NEW moment \in Nat,
                          now + k * TestTimeout <= moment, moment < now
                   PROVE  FALSE
      BY <1>2, <2>1 DEF Busy
    <3> QED BY <1>2, <3>1, Turns
  <2>8. OnTime'
    BY <2>1 DEF OnTime
  <2> QED BY <2>5, <2>6, <2>7, <2>8 DEF RoundInv
<1>9. ASSUME NEW g \in VMs, Take(g) PROVE RoundInv'
  <2>1. Comes(g, "testing") /\ UNCHANGED <<now, part, agent, round, listedAt>>
    BY <1>2, <1>9 DEF Take, Comes
  <2> QED BY <2>1, TestInv
<1>10. ASSUME NEW g \in VMs, GiveUp(g) PROVE RoundInv'
  <2>1. now <= LastStart /\ RoundTimeout <= now
    BY <1>1, <1>2, <1>3, <1>10, QueuedInTime DEF GiveUp, RoundOver
  <2>2. LastStart + AnswerTime >= RoundTimeout
    BY <1>2, <1>3, <1>4, <2>1
  <2>3. Comes(g, "timeout") /\ UNCHANGED <<now, part, agent, round, listedAt>>
    BY <1>2, <1>10, <2>2 DEF GiveUp, Becomes, Comes
  <2> QED BY <2>3, TestInv
<1>11. ASSUME NEW g \in VMs, Answers(g) PROVE RoundInv'
  <2>1. CASE agent[g] = "answers"
    <3>1. Comes(g, "success") /\ UNCHANGED <<now, part, agent, round, listedAt>>
      BY <1>2, <1>11, <2>1 DEF Answers, Becomes, Comes
    <3> QED BY <3>1, TestInv
  <2>2. CASE agent[g] = "refuses"
    <3>1. Comes(g, "failure") /\ UNCHANGED <<now, part, agent, round, listedAt>>
      BY <1>2, <1>11, <2>2 DEF Answers, Becomes, Comes
    <3> QED BY <3>1, TestInv
  <2> QED BY <1>11, <2>1, <2>2 DEF Answers
<1>12. ASSUME NEW g \in VMs, Killed(g) PROVE RoundInv'
  <2>1. test[g] = "testing" /\ TestOver(g)
    BY <1>12 DEF Killed
  <2>2. ASSUME agent[g] = "answers" PROVE LastStart + AnswerTime >= RoundTimeout
    <3>1. startedAt[g] <= LastStart /\ now <= startedAt[g] + AnswerTime
      BY <1>1, <2>1, <2>2 DEF OnTime
    <3>2. RoundTimeout <= now
      BY <1>2, <1>3, <1>5, <2>1, <3>1 DEF TestOver, RoundOver
    <3> QED BY <1>2, <1>3, <1>4, <1>5, <3>1, <3>2
  <2>3. Comes(g, "timeout") /\ UNCHANGED <<now, part, agent, round, listedAt>>
    BY <1>2, <1>12, <2>1, <2>2 DEF Killed, Becomes, Comes
  <2> QED BY <2>3, TestInv
<1> QED BY <1>6, <1>7, <1>8, <1>9, <1>10, <1>11, <1>12 DEF RoundStep

(* Every step of the console keeps the invariant: in another part no round *)
(* begins.                                                                 *)
LEMMA RoundNextInv ==
  ASSUME RoundInv, [Next]_vars
  PROVE  RoundInv'
<1>1. CASE part = "agents" /\ RoundStep /\ UNCHANGED <<now, part>>
  BY <1>1, RoundStepInv
<1>2. CASE part = "agents" /\ RoundIdle /\ now' = now + 1 /\ UNCHANGED <<part, agents>>
  BY <1>2, RoundTickInv
<1>3. ASSUME UNCHANGED <<part, agents>>,
             \/ now' = now
             \/ part # "agents" /\ now' = now + 1
      PROVE  RoundInv'
  <2>1. RoundTypes /\ Stages /\ Busy /\ OnTime
    BY DEF RoundInv
  <2>2. /\ part' = part /\ agent' = agent /\ round' = round /\ listedAt' = listedAt
        /\ test' = test /\ startedAt' = startedAt
    BY <1>3 DEF agents
  <2>3. /\ \A states : In(states)' = In(states)
        /\ \A moment : Begun(moment)' = Begun(moment)
        /\ LastStart' = LastStart
    BY <2>2 DEF In, Begun, LastStart
  <2>4. CASE now' = now
    BY <2>1, <2>2, <2>3, <2>4 DEF RoundInv, RoundTypes, Stages, Busy, OnTime
  <2>5. CASE part # "agents" /\ now' = now + 1
    <3>1. round = "listing" /\ \A g \in VMs : test[g] = "none"
      BY <2>1, <2>5 DEF Stages
    <3>2. In({"queued"}) = {}
      BY <3>1 DEF In
    <3>3. RoundTypes'
      BY <2>1, <2>2, <2>3, <2>5 DEF RoundTypes
    <3>4. Stages' /\ OnTime'
      BY <2>2, <3>1 DEF Stages, OnTime
    <3> QED BY <2>3, <3>2, <3>3, <3>4 DEF RoundInv, Busy
  <2> QED BY <1>3, <2>4, <2>5
<1>4. ASSUME Tick
      PROVE  /\ now' = now + 1 /\ UNCHANGED <<part, agents>>
             /\ part = "agents" => RoundIdle
  BY <1>4 DEF Tick
<1>5. CASE Tick
  BY <1>2, <1>3, <1>4, <1>5
<1>6. CASE UNCHANGED vars
  BY <1>3, <1>6 DEF vars
<1>7. CASE part = "login" /\ LoginStep /\ UNCHANGED <<now, part, configuration, agents>>
  BY <1>3, <1>7
<1>8. CASE part = "config" /\ ConfigStep /\ UNCHANGED <<now, part, login, agents>>
  BY <1>3, <1>8
<1>9. CASE part = "agents" /\ RoundStep /\ UNCHANGED <<now, part, login, configuration>>
  BY <1>1, <1>9
<1> QED BY <1>5, <1>6, <1>7, <1>8, <1>9 DEF Next

(* The round answers in time, with a result of every guest, no result is   *)
(* untrue, and an agent that answers is heard whenever the round has time  *)
(* for the last of the guests, whatever the others do                      *)
(* (handleAgentStatus).                                                    *)
THEOREM AgentsAreHeard == Spec => []AgentsHeard
<1>1. RoundInv => AgentsHeard
  <2> SUFFICES ASSUME RoundInv PROVE AgentsHeard
    OBVIOUS
  <2>1. round \in {"testing", "answered"} => now <= RoundTimeout
    BY DEF RoundInv, Stages
  <2>2. ASSUME round = "answered", NEW g \in VMs
        PROVE  /\ test[g] \in Results
               /\ test[g] = "success" => agent[g] = "answers"
               /\ test[g] # "stopped" /\ agent[g] = "answers" /\ LastStart + AnswerTime < RoundTimeout =>
                    test[g] = "success"
    <3>1. test[g] \in Results
      BY <2>2 DEF RoundInv, RoundTypes, Stages, In
    <3>2. /\ test[g] = "success" => agent[g] = "answers"
          /\ test[g] = "failure" => agent[g] = "refuses"
          /\ test[g] = "timeout" /\ agent[g] = "answers" => LastStart + AnswerTime >= RoundTimeout
      BY DEF RoundInv, OnTime
    <3>3. LastStart \in Int /\ AnswerTime \in Nat /\ RoundTimeout \in Nat
      BY LastStartIsTime, RoundConstants DEF RoundInv
    <3> QED BY <3>1, <3>2, <3>3 DEF Results
  <2> QED BY <2>1, <2>2 DEF AgentsHeard
<1> QED BY <1>1, InitRoundInv, RoundNextInv, PTL DEF Spec

-----------------------------------------------------------------------------
(* What the types of the console need beyond the invariants above: a token *)
(* is in one tab at most, so that a logout leaves no other tab with it.    *)
Owned ==
  /\ verifying \subseteq Tabs
  /\ \A t \in Tabs : cookie[t] \notin loggedOut
  /\ \A t, u \in Tabs : cookie[t] = cookie[u] /\ cookie[t] # 0 => t = u
  /\ attempt.windowStart = Zero => attempt.failures = 0

(* A request stores one configuration, numbered within the requests.       *)
Numbered ==
  /\ saves \in Nat /\ stored.revision <= saves
  /\ \A t \in Tabs : \A c \in saving[t] : c.revision <= saves
  /\ \A t \in Tabs : \A c, d \in saving[t] : c = d

TypeInv ==
  /\ part \in Parts /\ now \in 0 .. MaxTime
  /\ IInv /\ LoginInv /\ RoundInv
  /\ Owned /\ Numbered

(* It holds before the first request.                                      *)
LEMMA InitTypeInv == Init => TypeInv
<1> SUFFICES ASSUME Init PROVE TypeInv
  OBVIOUS
<1>1. part \in Parts /\ now \in 0 .. MaxTime
  BY BoundsAssumption DEF Init
<1>2. Owned
  BY DEF Init, InitLogin, Owned, NoAttempt
<1>3. Numbered
  BY DEF Init, InitConfig, Numbered, Default
<1> QED BY <1>1, <1>2, <1>3, InitInv, InitLoginInv, InitRoundInv DEF TypeInv

(* A step of the logins gives a token to one tab.                          *)
LEMMA OwnedStep ==
  ASSUME LoginInv, Owned, LoginStep
  PROVE  Owned'
<1>1. /\ cookie \in [Tabs -> Nat] /\ granted \in Seq(Int) /\ now \in Nat
      /\ \A t \in Tabs : cookie[t] \in 0 .. Len(granted)
      /\ loggedOut \subseteq 1 .. Len(granted)
      /\ attempt \in [failures : Nat, windowStart : Int, blockedUntil : Int]
      /\ Len(granted) \in Nat
  BY DEF LoginInv, LoginTypes, Sessions
<1>2. ASSUME NEW t \in Tabs, BeginLogin(t) PROVE Owned'
  BY <1>1, <1>2 DEF BeginLogin, Owned, NoAttempt
<1>3. ASSUME NEW t \in Tabs, LoginFails(t) PROVE Owned'
  <2>1. Failure(attempt).windowStart # Zero
    BY <1>1 DEF Failure, WindowOver, NoAttempt, Zero
  <2> QED BY <1>3, <2>1 DEF LoginFails, Owned
<1>4. ASSUME NEW t \in Tabs, LoginSucceeds(t) PROVE Owned'
  <2>1. /\ verifying' = verifying \ {t} /\ attempt' = NoAttempt
        /\ cookie' = [cookie EXCEPT ![t] = Len(granted) + 1]
        /\ loggedOut' = loggedOut
    BY <1>4 DEF LoginSucceeds
  <2>2. /\ cookie'[t] = Len(granted) + 1
        /\ \A u \in Tabs : u # t => cookie'[u] = cookie[u] /\ cookie[u] < Len(granted) + 1
    BY <1>1, <2>1
  <2>3. \A u \in Tabs : cookie'[u] \notin loggedOut
    BY <1>1, <2>2 DEF Owned
  <2>4. \A u, v \in Tabs : cookie'[u] = cookie'[v] /\ cookie'[u] # 0 => u = v
    BY <1>1, <2>2 DEF Owned
  <2> QED BY <2>1, <2>3, <2>4 DEF Owned, NoAttempt
<1>5. ASSUME NEW t \in Tabs, UseSession(t) PROVE Owned'
  BY <1>5 DEF UseSession, Owned
<1>6. ASSUME NEW t \in Tabs, Logout(t) PROVE Owned'
  <2>1. /\ cookie[t] # 0
        /\ cookie' = [cookie EXCEPT ![t] = 0]
        /\ loggedOut' = loggedOut \cup {cookie[t]}
        /\ attempt' = attempt /\ verifying' = verifying
    BY <1>6 DEF Logout
  <2>2. cookie'[t] = 0 /\ \A u \in Tabs : u # t => cookie'[u] = cookie[u]
    BY <1>1, <2>1
  <2>3. \A u \in Tabs : cookie'[u] \notin loggedOut'
    BY <1>1, <2>1, <2>2 DEF Owned
  <2>4. \A u, v \in Tabs : cookie'[u] = cookie'[v] /\ cookie'[u] # 0 => u = v
    BY <2>2 DEF Owned
  <2> QED BY <2>1, <2>3, <2>4 DEF Owned
<1> QED BY <1>2, <1>3, <1>4, <1>5, <1>6 DEF LoginStep

(* A step of the configuration's part numbers a request after the last.    *)
LEMMA NumberedStep ==
  ASSUME IInv, Numbered, ConfigStep
  PROVE  Numbered'
<1>1. /\ stored \in Configuration /\ saving \in [Tabs -> SUBSET Configuration] /\ saves \in Nat
      /\ stored.revision \in Nat
      /\ \A t \in Tabs : \A c \in saving[t] : c.revision \in Nat
  BY DEF IInv, Types, Configuration, Numbered
<1>2. ASSUME NEW t \in Tabs, EndSave(t) PROVE Numbered'
  <2>1. PICK c \in saving[t] : stored' = c /\ saving' = [saving EXCEPT ![t] = {}] /\ saves' = saves
    BY <1>2 DEF EndSave
  <2>2. saving'[t] = {} /\ \A u \in Tabs : u # t => saving'[u] = saving[u]
    BY <1>1, <2>1
  <2> QED BY <2>1, <2>2 DEF Numbered
<1>3. ASSUME NEW t \in Tabs, SaveFails(t) PROVE Numbered'
  <2>1. saving'[t] = {} /\ \A u \in Tabs : u # t => saving'[u] = saving[u]
    BY <1>1, <1>3 DEF SaveFails
  <2> QED BY <1>3, <2>1 DEF SaveFails, Numbered
<1>4. ASSUME NEW t \in Tabs, NEW settings \in Settings, BeginSave(t, settings) PROVE Numbered'
  <2>1. /\ stored' = stored /\ saves' = saves + 1
        /\ saving' = [saving EXCEPT ![t] = {Candidate(settings)}]
    BY <1>4 DEF BeginSave
  <2>2. saving'[t] = {Candidate(settings)} /\ \A u \in Tabs : u # t => saving'[u] = saving[u]
    BY <1>1, <2>1
  <2>3. Candidate(settings).revision = stored.revision + 1
    BY DEF Candidate
  <2>4. \A u \in Tabs : \A c \in saving'[u] : c.revision <= saves + 1
    BY <1>1, <2>2, <2>3 DEF Numbered
  <2>5. \A u \in Tabs : \A c, d \in saving'[u] : c = d
    BY <2>2 DEF Numbered
  <2> QED BY <1>1, <2>1, <2>4, <2>5 DEF Numbered
<1>5. CASE GuardReloads \/ GuardRestarts
  BY <1>5 DEF GuardReloads, GuardRestarts, Numbered
<1> QED BY <1>2, <1>3, <1>4, <1>5 DEF ConfigStep

(* Every step keeps the types.                                             *)
LEMMA TypeNextInv ==
  ASSUME TypeInv, [Next]_vars
  PROVE  TypeInv'
<1>1. IInv /\ LoginInv /\ RoundInv /\ Owned /\ Numbered /\ part \in Parts /\ now \in 0 .. MaxTime
  BY DEF TypeInv
<1>2. part' = part /\ now' \in 0 .. MaxTime
  BY <1>1, BoundsAssumption DEF Next, Tick, vars
<1>3. Owned'
  <2>1. CASE LoginStep
    BY <1>1, <2>1, OwnedStep
  <2>2. CASE UNCHANGED login
    BY <1>1, <2>2 DEF login, Owned
  <2> QED BY <2>1, <2>2 DEF Next, Tick, vars
<1>4. Numbered'
  <2>1. CASE ConfigStep
    BY <1>1, <2>1, NumberedStep
  <2>2. CASE UNCHANGED configuration
    BY <1>1, <2>2 DEF configuration, Numbered
  <2> QED BY <2>1, <2>2 DEF Next, Tick, vars
<1> QED BY <1>1, <1>2, <1>3, <1>4, NextInv, LoginNextInv, RoundNextInv DEF TypeInv

(* The console's state is as it should be: no tab holds a token that was   *)
(* given back, an address is blocked for BlockDuration at most, revisions  *)
(* stay within the requests to save, and no more agents are asked at once  *)
(* than there are slots (sessionStore, loginLimiter, Store,                *)
(* handleAgentStatus).                                                     *)
THEOREM TypeCorrect == Spec => []TypeOK
<1>1. ASSUME TypeInv PROVE TypeOK
  <2>1. IInv /\ LoginInv /\ RoundInv /\ Owned /\ Numbered /\ part \in Parts /\ now \in 0 .. MaxTime
    BY <1>1 DEF TypeInv
  <2>2. LoginTypeOK
    <3>1. /\ attempt.failures \in Nat /\ Len(failedAt) \in Nat /\ now \in Nat
          /\ attempt.blockedUntil \in Int /\ BlockDuration \in Nat
          /\ DOMAIN granted = 1 .. Len(granted)
      BY <2>1, Limits DEF LoginInv, LoginTypes
    <3>2. attempt.failures \in 0 .. Len(failedAt)
      BY <2>1, <3>1 DEF LoginInv, Counted, Owned
    <3>3. attempt.blockedUntil <= now + BlockDuration
      <4>1. CASE attempt.blockedUntil = Zero
        BY <3>1, <4>1 DEF Zero
      <4>2. CASE attempt.blockedUntil # Zero
        <5>1. /\ attempt.blockedUntil = failedAt[Len(failedAt)] + BlockDuration
              /\ attempt.failures \in 1 .. Len(failedAt)
          BY <2>1, <4>2 DEF LoginInv, Counted
        <5>2. Len(failedAt) \in 1 .. Len(failedAt)
          BY <3>1, <5>1
        <5>3. failedAt[Len(failedAt)] <= now /\ failedAt[Len(failedAt)] \in Nat
          BY <2>1, <5>2 DEF LoginInv, LoginTypes, Ordered
        <5> QED BY <3>1, <5>1, <5>3
      <4> QED BY <4>1, <4>2
    <3>4. \A s \in sessions : s.token \in DOMAIN granted /\ s.expires = granted[s.token]
      BY <2>1, <3>1 DEF LoginInv, Sessions
    <3>5. \A t \in Tabs : cookie[t] \in {0} \cup (DOMAIN granted \ loggedOut)
      BY <2>1, <3>1 DEF LoginInv, Sessions, Owned
    <3> QED BY <2>1, <3>2, <3>3, <3>4, <3>5 DEF LoginTypeOK, Owned
  <2>3. ConfigTypeOK
    BY <2>1 DEF IInv, Types, Numbered, ConfigTypeOK
  <2>4. RoundTypeOK
    BY <2>1 DEF RoundInv, RoundTypes, RoundTypeOK
  <2> QED BY <2>1, <2>2, <2>3, <2>4 DEF TypeOK
<1> QED BY <1>1, InitTypeInv, TypeNextInv, PTL DEF Spec
=============================================================================
