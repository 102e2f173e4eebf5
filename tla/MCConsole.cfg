\* Two tabs; the limit is reached twice, a window and a session end;
\* four guests and two slots, so that the round may be too short.
SPECIFICATION Spec
CONSTANTS
  Parts = {"login", "config", "agents"}
  Tabs = {t1, t2}
  FailureLimit = 2
  BlockDuration = 2
  LoginWindow = 4
  SessionTTL = 3
  MaxFailures = 4
  MaxLogins = 2
  Settings = {a, b, c}
  DefaultSettings = a
  MaxSaves = 4
  VMs = {v1, v2, v3, v4}
  Slots = 2
  TestTimeout = 2
  RoundTimeout = 6
  AnswerTime = 1
  MaxTime = 8
SYMMETRY Interchangeable
INVARIANTS TypeOK AdmissionJustified LoneSavesApply AgentsHeard
\* The round answers, and every part has a bound.
CHECK_DEADLOCK FALSE
