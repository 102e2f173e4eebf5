------------------------------ MODULE AgentRound ------------------------------
(***************************************************************************)
(* The console's round of guest agent tests (handleAgentStatus,            *)
(* internal/pveweb/server.go): the guests are listed, then each that runs  *)
(* is tested in a goroutine, at most Slots at a time, under a bound of its *)
(* own within that of the round.  A test of the agent that hangs is killed *)
(* at its bound.  A browser that goes away ends the round with nobody to   *)
(* answer, which is left out.                                              *)
(***************************************************************************)
EXTENDS ConsoleRequests

CONSTANTS
  VMs,                                  \* the QEMU guests that are not templates
  Slots, TestTimeout, RoundTimeout,     \* 4, 4 s and 12 s
  AnswerTime                            \* bound on the time of an agent that answers

(* An agent that answers does so before its test is killed.                *)
ASSUME RoundAssumption ==
  /\ {Slots, TestTimeout, RoundTimeout} \subseteq Nat \ {0}
  /\ AnswerTime \in Nat /\ AnswerTime < TestTimeout
  /\ IsFiniteSet(VMs)

VARIABLES
  agent,                   \* what each agent does when it is asked
  round,                   \* "listing", "testing", "answered" or "failed"
  listedAt,
  test,                    \* of each guest: how far its test is, or its result
  startedAt                \* of each test

agents == <<agent, round, listedAt, test, startedAt>>

Results == {"stopped", "success", "failure", "timeout"}

InitRound ==
  /\ agent \in [VMs -> {"answers", "refuses", "hangs"}]
  /\ round = "listing" /\ listedAt = 0
  /\ test = [g \in VMs |-> "none"]
  /\ startedAt = [g \in VMs |-> 0]

In(states) == {g \in VMs : test[g] \in states}

RoundOver == now >= RoundTimeout

(* Mutant: a test is bound by the round alone.                             *)
TestOverWithRound(g) == RoundOver

TestOver(g) == RoundOver \/ now >= startedAt[g] + TestTimeout

(* Status answers; stopped guests are not tested.                          *)
List(stopped) ==
  /\ round = "listing" /\ ~RoundOver
  /\ round' = "testing" /\ listedAt' = now
  /\ test' = [g \in VMs |-> IF g \in stopped THEN "stopped" ELSE "queued"]
  /\ UNCHANGED <<agent, startedAt>>

ListFails ==
  /\ round = "listing"
  /\ round' = "failed"
  /\ UNCHANGED <<agent, listedAt, test, startedAt>>

(* Mutant: the slots are not counted.                                      *)
TakeAnySlot(g) ==
  /\ test[g] = "queued"
  /\ test' = [test EXCEPT ![g] = "testing"]
  /\ startedAt' = [startedAt EXCEPT ![g] = now]
  /\ UNCHANGED <<agent, round, listedAt>>

(* A goroutine gets a slot, or finds the round over; when both are so, it  *)
(* does either.                                                            *)
Take(g) ==
  /\ test[g] = "queued"
  /\ Cardinality(In({"testing"})) < Slots
  /\ test' = [test EXCEPT ![g] = "testing"]
  /\ startedAt' = [startedAt EXCEPT ![g] = now]
  /\ UNCHANGED <<agent, round, listedAt>>

Becomes(g, result) ==
  /\ test' = [test EXCEPT ![g] = result]
  /\ UNCHANGED <<agent, round, listedAt, startedAt>>

GiveUp(g) == test[g] = "queued" /\ RoundOver /\ Becomes(g, "timeout")

Answers(g) ==
  /\ test[g] = "testing" /\ ~TestOver(g)
  /\ \/ agent[g] = "answers" /\ Becomes(g, "success")
     \/ agent[g] = "refuses" /\ Becomes(g, "failure")

Killed(g) == test[g] = "testing" /\ TestOver(g) /\ Becomes(g, "timeout")

Respond ==
  /\ round = "testing" /\ In({"queued", "testing"}) = {}
  /\ round' = "answered"
  /\ UNCHANGED <<agent, listedAt, test, startedAt>>

RoundStep ==
  \/ ListFails \/ Respond
  \/ \E stopped \in SUBSET VMs : List(stopped)
  \/ \E g \in VMs : Take(g) \/ GiveUp(g) \/ Answers(g) \/ Killed(g)

(* The clock moves when every goroutine waits: for a slot, or for an agent *)
(* that hangs or still has time to answer.                                 *)
RoundIdle ==
  \/ round = "listing" /\ ~RoundOver
  \/ /\ round = "testing" /\ ~RoundOver
     /\ In({"testing"}) # {}
     /\ In({"queued"}) # {} => Cardinality(In({"testing"})) = Slots
     /\ \A g \in In({"testing"}) :
          /\ ~TestOver(g)
          /\ agent[g] = "answers" => now < startedAt[g] + AnswerTime
          /\ agent[g] # "refuses"

-----------------------------------------------------------------------------
RoundTypeOK ==
  /\ round \in {"listing", "testing", "answered", "failed"}
  /\ test \in [VMs -> Results \cup {"none", "queued", "testing"}]
  /\ Cardinality(In({"testing"})) <= Slots
  /\ listedAt \in 0 .. now /\ \A g \in VMs : startedAt[g] \in 0 .. now

(* The last of the guests to be tested has a slot by then: those before it *)
(* free theirs within TestTimeout.                                         *)
LastStart == listedAt + ((Cardinality(VMs \ In({"stopped"})) - 1) \div Slots) * TestTimeout

(* The console's picture of the agents is complete, in time and true: when *)
(* the round answers, by RoundTimeout, every guest has its result; none is *)
(* reported to answer that does not; and an agent that answers is reported *)
(* so however many of the others hang and in whatever order they get their *)
(* slots, if the round leaves the last of them the time                    *)
(* (handleAgentStatus).                                                    *)
AgentsHeard ==
  /\ round \in {"testing", "answered"} => now <= RoundTimeout
  /\ round = "answered" =>
       \A g \in VMs :
         /\ test[g] \in Results
         /\ test[g] = "success" => agent[g] = "answers"
         /\ test[g] # "stopped" /\ agent[g] = "answers" /\ LastStart + AnswerTime < RoundTimeout =>
              test[g] = "success"
=============================================================================
