-------------------------------- MODULE GuardEvents --------------------------------
(* The PVE guard's events (internal/guardevents/store.go): no memory but   *)
(* the file, which every Add reads back, through the limit of a request.   *)
EXTENDS HistoryFile

CONSTANTS MaxLimit, DefaultLimit    \* of Read: 200 and 50

ASSUME LimitAssumption ==
  MaxLimit \in Nat /\ DefaultLimit \in 1 .. MaxLimit /\ MaxLimit < Capacity

Clamp(limit) == IF limit \in 1 .. MaxLimit THEN limit ELSE DefaultLimit

ReadBack(limit) == Newest(Clamp(limit), Unexpired(file, now - Retention))

AddGuardEvent ==
  /\ up
  /\ Take(Record(now))
  /\ Rewrite(Newest(Capacity, Append(ReadBack(Capacity), Record(now))))
  /\ UNCHANGED <<now, kind, up, memory>>

StartGuard ==
  /\ ~up /\ up' = TRUE
  /\ UNCHANGED <<now, kind, memory, file, written, acked, faults>>
=============================================================================
