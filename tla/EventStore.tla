-------------------------------- MODULE EventStore --------------------------------
(* The manager's events (internal/managerweb/events.go): kept in memory,   *)
(* and written to the file as a whole whenever they change.  A request     *)
(* takes the time of its event before it waits for the mutex.              *)
EXTENDS HistoryFile

VARIABLE stamped         \* times of the events whose requests wait for the mutex

Stamp ==
  /\ up /\ Cardinality(stamped) < 2
  /\ stamped' = stamped \cup {now}
  /\ UNCHANGED <<now, kind, up, memory, file, written, acked, faults>>

(* A failed write leaves the event in memory, for the next one to write.   *)
AddEvent(t) ==
  LET all == Prune(Append(memory, Record(t)), t - Retention) IN
  /\ up /\ t \in stamped
  /\ Take(Record(t))
  /\ stamped' = stamped \ {t}
  /\ memory' = Newest(Capacity, all)
  /\ Rewrite(memory')
  /\ UNCHANGED <<now, kind, up>>

ListEvents ==
  /\ up
  /\ memory' = Prune(memory, now - Retention)
  /\ memory' # memory
  /\ Rewrite(memory')
  /\ UNCHANGED <<now, kind, up, written, stamped>>

LoadEvents ==
  /\ ~up /\ up' = TRUE
  /\ memory' = Newest(Capacity, Unexpired(file, now - Retention))
  /\ UNCHANGED <<now, kind, file, written, acked, faults, stamped>>
=============================================================================
