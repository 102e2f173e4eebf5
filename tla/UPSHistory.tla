-------------------------------- MODULE UPSHistory --------------------------------
(* The samples of the UPS (internal/upshistory/collector.go): kept in      *)
(* memory, each appended to the file as a line of its own, and the file    *)
(* written anew from memory every so many samples of a process.            *)
EXTENDS HistoryFile

CONSTANT CompactEvery    \* 120

ASSUME CompactAssumption == CompactEvery \in Nat /\ CompactEvery > 1

VARIABLES
  writes,                \* Collector.writes
  due                    \* the collector's ticker has ticked

(* A line written after an unfinished one is glued to it, its end apart.   *)
Appended(s, r) ==
  IF s = <<>> \/ s[Len(s)] # Torn THEN Append(s, r)
  ELSE [s EXCEPT ![Len(s)] = IF r = Torn THEN Torn ELSE Glued]

(* Mutant: only the first of the compactions.                              *)
CompactsOnce == writes' = CompactEvery

Compacts == writes' % CompactEvery = 0

Sampled == Prune(Append(memory, Record(now)), now - Retention)

(* A request of before the first sample takes one of its own.              *)
Asked ==
  \/ due /\ due' = FALSE
  \/ writes = 0 /\ UNCHANGED due

Takes ==
  /\ up /\ Asked
  /\ Take(Record(now))
  /\ writes' = writes + 1

(* sample: the line is appended, and the file compacted, or not.           *)
AppendSample ==
  /\ Takes /\ memory' = Sampled
  /\ IF Compacts
     THEN \/ file' = memory' /\ acked' = acked \cup Lines(memory') /\ UNCHANGED faults
          \/ file' = Appended(file, Record(now)) /\ acked' = acked \cup {Record(now)} /\ Fault
     ELSE file' = Appended(file, Record(now)) /\ acked' = acked \cup {Record(now)} /\ UNCHANGED faults
  /\ UNCHANGED <<now, kind, up>>

(* The disk is full, or lost: of the line nothing is written, a part, or   *)
(* all of it, and the file is not compacted.                               *)
AppendFails ==
  /\ Takes /\ memory' = Sampled
  /\ file' \in {file} \cup {Appended(file, r) : r \in {Torn, Record(now)}}
  /\ Fault
  /\ UNCHANGED <<now, kind, up, acked>>

(* The process dies while it appends.                                      *)
AppendCut ==
  /\ Takes /\ up' = FALSE /\ memory' = <<>>
  /\ file' \in {Appended(file, r) : r \in {Torn, Record(now)}}
  /\ Fault
  /\ UNCHANGED <<now, kind, acked>>

(* Mutant: a line that is not whole is loaded.                             *)
LoadSamplesUnread ==
  /\ ~up /\ up' = TRUE
  /\ memory' = Unexpired(file, now - Retention)
  /\ writes' = 0 /\ due' = TRUE
  /\ UNCHANGED <<now, kind, file, written, acked, faults>>

(* A file with a line that is not whole cannot be loaded, nor the manager  *)
(* start with it.                                                          *)
LoadSamples ==
  /\ ~up /\ ~IsTorn /\ up' = TRUE
  /\ memory' = Unexpired(file, now - Retention)
  /\ writes' = 0 /\ due' = TRUE
  /\ UNCHANGED <<now, kind, file, written, acked, faults>>
=============================================================================
