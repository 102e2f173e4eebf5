-------------------------------- MODULE Histories --------------------------------
(* The three histories, and what each keeps of its records.                *)
EXTENDS EventStore, GuardEvents, UPSHistory

CONSTANT Kinds           \* the histories to look at

ASSUME KindsAssumption == Kinds \subseteq {"events", "guard", "samples"}

vars == <<now, kind, up, memory, file, written, acked, faults, stamped, writes, due>>

Init ==
  /\ kind \in Kinds
  /\ now = 0 /\ up = TRUE
  /\ memory = <<>> /\ file = <<>>
  /\ written = 0 /\ acked = {} /\ faults = 0
  /\ stamped = {} /\ writes = 0 /\ due = TRUE

(* What the process was about to do is lost with it.                       *)
Crash ==
  /\ up /\ up' = FALSE
  /\ Fault
  /\ memory' = <<>> /\ stamped' = {}
  /\ UNCHANGED <<now, kind, file, written, acked, writes, due>>

Tick ==
  /\ now < MaxTime
  /\ now' = now + 1 /\ due' = TRUE
  /\ UNCHANGED <<kind, up, memory, file, written, acked, faults, stamped, writes>>

Next ==
  \/ /\ kind = "events"
     /\ Stamp \/ (\E t \in stamped : AddEvent(t)) \/ ListEvents \/ LoadEvents
     /\ UNCHANGED <<writes, due>>
  \/ /\ kind = "guard"
     /\ AddGuardEvent \/ StartGuard
     /\ UNCHANGED <<stamped, writes, due>>
  \/ /\ kind = "samples"
     /\ AppendSample \/ AppendFails \/ AppendCut \/ LoadSamples
     /\ UNCHANGED stamped
  \/ Crash
  \/ Tick

Spec == Init /\ [][Next]_vars

-----------------------------------------------------------------------------
TypeOK ==
  /\ kind \in Kinds /\ up \in BOOLEAN /\ due \in BOOLEAN
  /\ now \in 0 .. MaxTime /\ written \in 0 .. MaxRecords /\ faults \in 0 .. MaxFaults
  /\ Lines(memory) \subseteq [n : 1 .. written, at : 0 .. now]
  /\ Lines(file) \subseteq [n : 1 .. written, at : 0 .. now] \cup {Torn, Glued}
  /\ acked \subseteq [n : 1 .. written, at : 0 .. now]
  /\ stamped \subseteq 0 .. now /\ writes \in 0 .. MaxRecords

(* A record that has not expired and has fewer than limit younger ones.    *)
ToBeKept(r, limit) == r.at >= now - Retention /\ written - r.n < limit

Kept(r) == r \in Lines(file) /\ (up /\ kind # "guard" => r \in Lines(memory))

(* What a successful write had to store stays in the file and in the       *)
(* running process until it expires or enough younger records displace it, *)
(* through failed writes, compaction, crashes and restarts: the manager's  *)
(* events up to the capacity, the guard's up to the limit of its own Read, *)
(* the samples without limit but only while no line is torn                *)
(* (EventStore.Add, guardevents.Store.Add, Collector.sample).              *)
Retained ==
  \A r \in acked :
    /\ kind = "events"  /\ ToBeKept(r, Capacity) => Kept(r)
    /\ kind = "guard"   /\ ToBeKept(r, DefaultLimit + 1) => Kept(r)
    /\ kind = "samples" /\ ToBeKept(r, MaxRecords) => Kept(r) \/ IsTorn

(* The files stay small: that of the samples, which grows by lines, holds  *)
(* what can be unexpired at once, a sample for a request, and what each    *)
(* process, and each failed compaction, left uncompacted                   *)
(* (Collector.Read, Collector.compact).                                    *)
FileBounded ==
  Len(file) <= CASE kind = "events"  -> Capacity
                 [] kind = "guard"   -> DefaultLimit + 1
                 [] kind = "samples" -> Retention + 1 + CompactEvery * (faults + 1)
=============================================================================
