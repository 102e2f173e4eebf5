------------------------------- MODULE HistoryFile -------------------------------
(***************************************************************************)
(* What the three stores of powercheck's past have in common: a file of    *)
(* lines, the oldest first, the process that writes it and may die, and    *)
(* the time for which a record is to be kept.  The manager's events, the   *)
(* PVE guard's events and the UPS samples each use it in a way of their    *)
(* own; a behaviour is that of one of them.                                *)
(***************************************************************************)
EXTENDS Integers, Sequences, FiniteSetsExt

CONSTANTS
  Retention,             \* for how long a record is kept
  Capacity,              \* maxStoredEvents
  MaxTime, MaxRecords, MaxFaults    \* bounds: clock, records, failures and crashes

ASSUME RetentionAssumption == {Retention, Capacity} \subseteq Nat \ {0}
ASSUME BoundsAssumption == {MaxTime, MaxRecords, MaxFaults} \subseteq Nat

VARIABLES
  now,                   \* clock
  kind,                  \* whose history it is
  up,                    \* the process runs
  memory,                \* its records
  file,                  \* the lines of the file
  written,               \* records taken so far
  acked,                 \* history: records that a successful write had to store
  faults                 \* failures and crashes so far

(* A line of which the end is missing, and one made of it and the next.    *)
Torn  == [n |-> 0, at |-> 0]
Glued == [n |-> 0, at |-> 1]
IsTorn == \E i \in DOMAIN file : file[i] \in {Torn, Glued}

Record(at) == [n |-> written + 1, at |-> at]

(* Records are numbered as they are taken.                                 *)
Take(r) == written < MaxRecords /\ written' = r.n

Lines(s) == {s[i] : i \in DOMAIN s}

Newest(k, s) == SubSeq(s, Max({1, Len(s) - k + 1}), Len(s))

(* Those of a file's lines that have not expired, one after the other.     *)
Unexpired(s, cutoff) ==
  LET read[i \in 0 .. Len(s)] ==
        IF i = 0 THEN <<>>
        ELSE IF s[i].at >= cutoff THEN Append(read[i - 1], s[i]) ELSE read[i - 1]
  IN  read[Len(s)]

(* Mutant: the record at which the search ends goes too.                   *)
PruneOneMore(s, cutoff) ==
  LET fresh == {i \in DOMAIN s : s[i].at >= cutoff} IN
  IF fresh = {} THEN <<>> ELSE SubSeq(s, Min(fresh) + 1, Len(s))

(* Only a prefix is pruned: a record expires no sooner than those before.  *)
Prune(s, cutoff) ==
  LET fresh == {i \in DOMAIN s : s[i].at >= cutoff} IN
  IF fresh = {} THEN <<>> ELSE SubSeq(s, Min(fresh), Len(s))

Fault == faults < MaxFaults /\ faults' = faults + 1

(* What may come of writing the file as a whole: it is renamed into place. *)
Rewrite(s) ==
  \/ file' = s /\ acked' = acked \cup Lines(s) /\ UNCHANGED faults
  \/ Fault /\ UNCHANGED <<file, acked>>
=============================================================================
