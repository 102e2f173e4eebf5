---------------------------- MODULE HistoriesProofs ----------------------------
(***************************************************************************)
(* Proofs about Histories, for any retention, capacity and limits, any     *)
(* number of records and any number of failures and crashes.               *)
(*                                                                         *)
(* A record is displaced by those behind it in a sequence, and kept for    *)
(* its number: the induction has to know that a sequence has no more       *)
(* records behind one than were taken after it.  That of the samples' file *)
(* has to count, too, how many samples can be of the same time: one for a  *)
(* tick, one for a request, and both again after a restart.                *)
(***************************************************************************)
EXTENDS Histories, SequenceTheorems, WellFoundedInduction, TLAPS

Row == [n : Nat, at : Nat]

(* What is said of 0 and, with a number, of the next is said of all.       *)
LEMMA AllNaturals ==
  ASSUME NEW T, 0 \in T, \A n \in Nat : n \in T => n + 1 \in T
  PROVE  Nat \subseteq T
<1> DEFINE R == OpToRel(<, Nat)
           F == Nat \ T
<1>1. IsWellFoundedOn(R, Nat)
  BY NatLessThanWellFounded
<1>2. \A x, y \in Nat : <<x, y>> \in R <=> x < y
  BY DEF OpToRel
<1> HIDE DEF R
<1>3. SUFFICES ASSUME F # {} PROVE FALSE
  OBVIOUS
<1>4. F \subseteq Nat
  OBVIOUS
<1> HIDE DEF F
<1>5. PICK x \in F : \A y \in F : <<y, x>> \notin R
  BY <1>1, <1>3, <1>4, WFMin
<1>6. \A y \in F : ~(y < x)
  BY <1>2, <1>4, <1>5
<1>7. x - 1 \in Nat /\ x - 1 < x /\ x \in Nat
  BY <1>4, <1>5 DEF F
<1> QED BY <1>5, <1>6, <1>7 DEF F

(* The least of some numbers.                                              *)
LEMMA LeastNumber ==
  ASSUME NEW S \in SUBSET Nat, S # {}
  PROVE  Min(S) \in S /\ \A y \in S : Min(S) <= y
<1> DEFINE R == OpToRel(<, Nat)
<1>1. IsWellFoundedOn(R, Nat)
  BY NatLessThanWellFounded
<1>2. \A x, y \in Nat : <<x, y>> \in R <=> x < y
  BY DEF OpToRel
<1> HIDE DEF R
<1>3. PICK x \in S : \A y \in S : <<y, x>> \notin R
  BY <1>1, WFMin
<1>4. x \in Nat /\ \A y \in S : y \in Nat
  OBVIOUS
<1>5. \A y \in S : ~(y < x)
  BY <1>2, <1>3, <1>4
<1>6. \A y \in S : x <= y
  BY <1>4, <1>5
<1> QED BY <1>3, <1>6, Zenon DEF Min

-----------------------------------------------------------------------------
(* The end of a sequence, and what is said of it.                          *)

EndOf(t, s) ==
  /\ t \in Seq(Row) /\ Len(t) <= Len(s)
  /\ \A i \in 1 .. Len(t) : t[i] = s[Len(s) - Len(t) + i]

(* SubSeq up to the last.                                                  *)
LEMMA EndProperties ==
  ASSUME NEW s \in Seq(Row), NEW m \in Int, m >= 1
  PROVE  LET t == SubSeq(s, m, Len(s))
         IN  EndOf(t, s) /\ Len(t) = IF m <= Len(s) THEN Len(s) - m + 1 ELSE 0
<1> DEFINE t == SubSeq(s, m, Len(s))
<1>1. Len(s) \in Nat /\ \A i \in m .. Len(s) : s[i] \in Row
  OBVIOUS
<1>2. /\ t \in Seq(Row)
      /\ Len(t) = IF m <= Len(s) THEN Len(s) - m + 1 ELSE 0
      /\ \A i \in 1 .. Len(s) - m + 1 : t[i] = s[m + i - 1]
  BY <1>1, SubSeqProperties
<1> HIDE DEF t
<1>3. Len(t) \in Nat /\ Len(t) <= Len(s)
  BY <1>1, <1>2
<1>4. ASSUME NEW i \in 1 .. Len(t) PROVE t[i] = s[Len(s) - Len(t) + i]
  <2>1. Len(t) = Len(s) - m + 1 /\ i \in 1 .. Len(s) - m + 1
    BY <1>1, <1>2, <1>3
  <2>2. m + i - 1 = Len(s) - Len(t) + i
    BY <1>1, <2>1
  <2> QED BY <1>2, <2>1, <2>2
<1>5. EndOf(t, s)
  BY <1>2, <1>3, <1>4 DEF EndOf
<1> QED BY <1>2, <1>5 DEF t

(* Newest is the end, no longer than k.                                    *)
LEMMA NewestIs ==
  ASSUME NEW s \in Seq(Row), NEW k \in Nat, k > 0
  PROVE  LET t == Newest(k, s)
         IN  EndOf(t, s) /\ Len(t) = IF Len(s) <= k THEN Len(s) ELSE k
<1> DEFINE m == Max({1, Len(s) - k + 1})
<1>1. Len(s) \in Nat
  OBVIOUS
<1>2. m = IF Len(s) <= k THEN 1 ELSE Len(s) - k + 1
  <2>1. \E x \in {1, Len(s) - k + 1} : \A y \in {1, Len(s) - k + 1} : x >= y
    BY <1>1
  <2>2. m \in {1, Len(s) - k + 1} /\ \A y \in {1, Len(s) - k + 1} : m >= y
    BY <2>1, Zenon DEF Max
  <2> HIDE DEF m
  <2> QED BY <1>1, <2>2
<1>3. Newest(k, s) = SubSeq(s, m, Len(s))
  BY DEF Newest
<1> HIDE DEF m
<1>4. m \in Int /\ m >= 1
  BY <1>1, <1>2
<1>5. LET t == SubSeq(s, m, Len(s))
      IN  EndOf(t, s) /\ Len(t) = IF m <= Len(s) THEN Len(s) - m + 1 ELSE 0
  BY <1>4, EndProperties
<1> DEFINE e == SubSeq(s, m, Len(s))
<1>6. e = Newest(k, s)
  BY <1>3
<1>7. EndOf(e, s) /\ Len(e) = IF m <= Len(s) THEN Len(s) - m + 1 ELSE 0
  BY <1>5
<1> HIDE DEF e
<1>8. CASE Len(s) <= k
  <2>1. m = 1 /\ Len(e) = Len(s)
    BY <1>1, <1>2, <1>7, <1>8
  <2> QED BY <1>6, <1>7, <1>8, <2>1
<1>9. CASE Len(s) > k
  <2>1. m = Len(s) - k + 1 /\ m <= Len(s)
    BY <1>1, <1>2, <1>9
  <2>2. Len(e) = k
    BY <1>1, <1>7, <2>1
  <2> QED BY <1>1, <1>6, <1>7, <1>9, <2>2
<1> QED BY <1>1, <1>8, <1>9

(* Prune is the end, with all that is not older than the cutoff, and       *)
(* begins with such a record.                                              *)
LEMMA PruneIs ==
  ASSUME NEW s \in Seq(Row), NEW cutoff \in Int
  PROVE  LET t == Prune(s, cutoff)
         IN  /\ EndOf(t, s)
             /\ \A i \in 1 .. Len(s) : s[i].at >= cutoff => i > Len(s) - Len(t)
             /\ Len(t) > 0 => t[1].at >= cutoff
<1> DEFINE fresh == {i \in DOMAIN s : s[i].at >= cutoff}
           t == Prune(s, cutoff)
<1>1. Len(s) \in Nat /\ DOMAIN s = 1 .. Len(s)
  OBVIOUS
<1>2. CASE fresh = {}
  <2>1. t = <<>>
    BY <1>2 DEF Prune
  <2>2. t \in Seq(Row) /\ Len(t) = 0
    BY <2>1
  <2>3. \A i \in 1 .. Len(s) : ~(s[i].at >= cutoff)
    BY <1>1, <1>2
  <2> HIDE DEF t
  <2>4. EndOf(t, s)
    BY <1>1, <2>2 DEF EndOf
  <2>5. /\ EndOf(t, s)
        /\ \A i \in 1 .. Len(s) : s[i].at >= cutoff => i > Len(s) - Len(t)
        /\ Len(t) > 0 => t[1].at >= cutoff
    BY <2>2, <2>3, <2>4
  <2> QED BY <2>5 DEF t
<1>3. CASE fresh # {}
  <2> DEFINE m == Min(fresh)
  <2>1. fresh \in SUBSET Nat
    BY <1>1
  <2>2. m \in fresh /\ \A i \in fresh : m <= i
    BY <1>3, <2>1, LeastNumber
  <2>3. t = SubSeq(s, m, Len(s))
    BY <1>3 DEF Prune
  <2>4. m \in 1 .. Len(s) /\ s[m].at >= cutoff
    BY <1>1, <2>2
  <2>5. \A i \in 1 .. Len(s) : s[i].at >= cutoff => m <= i
    BY <1>1, <2>2
  <2> HIDE DEF m, t
  <2>6. EndOf(t, s) /\ Len(t) = IF m <= Len(s) THEN Len(s) - m + 1 ELSE 0
    BY <2>3, <2>4, EndProperties
  <2>7. Len(t) = Len(s) - m + 1
    BY <2>4, <2>6
  <2>8. t[1] = s[m]
    BY <1>1, <2>4, <2>6, <2>7 DEF EndOf
  <2>9. /\ EndOf(t, s)
        /\ \A i \in 1 .. Len(s) : s[i].at >= cutoff => i > Len(s) - Len(t)
        /\ Len(t) > 0 => t[1].at >= cutoff
    BY <1>1, <2>4, <2>5, <2>6, <2>7, <2>8
  <2> QED BY <2>9 DEF t
<1> QED BY <1>2, <1>3

(* Behind a record there are no more than were taken after it.             *)
Spaced(s) == \A i, j \in 1 .. Len(s) : i <= j => s[j].n - s[i].n >= j - i

(* The end of a sequence has its lines, and is as spaced.                  *)
LEMMA EndKeeps ==
  ASSUME NEW s \in Seq(Row), NEW t, EndOf(t, s)
  PROVE  Lines(t) \subseteq Lines(s) /\ (Spaced(s) => Spaced(t))
<1>1. /\ Len(s) \in Nat /\ Len(t) \in Nat /\ Len(t) <= Len(s)
      /\ DOMAIN s = 1 .. Len(s) /\ DOMAIN t = 1 .. Len(t)
      /\ \A i \in 1 .. Len(t) : t[i] = s[Len(s) - Len(t) + i]
  BY DEF EndOf
<1>2. \A i \in 1 .. Len(t) : Len(s) - Len(t) + i \in 1 .. Len(s)
  BY <1>1
<1>3. Lines(t) \subseteq Lines(s)
  BY <1>1, <1>2 DEF Lines
<1>4. ASSUME Spaced(s), NEW i \in 1 .. Len(t), NEW j \in 1 .. Len(t), i <= j
      PROVE  t[j].n - t[i].n >= j - i
  <2> DEFINE d == Len(s) - Len(t)
  <2>1. d \in Nat /\ d + i \in 1 .. Len(s) /\ d + j \in 1 .. Len(s)
        /\ d + i <= d + j /\ t[i] = s[d + i] /\ t[j] = s[d + j]
    BY <1>1, <1>2, <1>4
  <2>2. s[d + j].n - s[d + i].n >= (d + j) - (d + i)
    BY <1>4, <2>1 DEF Spaced
  <2>3. (d + j) - (d + i) = j - i
    BY <2>1
  <2> QED BY <2>1, <2>2, <2>3
<1>5. Spaced(s) => Spaced(t)
  BY <1>4 DEF Spaced
<1> QED BY <1>3, <1>5

(* A record with fewer than k taken after it is among the newest k.        *)
LEMMA NewestKeeps ==
  ASSUME NEW s \in Seq(Row), Spaced(s), NEW w \in Nat, \A l \in Lines(s) : l.n <= w,
         NEW k \in Nat, k > 0, NEW r \in Lines(s), w - r.n < k
  PROVE  r \in Lines(Newest(k, s))
<1> DEFINE t == Newest(k, s)
<1>1. Len(s) \in Nat /\ DOMAIN s = 1 .. Len(s)
  OBVIOUS
<1>2. EndOf(t, s) /\ Len(t) = IF Len(s) <= k THEN Len(s) ELSE k
  BY NewestIs
<1> HIDE DEF t
<1>3. PICK i \in 1 .. Len(s) : r = s[i]
  BY <1>1 DEF Lines
<1>4. s[Len(s)] \in Row /\ s[i] \in Row /\ s[Len(s)] \in Lines(s)
  BY <1>1, <1>3 DEF Lines
<1>5. s[Len(s)].n - s[i].n >= Len(s) - i
  BY <1>1, <1>3 DEF Spaced
<1>6. Len(s) - i < k
  BY <1>1, <1>3, <1>4, <1>5 DEF Row
<1>7. Len(t) \in Nat /\ i - (Len(s) - Len(t)) \in 1 .. Len(t)
  BY <1>1, <1>2, <1>3, <1>6
<1>8. t[i - (Len(s) - Len(t))] = s[i]
  <2>1. Len(s) - Len(t) + (i - (Len(s) - Len(t))) = i
    BY <1>1, <1>3, <1>7
  <2>2. t[i - (Len(s) - Len(t))] = s[Len(s) - Len(t) + (i - (Len(s) - Len(t)))]
    BY <1>2, <1>7 DEF EndOf
  <2> QED BY <2>1, <2>2
<1>9. DOMAIN t = 1 .. Len(t)
  BY <1>2 DEF EndOf
<1>10. r \in Lines(t)
  BY <1>3, <1>7, <1>8, <1>9 DEF Lines
<1> QED BY <1>10 DEF t

(* A record that is not older than the cutoff is not pruned.               *)
LEMMA PruneKeeps ==
  ASSUME NEW s \in Seq(Row), NEW cutoff \in Int, NEW r \in Lines(s), r.at >= cutoff
  PROVE  r \in Lines(Prune(s, cutoff))
<1> DEFINE t == Prune(s, cutoff)
<1>1. Len(s) \in Nat /\ DOMAIN s = 1 .. Len(s)
  OBVIOUS
<1>2. EndOf(t, s) /\ \A i \in 1 .. Len(s) : s[i].at >= cutoff => i > Len(s) - Len(t)
  BY PruneIs
<1> HIDE DEF t
<1>3. PICK i \in 1 .. Len(s) : r = s[i]
  BY <1>1 DEF Lines
<1>4. Len(t) \in Nat /\ DOMAIN t = 1 .. Len(t) /\ Len(t) <= Len(s)
  BY <1>2 DEF EndOf
<1>5. i - (Len(s) - Len(t)) \in 1 .. Len(t)
  BY <1>1, <1>2, <1>3, <1>4
<1>6. t[i - (Len(s) - Len(t))] = s[i]
  <2>1. Len(s) - Len(t) + (i - (Len(s) - Len(t))) = i
    BY <1>1, <1>3, <1>4
  <2>2. t[i - (Len(s) - Len(t))] = s[Len(s) - Len(t) + (i - (Len(s) - Len(t)))]
    BY <1>2, <1>5 DEF EndOf
  <2> QED BY <2>1, <2>2
<1>7. r \in Lines(t)
  BY <1>3, <1>4, <1>5, <1>6 DEF Lines
<1> QED BY <1>7 DEF t

(* One more record behind a sequence.                                      *)
LEMMA AppendIs ==
  ASSUME NEW s \in Seq(Row), NEW r \in Row
  PROVE  LET t == Append(s, r)
         IN  /\ t \in Seq(Row) /\ Len(t) = Len(s) + 1 /\ t[Len(s) + 1] = r
             /\ \A i \in 1 .. Len(s) : t[i] = s[i]
             /\ Lines(t) = Lines(s) \cup {r}
<1> DEFINE t == Append(s, r)
<1>1. /\ Len(s) \in Nat /\ DOMAIN s = 1 .. Len(s)
      /\ t \in Seq(Row) /\ Len(t) = Len(s) + 1 /\ t[Len(s) + 1] = r
      /\ \A i \in 1 .. Len(s) : t[i] = s[i]
      /\ DOMAIN t = 1 .. Len(t)
  OBVIOUS
<1> HIDE DEF t
<1>2. Lines(t) \subseteq Lines(s) \cup {r}
  <2>1. SUFFICES ASSUME NEW i \in 1 .. Len(s) + 1 PROVE t[i] \in Lines(s) \cup {r}
    BY <1>1 DEF Lines
  <2>2. CASE i = Len(s) + 1
    BY <1>1, <2>2
  <2>3. CASE i \in 1 .. Len(s)
    BY <1>1, <2>3 DEF Lines
  <2> QED BY <1>1, <2>1, <2>2, <2>3
<1>3. Lines(s) \subseteq Lines(t)
  <2>1. \A i \in 1 .. Len(s) : i \in 1 .. Len(t) /\ t[i] = s[i]
    BY <1>1
  <2> QED BY <1>1, <2>1 DEF Lines
<1>4. r \in Lines(t)
  <2>1. Len(s) + 1 \in 1 .. Len(t)
    BY <1>1
  <2> QED BY <1>1, <2>1 DEF Lines
<1>5. /\ t \in Seq(Row) /\ Len(t) = Len(s) + 1 /\ t[Len(s) + 1] = r
      /\ \A i \in 1 .. Len(s) : t[i] = s[i]
      /\ Lines(t) = Lines(s) \cup {r}
  BY <1>1, <1>2, <1>3, <1>4
<1> QED BY <1>5 DEF t

(* The record that is taken next keeps a sequence spaced.                  *)
LEMMA AppendKeeps ==
  ASSUME NEW s \in Seq(Row), Spaced(s), NEW w \in Nat, \A l \in Lines(s) : l.n <= w,
         NEW r \in Row, r.n = w + 1
  PROVE  Spaced(Append(s, r)) /\ \A l \in Lines(Append(s, r)) : l.n <= w + 1
<1> DEFINE t == Append(s, r)
<1>1. /\ Len(s) \in Nat /\ Len(t) = Len(s) + 1 /\ t[Len(s) + 1] = r
      /\ \A i \in 1 .. Len(s) : t[i] = s[i]
      /\ Lines(t) = Lines(s) \cup {r}
  BY AppendIs
<1>2. \A i \in 1 .. Len(s) : s[i] \in Row /\ s[i].n \in Nat /\ s[i].n <= w
  <2>1. DOMAIN s = 1 .. Len(s) /\ \A i \in 1 .. Len(s) : s[i] \in Row
    OBVIOUS
  <2>2. \A i \in 1 .. Len(s) : s[i] \in Lines(s)
    BY <2>1 DEF Lines
  <2> QED BY <2>1, <2>2 DEF Row
<1> HIDE DEF t
<1>3. ASSUME NEW i \in 1 .. Len(t), NEW j \in 1 .. Len(t), i <= j
      PROVE  t[j].n - t[i].n >= j - i
  <2>1. CASE j \in 1 .. Len(s)
    <3>1. i \in 1 .. Len(s)
      BY <1>1, <1>3, <2>1
    <3> QED BY <1>1, <1>3, <2>1, <3>1 DEF Spaced
  <2>2. CASE j = Len(s) + 1 /\ i = Len(s) + 1
    <3>1. t[j].n - t[i].n = 0 /\ j - i = 0
      BY <1>1, <2>2 DEF Row
    <3> QED BY <3>1
  <2>3. CASE j = Len(s) + 1 /\ i \in 1 .. Len(s)
    <3>1. Len(s) \in 1 .. Len(s) /\ i <= Len(s)
      BY <1>1, <2>3
    <3>2. s[Len(s)].n - s[i].n >= Len(s) - i
      BY <2>3, <3>1 DEF Spaced
    <3>3. w + 1 - s[i].n >= Len(s) + 1 - i
      BY <1>1, <1>2, <2>3, <3>1, <3>2
    <3>4. t[j].n = w + 1 /\ t[i].n = s[i].n
      BY <1>1, <2>3
    <3>5. s[i].n \in Nat /\ Len(s) \in Nat /\ i \in Nat /\ j = Len(s) + 1
      BY <1>1, <1>2, <2>3
    <3> QED BY <3>3, <3>4, <3>5
  <2> QED BY <1>1, <1>3, <2>1, <2>2, <2>3
<1>4. \A l \in Lines(t) : l.n <= w + 1
  <2>1. SUFFICES ASSUME NEW l \in Lines(s) PROVE l.n <= w + 1
    BY <1>1
  <2>2. l.n \in Nat /\ l.n <= w
    BY <1>2 DEF Lines
  <2> QED BY <2>2
<1>5. Spaced(t) /\ \A l \in Lines(t) : l.n <= w + 1
  BY <1>3, <1>4 DEF Spaced
<1> QED BY <1>5 DEF t

-----------------------------------------------------------------------------
(* What is read of a file, line by line.                                   *)

Reads(f, m, s, cutoff) ==
  f = [i \in 0 .. m |->
         IF i = 0 THEN <<>>
         ELSE IF s[i].at >= cutoff THEN Append(f[i - 1], s[i]) ELSE f[i - 1]]

(* A file of any length can be read.                                       *)
LEMMA Readable ==
  ASSUME NEW s, NEW cutoff
  PROVE  \A m \in Nat : \E f : Reads(f, m, s, cutoff)
<1> DEFINE T == {m \in Nat : \E f : Reads(f, m, s, cutoff)}
<1>1. 0 \in T
  <2> DEFINE f == [i \in 0 .. 0 |-> <<>>]
  <2>1. Reads(f, 0, s, cutoff)
    BY DEF Reads
  <2> QED BY <2>1
<1>2. ASSUME NEW m \in Nat, m \in T PROVE m + 1 \in T
  <2>1. PICK f : Reads(f, m, s, cutoff)
    BY <1>2
  <2> DEFINE next(e, i) == IF s[i].at >= cutoff THEN Append(e, s[i]) ELSE e
             g == [i \in 0 .. m + 1 |-> IF i = m + 1 THEN next(f[m], i) ELSE f[i]]
  <2>2. f = [i \in 0 .. m |-> IF i = 0 THEN <<>> ELSE next(f[i - 1], i)]
    BY <2>1 DEF Reads
  <2>3. \A i \in 0 .. m : f[i] = IF i = 0 THEN <<>> ELSE next(f[i - 1], i)
    BY <2>2, Zenon
  <2>4. \A i \in 0 .. m + 1 : g[i] = IF i = 0 THEN <<>> ELSE next(g[i - 1], i)
    <3> HIDE DEF next
    <3>1. SUFFICES ASSUME NEW i \in 0 .. m + 1
                   PROVE  g[i] = IF i = 0 THEN <<>> ELSE next(g[i - 1], i)
      OBVIOUS
    <3>2. CASE i = m + 1
      BY <3>2
    <3>3. CASE i \in 1 .. m
      BY <2>3, <3>3
    <3>4. CASE i = 0
      BY <2>3, <3>4
    <3> QED BY <3>1, <3>2, <3>3, <3>4
  <2>5. g = [i \in 0 .. m + 1 |-> IF i = 0 THEN <<>> ELSE next(g[i - 1], i)]
    BY <2>4
  <2> HIDE DEF g
  <2>6. Reads(g, m + 1, s, cutoff)
    BY <2>5 DEF Reads
  <2> QED BY <2>6
<1> HIDE DEF T
<1>3. Nat \subseteq T
  BY <1>1, <1>2, AllNaturals
<1> QED BY <1>3 DEF T

(* Unexpired reads the whole of it.                                        *)
LEMMA UnexpiredReads ==
  ASSUME NEW s, NEW cutoff, Len(s) \in Nat
  PROVE  \E f : Reads(f, Len(s), s, cutoff) /\ Unexpired(s, cutoff) = f[Len(s)]
<1> DEFINE g == CHOOSE f : Reads(f, Len(s), s, cutoff)
<1>1. Reads(g, Len(s), s, cutoff)
  BY Readable, Zenon
<1>2. Unexpired(s, cutoff) = g[Len(s)]
  BY Zenon DEF Unexpired, Reads
<1> QED BY <1>1, <1>2, Zenon

(* What has been read after line i.                                        *)
Read(u, i, s, cutoff) ==
  /\ u \in Seq(Row)
  /\ \A k \in 1 .. Len(u) :
       \E j \in 1 .. i : u[k] = s[j] /\ s[j].at >= cutoff /\ Len(u) - k <= i - j
  /\ \A j \in 1 .. i : s[j].at >= cutoff => s[j] \in Lines(u)
  /\ Spaced(s) =>
       /\ Spaced(u)
       /\ \A k \in 1 .. Len(u), j \in i + 1 .. Len(s) : s[j].n - u[k].n >= Len(u) + 1 - k

(* Another line is read.                                                   *)
LEMMA ReadLine ==
  ASSUME NEW s \in Seq(Row), NEW cutoff \in Int, NEW i \in 0 .. Len(s) - 1, NEW u,
         Read(u, i, s, cutoff)
  PROVE  Read(IF s[i + 1].at >= cutoff THEN Append(u, s[i + 1]) ELSE u, i + 1, s, cutoff)
<1>1. /\ Len(s) \in Nat /\ i \in Nat /\ i + 1 \in 1 .. Len(s)
      /\ \A j \in 1 .. Len(s) : s[j] \in Row /\ s[j].n \in Nat
      /\ u \in Seq(Row) /\ Len(u) \in Nat
      /\ \A k \in 1 .. Len(u) : u[k] \in Row /\ u[k].n \in Nat
  <2>1. /\ Len(s) \in Nat /\ u \in Seq(Row) /\ Len(u) \in Nat
        /\ \A j \in 1 .. Len(s) : s[j] \in Row
        /\ \A k \in 1 .. Len(u) : u[k] \in Row
    BY DEF Read
  <2>2. \A r \in Row : r.n \in Nat
    BY DEF Row
  <2> QED BY <2>1, <2>2
<1>2. CASE s[i + 1].at >= cutoff
  <2> DEFINE r == s[i + 1]
             t == Append(u, r)
  <2>1. /\ t \in Seq(Row) /\ Len(t) = Len(u) + 1 /\ t[Len(u) + 1] = r
        /\ \A k \in 1 .. Len(u) : t[k] = u[k]
        /\ Lines(t) = Lines(u) \cup {r}
    BY <1>1, AppendIs
  <2> HIDE DEF t
  <2>2. ASSUME NEW k \in 1 .. Len(t)
        PROVE  \E j \in 1 .. i + 1 : t[k] = s[j] /\ s[j].at >= cutoff /\ Len(t) - k <= i + 1 - j
    <3>1. CASE k = Len(u) + 1
      <4>1. i + 1 \in 1 .. i + 1 /\ Len(t) - k <= i + 1 - (i + 1)
        BY <1>1, <2>1, <3>1
      <4> QED BY <1>2, <2>1, <3>1, <4>1
    <3>2. CASE k \in 1 .. Len(u)
      <4>1. PICK j \in 1 .. i : u[k] = s[j] /\ s[j].at >= cutoff /\ Len(u) - k <= i - j
        BY <3>2 DEF Read
      <4>2. j \in 1 .. i + 1 /\ Len(t) - k <= i + 1 - j
        BY <1>1, <2>1, <3>2, <4>1
      <4> QED BY <2>1, <3>2, <4>1, <4>2
    <3> QED BY <1>1, <2>1, <2>2, <3>1, <3>2
  <2>3. ASSUME NEW j \in 1 .. i + 1, s[j].at >= cutoff PROVE s[j] \in Lines(t)
    <3>1. CASE j = i + 1
      BY <2>1, <3>1
    <3>2. CASE j \in 1 .. i
      BY <2>1, <2>3, <3>2 DEF Read
    <3> QED BY <1>1, <3>1, <3>2
  <2>4. ASSUME Spaced(s)
        PROVE  /\ Spaced(t)
               /\ \A k \in 1 .. Len(t), j \in i + 2 .. Len(s) : s[j].n - t[k].n >= Len(t) + 1 - k
    <3>1. \A k \in 1 .. Len(u), j \in i + 1 .. Len(s) : s[j].n - u[k].n >= Len(u) + 1 - k
      BY <2>4 DEF Read
    <3>2. \A k \in 1 .. Len(u) : s[i + 1].n - u[k].n >= Len(u) + 1 - k
      <4>1. i + 1 \in i + 1 .. Len(s)
        BY <1>1
      <4> QED BY <3>1, <4>1
    <3>3. ASSUME NEW k \in 1 .. Len(t), NEW l \in 1 .. Len(t), k <= l
          PROVE  t[l].n - t[k].n >= l - k
      <4>1. CASE l \in 1 .. Len(u)
        <5>1. k \in 1 .. Len(u)
          BY <1>1, <3>3, <4>1
        <5> QED BY <2>1, <2>4, <3>3, <4>1, <5>1 DEF Read, Spaced
      <4>2. CASE l = Len(u) + 1 /\ k \in 1 .. Len(u)
        <5>1. s[i + 1].n - u[k].n >= Len(u) + 1 - k
          BY <3>2, <4>2
        <5>2. t[l] = s[i + 1] /\ t[k] = u[k]
          BY <2>1, <4>2
        <5> QED BY <1>1, <4>2, <5>1, <5>2
      <4>3. CASE l = Len(u) + 1 /\ k = Len(u) + 1
        <5>1. t[l] = s[i + 1] /\ t[k] = s[i + 1] /\ s[i + 1].n \in Nat
          BY <1>1, <2>1, <4>3
        <5> QED BY <1>1, <4>3, <5>1
      <4> QED BY <1>1, <2>1, <3>3, <4>1, <4>2, <4>3
    <3>4. ASSUME NEW k \in 1 .. Len(t), NEW j \in i + 2 .. Len(s)
          PROVE  s[j].n - t[k].n >= Len(t) + 1 - k
      <4>1. /\ j \in 1 .. Len(s) /\ i + 1 \in 1 .. Len(s) /\ i + 1 <= j /\ j - (i + 1) >= 1
            /\ s[j].n \in Nat /\ s[i + 1].n \in Nat
        BY <1>1
      <4>2. s[j].n - s[i + 1].n >= j - (i + 1)
        BY <2>4, <4>1 DEF Spaced
      <4>3. s[j].n - s[i + 1].n >= 1
        BY <1>1, <4>1, <4>2
      <4>4. CASE k \in 1 .. Len(u)
        <5>1. s[i + 1].n - u[k].n >= Len(u) + 1 - k
          BY <3>2, <4>4
        <5>2. t[k] = u[k] /\ u[k].n \in Nat /\ Len(t) = Len(u) + 1
          BY <1>1, <2>1, <4>4
        <5>3. Len(u) \in Nat /\ k \in Nat /\ s[j].n \in Nat /\ s[i + 1].n \in Nat
          BY <1>1, <4>1, <4>4
        <5>4. \A a, b, c, l, m \in Nat :
                a - b >= 1 /\ b - c >= l + 1 - m => a - c >= (l + 1) + 1 - m
          OBVIOUS
        <5>5. s[j].n - u[k].n >= (Len(u) + 1) + 1 - k
          BY <4>3, <5>1, <5>2, <5>3, <5>4
        <5> QED BY <5>2, <5>5
      <4>5. CASE k = Len(u) + 1
        <5>1. t[k] = s[i + 1] /\ Len(t) = Len(u) + 1
          BY <2>1, <4>5
        <5>2. Len(t) + 1 - k = 1
          BY <1>1, <4>5, <5>1
        <5> QED BY <4>3, <5>1, <5>2
      <4> QED BY <1>1, <2>1, <4>4, <4>5
    <3> QED BY <3>3, <3>4 DEF Spaced
  <2>5. i + 1 + 1 = i + 2
    BY <1>1
  <2>6. Read(t, i + 1, s, cutoff)
    BY <2>1, <2>2, <2>3, <2>4, <2>5 DEF Read
  <2> QED BY <1>2, <2>6 DEF t
<1>3. CASE ~(s[i + 1].at >= cutoff)
  <2>1. ASSUME NEW k \in 1 .. Len(u)
        PROVE  \E j \in 1 .. i + 1 : u[k] = s[j] /\ s[j].at >= cutoff /\ Len(u) - k <= i + 1 - j
    <3>1. PICK j \in 1 .. i : u[k] = s[j] /\ s[j].at >= cutoff /\ Len(u) - k <= i - j
      BY DEF Read
    <3>2. j \in 1 .. i + 1 /\ Len(u) - k <= i + 1 - j
      BY <1>1, <3>1
    <3> QED BY <3>1, <3>2
  <2>2. \A j \in 1 .. i + 1 : s[j].at >= cutoff => s[j] \in Lines(u)
    <3>1. \A j \in 1 .. i + 1 : j = i + 1 \/ j \in 1 .. i
      BY <1>1
    <3> QED BY <1>3, <3>1 DEF Read
  <2>3. ASSUME Spaced(s)
        PROVE  /\ Spaced(u)
               /\ \A k \in 1 .. Len(u), j \in i + 1 + 1 .. Len(s) :
                    s[j].n - u[k].n >= Len(u) + 1 - k
    <3>1. \A j \in i + 1 + 1 .. Len(s) : j \in i + 1 .. Len(s)
      BY <1>1
    <3> QED BY <2>3, <3>1 DEF Read
  <2>4. Read(u, i + 1, s, cutoff)
    BY <1>1, <2>1, <2>2, <2>3 DEF Read
  <2> QED BY <1>3, <2>4
<1> QED BY <1>2, <1>3

(* What is read is what has not expired, as spaced as it was.              *)
LEMMA UnexpiredIs ==
  ASSUME NEW s \in Seq(Row), NEW cutoff \in Int
  PROVE  LET t == Unexpired(s, cutoff)
         IN  /\ t \in Seq(Row)
             /\ Lines(t) = {l \in Lines(s) : l.at >= cutoff}
             /\ Spaced(s) => Spaced(t)
             /\ \A k \in 1 .. Len(t) :
                  \E j \in 1 .. Len(s) : t[k] = s[j] /\ Len(t) - k <= Len(s) - j
<1>1. Len(s) \in Nat /\ DOMAIN s = 1 .. Len(s)
  OBVIOUS
<1>2. PICK f : Reads(f, Len(s), s, cutoff) /\ Unexpired(s, cutoff) = f[Len(s)]
  BY <1>1, UnexpiredReads
<1>3. \A i \in 0 .. Len(s) :
        f[i] = IF i = 0 THEN <<>>
               ELSE IF s[i].at >= cutoff THEN Append(f[i - 1], s[i]) ELSE f[i - 1]
  <2>1. f = [i \in 0 .. Len(s) |->
               IF i = 0 THEN <<>>
               ELSE IF s[i].at >= cutoff THEN Append(f[i - 1], s[i]) ELSE f[i - 1]]
    BY <1>2, Zenon DEF Reads
  <2> QED BY <2>1, Zenon
<1> DEFINE T == {i \in Nat : i <= Len(s) => Read(f[i], i, s, cutoff)}
<1>4. 0 \in T
  <2>1. f[0] = <<>>
    BY <1>1, <1>3
  <2>2. Len(f[0]) = 0 /\ f[0] \in Seq(Row)
    BY <2>1
  <2>3. Read(f[0], 0, s, cutoff)
    BY <1>1, <2>2 DEF Read, Spaced
  <2> QED BY <2>3
<1>5. ASSUME NEW i \in Nat, i \in T PROVE i + 1 \in T
  <2>1. SUFFICES ASSUME i + 1 <= Len(s) PROVE Read(f[i + 1], i + 1, s, cutoff)
    OBVIOUS
  <2>2. i \in 0 .. Len(s) - 1 /\ i + 1 \in 0 .. Len(s) /\ i + 1 # 0 /\ i + 1 - 1 = i /\ i <= Len(s)
    BY <1>1, <2>1
  <2>3. Read(f[i], i, s, cutoff)
    BY <1>5, <2>2
  <2>4. f[i + 1] = IF s[i + 1].at >= cutoff THEN Append(f[i], s[i + 1]) ELSE f[i]
    BY <1>3, <2>2
  <2>5. Read(IF s[i + 1].at >= cutoff THEN Append(f[i], s[i + 1]) ELSE f[i], i + 1, s, cutoff)
    BY <2>2, <2>3, ReadLine
  <2> QED BY <2>4, <2>5
<1>6. Nat \subseteq T
  <2> HIDE DEF T
  <2> QED BY <1>4, <1>5, AllNaturals
<1> DEFINE t == Unexpired(s, cutoff)
<1>7. Read(t, Len(s), s, cutoff)
  <2>1. Len(s) \in T /\ Len(s) <= Len(s)
    BY <1>1, <1>6
  <2> QED BY <1>2, <2>1
<1> HIDE DEF T, t
<1>8. t \in Seq(Row) /\ DOMAIN t = 1 .. Len(t) /\ (Spaced(s) => Spaced(t))
  BY <1>7 DEF Read
<1>9. \A k \in 1 .. Len(t) :
        \E j \in 1 .. Len(s) : t[k] = s[j] /\ s[j].at >= cutoff /\ Len(t) - k <= Len(s) - j
  BY <1>7 DEF Read
<1>10. Lines(t) \subseteq {l \in Lines(s) : l.at >= cutoff}
  <2>1. SUFFICES ASSUME NEW k \in 1 .. Len(t) PROVE t[k] \in Lines(s) /\ t[k].at >= cutoff
    BY <1>8 DEF Lines
  <2>2. PICK j \in 1 .. Len(s) : t[k] = s[j] /\ s[j].at >= cutoff
    BY <1>9
  <2> QED BY <1>1, <2>2 DEF Lines
<1>11. {l \in Lines(s) : l.at >= cutoff} \subseteq Lines(t)
  <2>1. \A j \in 1 .. Len(s) : s[j].at >= cutoff => s[j] \in Lines(t)
    BY <1>7 DEF Read
  <2>2. \A l \in Lines(s) : \E j \in 1 .. Len(s) : l = s[j]
    BY <1>1 DEF Lines
  <2> QED BY <2>1, <2>2
<1>12. /\ t \in Seq(Row)
       /\ Lines(t) = {l \in Lines(s) : l.at >= cutoff}
       /\ Spaced(s) => Spaced(t)
       /\ \A k \in 1 .. Len(t) :
            \E j \in 1 .. Len(s) : t[k] = s[j] /\ Len(t) - k <= Len(s) - j
  BY <1>8, <1>9, <1>10, <1>11
<1> QED BY <1>12 DEF t

-----------------------------------------------------------------------------
(* The invariant.                                                          *)

Past == [n : 1 .. written, at : 0 .. now]

Types ==
  /\ kind \in Kinds /\ up \in BOOLEAN /\ due \in BOOLEAN
  /\ now \in 0 .. MaxTime /\ written \in 0 .. MaxRecords /\ faults \in 0 .. MaxFaults
  /\ memory \in Seq(Row) /\ file \in Seq(Row)
  /\ Lines(memory) \subseteq Past /\ Lines(file) \subseteq Past \cup {Torn, Glued}
  /\ acked \subseteq Past
  /\ stamped \subseteq 0 .. now /\ writes \in 0 .. written

(* Only the samples' file is written by lines, and torn.                   *)
Order == kind # "samples" => Spaced(memory) /\ Spaced(file) /\ Lines(file) \subseteq Past

(* Retained, with the samples that the memory has while the file is torn.  *)
Keeping ==
  \A r \in acked :
    /\ kind = "events" /\ ToBeKept(r, Capacity) => Kept(r)
    /\ kind = "guard" /\ ToBeKept(r, DefaultLimit + 1) => Kept(r)
    /\ kind = "samples" /\ r.at >= now - Retention =>
         (r \in Lines(file) \/ IsTorn) /\ (up => r \in Lines(memory))

(* The samples that may still be taken without the clock moving: of the    *)
(* ticker, and of a request before the first.                              *)
Open == IF up THEN (IF due THEN 1 ELSE 0) + (IF writes = 0 THEN 1 ELSE 0) ELSE 2

(* From a sample on there is one for each time, one more of the first      *)
(* process, and two of each that followed.                                 *)
Slack == 1 + 2 * faults - Open

Recent(s, time, slack) == \A i \in 1 .. Len(s) : Len(s) - i <= time - s[i].at + slack

Rate ==
  kind = "samples" =>
    (up => Recent(memory, now, Slack)) /\ (~IsTorn => Recent(file, now, Slack))

(* Each failure, and each crash, leaves no more than CompactEvery lines.   *)
Sizes ==
  /\ kind = "events" => Len(memory) <= Capacity /\ Len(file) <= Capacity
  /\ kind = "guard" => Len(file) <= DefaultLimit + 1
  /\ kind = "samples" =>
       Len(file) <= Retention + 2 + CompactEvery * faults
                    + (IF up THEN writes % CompactEvery ELSE 0)

Inv == Types /\ Order /\ Keeping /\ Rate /\ Sizes

(* The constants in the form the provers use.                              *)
LEMMA Numbers ==
  /\ Retention \in Nat /\ Retention > 0 /\ Capacity \in Nat /\ Capacity > 0
  /\ MaxTime \in Nat /\ MaxRecords \in Nat /\ MaxFaults \in Nat
  /\ DefaultLimit \in Nat /\ DefaultLimit > 0 /\ DefaultLimit + 1 <= Capacity
  /\ Clamp(Capacity) = DefaultLimit
  /\ CompactEvery \in Nat /\ CompactEvery > 1
<1>1. /\ Retention \in Nat /\ Retention > 0 /\ Capacity \in Nat /\ Capacity > 0
      /\ MaxTime \in Nat /\ MaxRecords \in Nat /\ MaxFaults \in Nat
  BY RetentionAssumption, BoundsAssumption
<1>2. DefaultLimit \in Nat /\ DefaultLimit > 0 /\ DefaultLimit + 1 <= Capacity
      /\ Capacity \notin 1 .. MaxLimit
  BY <1>1, LimitAssumption
<1>3. Clamp(Capacity) = DefaultLimit
  BY <1>2 DEF Clamp
<1>4. CompactEvery \in Nat /\ CompactEvery > 1
  BY CompactAssumption
<1> QED BY <1>1, <1>2, <1>3, <1>4

(* A sample more is one nearer to the next compaction.                     *)
LEMMA NextWrite ==
  ASSUME NEW w \in Nat
  PROVE  /\ w % CompactEvery \in Nat /\ w % CompactEvery <= CompactEvery - 1
         /\ (w + 1) % CompactEvery # 0 => (w + 1) % CompactEvery >= (w % CompactEvery) + 1
<1> DEFINE c == CompactEvery
           q == w \div c
           r == w % c
           p == (w + 1) \div c
           o == (w + 1) % c
<1>1. c \in Nat /\ c > 1 /\ w + 1 \in Nat
  BY Numbers
<1>2. q \in Nat /\ r \in Nat /\ r < c /\ w = c * q + r
  BY <1>1
<1>3. p \in Nat /\ o \in Nat /\ o < c /\ w + 1 = c * p + o
  BY <1>1
<1>4. 0 % c = 0 /\ r = w % CompactEvery /\ o = (w + 1) % CompactEvery
  BY <1>1
<1> HIDE DEF c, q, r, p, o
<1>5. ASSUME o # 0 PROVE o >= r + 1
  <2>1. ~(p < q)
    <3>1. SUFFICES ASSUME p < q PROVE FALSE
      OBVIOUS
    <3>2. c * q >= c * (p + 1) /\ c * (p + 1) = c * p + c
      BY <1>1, <1>2, <1>3, <3>1
    <3>3. c * q \in Nat /\ c * p \in Nat
      BY <1>1, <1>2, <1>3
    <3> QED BY <1>1, <1>2, <1>3, <1>5, <3>2, <3>3
  <2>2. ~(q < p)
    <3>1. SUFFICES ASSUME q < p PROVE FALSE
      OBVIOUS
    <3>2. c * p >= c * (q + 1) /\ c * (q + 1) = c * q + c
      BY <1>1, <1>2, <1>3, <3>1
    <3>3. c * q \in Nat /\ c * p \in Nat
      BY <1>1, <1>2, <1>3
    <3> QED BY <1>1, <1>2, <1>3, <1>5, <3>2, <3>3
  <2>3. p = q
    BY <1>2, <1>3, <2>1, <2>2
  <2>4. c * p \in Nat /\ c * p = c * q
    BY <1>1, <1>3, <2>3
  <2> QED BY <1>2, <1>3, <2>4
<1>6. r \in Nat /\ r <= c - 1
  BY <1>1, <1>2
<1>7. c = CompactEvery
  BY DEF c
<1> QED BY <1>4, <1>5, <1>6, <1>7

(* What is true of the lines of a sequence stays so.                       *)
LEMMA RecentIs ==
  ASSUME NEW s \in Seq(Row), NEW time \in Nat, NEW a \in Int, Recent(s, time, a)
  PROVE  /\ \A b \in Int : b >= a => Recent(s, time, b) /\ Recent(s, time + 1, b)
         /\ \A t : EndOf(t, s) => Recent(t, time, a)
         /\ \A cutoff \in Int : Recent(Unexpired(s, cutoff), time, a)
         /\ Len(s) > 0 /\ s[1].at >= time - Retention => Len(s) <= Retention + a + 1
<1>1. /\ Len(s) \in Nat
      /\ \A i \in 1 .. Len(s) : s[i] \in Row /\ s[i].at \in Nat
  <2>1. \A i \in 1 .. Len(s) : s[i] \in Row
    OBVIOUS
  <2>2. \A r \in Row : r.at \in Nat
    BY DEF Row
  <2> QED BY <2>1, <2>2
<1>2. ASSUME NEW b \in Int, b >= a, NEW t \in Nat, t >= time
      PROVE  Recent(s, t, b)
  <2>1. ASSUME NEW i \in 1 .. Len(s)
        PROVE  Len(s) - i <= t - s[i].at + b
    <3>1. Len(s) - i <= time - s[i].at + a
      BY DEF Recent
    <3>2. Len(s) \in Nat /\ s[i].at \in Nat /\ i \in Nat
      BY <1>1
    <3>3. \A l, j, m \in Nat : l - j <= time - m + a => l - j <= t - m + b
      BY <1>2
    <3> QED BY <3>1, <3>2, <3>3
  <2> QED BY <2>1, Zenon DEF Recent
<1>3. ASSUME NEW t, EndOf(t, s) PROVE Recent(t, time, a)
  <2>1. SUFFICES ASSUME NEW i \in 1 .. Len(t) PROVE Len(t) - i <= time - t[i].at + a
    BY DEF Recent
  <2> DEFINE j == Len(s) - Len(t) + i
  <2>2. Len(t) \in Nat /\ j \in 1 .. Len(s) /\ t[i] = s[j] /\ Len(t) - i = Len(s) - j
    BY <1>1, <1>3, <2>1 DEF EndOf
  <2> HIDE DEF j
  <2>3. Len(s) - j <= time - s[j].at + a
    BY <2>2 DEF Recent
  <2> QED BY <2>2, <2>3
<1>4. ASSUME NEW cutoff \in Int PROVE Recent(Unexpired(s, cutoff), time, a)
  <2> DEFINE t == Unexpired(s, cutoff)
  <2>1. t \in Seq(Row) /\ \A k \in 1 .. Len(t) :
          \E j \in 1 .. Len(s) : t[k] = s[j] /\ Len(t) - k <= Len(s) - j
    BY UnexpiredIs
  <2> HIDE DEF t
  <2>2. ASSUME NEW i \in 1 .. Len(t) PROVE Len(t) - i <= time - t[i].at + a
    <3>1. PICK j \in 1 .. Len(s) : t[i] = s[j] /\ Len(t) - i <= Len(s) - j
      BY <2>1
    <3>2. Len(s) - j <= time - s[j].at + a
      BY DEF Recent
    <3>3. Len(t) \in Nat /\ s[j].at \in Nat
      BY <1>1, <2>1
    <3> QED BY <1>1, <3>1, <3>2, <3>3
  <2>3. Recent(t, time, a)
    BY <2>2 DEF Recent
  <2> QED BY <2>3 DEF t
<1>5. ASSUME Len(s) > 0, s[1].at >= time - Retention PROVE Len(s) <= Retention + a + 1
  <2>1. 1 \in 1 .. Len(s) /\ s[1].at \in Nat
    BY <1>1, <1>5
  <2>2. Len(s) - 1 <= time - s[1].at + a
    BY <2>1 DEF Recent
  <2> QED BY <1>1, <1>5, <2>1, <2>2, Numbers
<1>6. time + 1 \in Nat /\ time + 1 >= time /\ time >= time
  OBVIOUS
<1>7. \A b \in Int : b >= a => Recent(s, time, b) /\ Recent(s, time + 1, b)
  BY <1>2, <1>6
<1> QED BY <1>3, <1>4, <1>5, <1>7

(* A sample taken now uses up some of the slack.                           *)
LEMMA RecentAppend ==
  ASSUME NEW s \in Seq(Row), NEW time \in Nat, NEW a \in Int, Recent(s, time, a),
         NEW b \in Int, b >= a + 1, b >= 0, NEW r \in Row, r.at = time
  PROVE  Recent(Append(s, r), time, b)
<1> DEFINE t == Append(s, r)
<1>1. /\ t \in Seq(Row) /\ Len(t) = Len(s) + 1 /\ t[Len(s) + 1] = r
      /\ \A i \in 1 .. Len(s) : t[i] = s[i]
  BY AppendIs
<1> HIDE DEF t
<1>2. /\ Len(s) \in Nat
      /\ \A i \in 1 .. Len(s) : s[i] \in Row /\ s[i].at \in Nat
  <2>1. \A i \in 1 .. Len(s) : s[i] \in Row
    OBVIOUS
  <2>2. \A x \in Row : x.at \in Nat
    BY DEF Row
  <2> QED BY <2>1, <2>2
<1>3. ASSUME NEW i \in 1 .. Len(t) PROVE Len(t) - i <= time - t[i].at + b
  <2>1. CASE i \in 1 .. Len(s)
    <3>1. Len(s) - i <= time - s[i].at + a
      BY <2>1 DEF Recent
    <3>2. t[i] = s[i] /\ s[i].at \in Nat
      BY <1>1, <1>2, <2>1
    <3> QED BY <1>1, <1>2, <2>1, <3>1, <3>2
  <2>2. CASE i = Len(s) + 1
    <3>1. t[i].at = time /\ Len(t) - i = 0
      BY <1>1, <1>2, <2>2
    <3> QED BY <3>1
  <2> QED BY <1>1, <1>2, <2>1, <2>2
<1>4. Recent(t, time, b)
  BY <1>3 DEF Recent
<1> QED BY <1>4 DEF t

(* What a line does to a file that may be torn: it is added, or the file   *)
(* was torn at its end and is torn still.                                  *)
LEMMA AppendedIs ==
  ASSUME NEW s \in Seq(Row), NEW r \in Row
  PROVE  LET t == Appended(s, r)
         IN  /\ t \in Seq(Row) /\ Len(t) <= Len(s) + 1
             /\ Lines(t) \subseteq Lines(s) \cup {r, Torn, Glued}
             /\ \/ t = Append(s, r) /\ Lines(t) = Lines(s) \cup {r}
                \/ /\ Lines(t) \cap {Torn, Glued} # {}
                   /\ Lines(s) \cap {Torn, Glued} # {}
<1> DEFINE t == Appended(s, r)
           n == Len(s)
<1>1. n \in Nat /\ DOMAIN s = 1 .. n
  OBVIOUS
<1>2. CASE s = <<>> \/ s[n] # Torn
  <2>1. t = Append(s, r)
    BY <1>2 DEF Appended
  <2>2. Append(s, r) \in Seq(Row) /\ Len(Append(s, r)) = n + 1 /\ Lines(Append(s, r)) = Lines(s) \cup {r}
    BY AppendIs
  <2> HIDE DEF t
  <2>3. /\ t \in Seq(Row) /\ Len(t) <= n + 1
        /\ Lines(t) \subseteq Lines(s) \cup {r, Torn, Glued}
        /\ t = Append(s, r) /\ Lines(t) = Lines(s) \cup {r}
    BY <1>1, <2>1, <2>2
  <2> QED BY <2>3 DEF t
<1>3. CASE s # <<>> /\ s[n] = Torn
  <2> DEFINE e == IF r = Torn THEN Torn ELSE Glued
  <2>1. t = [s EXCEPT ![n] = e]
    BY <1>3 DEF Appended
  <2>2. e \in {Torn, Glued} /\ e \in Row /\ n \in 1 .. n
    BY <1>1, <1>3 DEF Torn, Glued, Row
  <2> HIDE DEF e
  <2>3. t \in Seq(Row) /\ Len(t) = n /\ DOMAIN t = 1 .. n
    BY <1>1, <2>1, <2>2
  <2>4. t[n] = e /\ \A i \in 1 .. n : i # n => t[i] = s[i]
    BY <1>1, <2>1, <2>2
  <2> HIDE DEF t
  <2>5. Lines(t) \subseteq Lines(s) \cup {r, Torn, Glued}
    BY <1>1, <2>2, <2>3, <2>4 DEF Lines
  <2>6. e \in Lines(t) /\ Torn \in Lines(s)
    BY <1>1, <1>3, <2>2, <2>3, <2>4 DEF Lines
  <2>7. /\ t \in Seq(Row) /\ Len(t) <= n + 1
        /\ Lines(t) \subseteq Lines(s) \cup {r, Torn, Glued}
        /\ Lines(t) \cap {Torn, Glued} # {}
        /\ Lines(s) \cap {Torn, Glued} # {}
    BY <1>1, <2>2, <2>3, <2>5, <2>6
  <2> QED BY <2>7 DEF t
<1> QED BY <1>2, <1>3

-----------------------------------------------------------------------------
(* Its steps.                                                              *)

(* The flat facts of a state.                                              *)
LEMMA State ==
  ASSUME Types
  PROVE  /\ now \in Nat /\ written \in Nat /\ faults \in Nat /\ writes \in Nat
         /\ \A r \in Past : r \in Row /\ r.n \in Nat /\ r.n <= written /\ r.at \in Nat /\ r.at <= now
         /\ Torn \in Row /\ Glued \in Row
         /\ Open \in {0, 1, 2} /\ Slack \in Int
<1>1. now \in Nat /\ written \in Nat /\ faults \in Nat /\ writes \in Nat
  BY Numbers DEF Types
<1>2. \A r \in Past : r \in Row /\ r.n \in Nat /\ r.n <= written /\ r.at \in Nat /\ r.at <= now
  BY <1>1 DEF Past, Row
<1>3. Torn \in Row /\ Glued \in Row
  BY DEF Torn, Glued, Row
<1>4. Open \in {0, 1, 2}
  BY DEF Open
<1>5. Slack \in Int
  BY <1>1, <1>4 DEF Slack
<1> QED BY <1>1, <1>2, <1>3, <1>4, <1>5

(* Records are numbered on, and kept no longer as time passes.             *)
LEMMA StepGoesOn ==
  ASSUME Types, now' \in {now, now + 1}, written' \in {written, written + 1}
  PROVE  /\ Past \subseteq Past'
         /\ \A r \in Past : /\ \A limit \in Nat : ToBeKept(r, limit)' => ToBeKept(r, limit)
                            /\ r.at >= now' - Retention => r.at >= now - Retention
         /\ written' = written + 1 => \A t \in 0 .. now : Record(t) \in Past' /\ Record(t) \in Row
                                        /\ Record(t).n = written + 1 /\ Record(t).at = t
<1>1. /\ now \in Nat /\ written \in Nat
      /\ \A r \in Past : r.n \in Nat /\ r.n <= written /\ r.at \in Nat /\ r.at <= now
  BY State
<1>2. Past \subseteq Past'
  BY <1>1 DEF Past
<1>3. \A r \in Past : /\ \A limit \in Nat : ToBeKept(r, limit)' => ToBeKept(r, limit)
                      /\ r.at >= now' - Retention => r.at >= now - Retention
  BY <1>1, Numbers DEF ToBeKept
<1>4. ASSUME written' = written + 1, NEW t \in 0 .. now
      PROVE  Record(t) \in Past' /\ Record(t) \in Row
             /\ Record(t).n = written + 1 /\ Record(t).at = t
  BY <1>1, <1>4 DEF Record, Past, Row
<1> QED BY <1>2, <1>3, <1>4

(* A store that writes its file as a whole, with all that is to be kept.   *)
LEMMA EventsRewritten ==
  ASSUME Inv, kind = "events", up, NEW s \in Seq(Row), memory' = s, Rewrite(s),
         Spaced(s), Lines(s) \subseteq Past', Len(s) <= Capacity,
         \A r \in Lines(memory) : ToBeKept(r, Capacity)' => r \in Lines(s),
         written' \in {written, written + 1}, written' <= MaxRecords,
         stamped' \subseteq 0 .. now, UNCHANGED <<now, kind, up, writes, due>>
  PROVE  Inv'
<1>1. Types /\ Order /\ Keeping /\ Sizes
  BY DEF Inv
<1>2. now' = now /\ kind' = kind /\ up' = up /\ writes' = writes /\ due' = due
  OBVIOUS
<1>3. now \in Nat /\ written \in Nat /\ faults \in Nat /\ writes \in Nat /\ MaxFaults \in Nat
  BY <1>1, State, Numbers
<1>4. /\ Past \subseteq Past'
      /\ \A r \in Past : ToBeKept(r, Capacity)' => ToBeKept(r, Capacity)
  BY <1>1, <1>2, StepGoesOn, Numbers
<1>5. \/ file' = s /\ acked' = acked \cup Lines(s) /\ faults' = faults
      \/ faults' = faults + 1 /\ faults < MaxFaults /\ file' = file /\ acked' = acked
  BY DEF Rewrite, Fault
<1>6. /\ file' \in Seq(Row) /\ Spaced(file') /\ Lines(file') \subseteq Past' /\ Len(file') <= Capacity
      /\ acked' \subseteq Past' /\ faults' \in 0 .. MaxFaults
  <2>1. CASE file' = s /\ acked' = acked \cup Lines(s) /\ faults' = faults
    BY <1>1, <1>4, <2>1 DEF Types
  <2>2. CASE faults' = faults + 1 /\ faults < MaxFaults /\ file' = file /\ acked' = acked
    <3>1. Spaced(file) /\ Lines(file) \subseteq Past /\ Len(file) <= Capacity
      BY <1>1 DEF Order, Sizes
    <3>2. faults' \in 0 .. MaxFaults
      BY <1>3, <2>2
    <3> QED BY <1>1, <1>4, <2>2, <3>1, <3>2 DEF Types
  <2> QED BY <1>5, <2>1, <2>2
<1>7. Types'
  <2>1. written' \in 0 .. MaxRecords /\ writes' \in 0 .. written'
    BY <1>1, <1>2, <1>3, Numbers DEF Types
  <2>2. Lines(file') \subseteq Past' \cup {Torn, Glued}
    BY <1>6
  <2> QED BY <1>1, <1>2, <1>6, <2>1, <2>2 DEF Types
<1>8. Order'
  BY <1>6 DEF Order
<1>9. Keeping'
  <2>1. SUFFICES ASSUME NEW r \in acked', ToBeKept(r, Capacity)'
                 PROVE  r \in Lines(file') /\ r \in Lines(memory')
    BY <1>2 DEF Keeping, Kept
  <2>2. ASSUME r \in acked PROVE r \in Lines(file) /\ r \in Lines(memory)
    BY <1>1, <1>4, <2>1, <2>2 DEF Keeping, Kept, Types
  <2> QED BY <1>5, <2>1, <2>2
<1>10. Rate' /\ Sizes'
  BY <1>2, <1>6 DEF Rate, Sizes
<1> QED BY <1>7, <1>8, <1>9, <1>10 DEF Inv

(* The manager adds an event.                                              *)
LEMMA AddEventInv ==
  ASSUME Inv, kind = "events", NEW t \in stamped, AddEvent(t), UNCHANGED <<writes, due>>
  PROVE  Inv'
<1> DEFINE r == Record(t)
           all == Append(memory, r)
           kept == Prune(all, t - Retention)
           s == Newest(Capacity, kept)
<1>1. Types /\ Order
  BY DEF Inv
<1>2. /\ up /\ written < MaxRecords /\ written' = written + 1
      /\ memory' = s /\ Rewrite(s) /\ stamped' = stamped \ {t}
      /\ UNCHANGED <<now, kind, up>>
  <2>1. r.n = written + 1
    BY DEF Record
  <2> QED BY <2>1 DEF AddEvent, Take
<1>3. now \in Nat /\ written \in Nat /\ t \in 0 .. now /\ t \in Int
  BY <1>1, State DEF Types
<1>4. /\ r \in Past' /\ r \in Row /\ r.n = written + 1 /\ Past \subseteq Past'
  BY <1>1, <1>2, <1>3, StepGoesOn
<1>5. /\ memory \in Seq(Row) /\ Spaced(memory) /\ Lines(memory) \subseteq Past
      /\ \A l \in Lines(memory) : l.n <= written
  BY <1>1, State DEF Types, Order
<1>6. /\ all \in Seq(Row) /\ Lines(all) = Lines(memory) \cup {r} /\ Spaced(all)
      /\ \A l \in Lines(all) : l.n <= written + 1
  BY <1>3, <1>4, <1>5, AppendIs, AppendKeeps
<1> HIDE DEF all
<1>7. EndOf(kept, all) /\ t - Retention \in Int
  <2>1. t - Retention \in Int
    BY <1>3, Numbers
  <2> QED BY <1>6, <2>1, PruneIs
<1>8. kept \in Seq(Row) /\ Lines(kept) \subseteq Lines(all) /\ Spaced(kept)
  BY <1>6, <1>7, EndKeeps DEF EndOf
<1>9. EndOf(s, kept) /\ Len(s) = IF Len(kept) <= Capacity THEN Len(kept) ELSE Capacity
  BY <1>8, Numbers, NewestIs
<1>10. /\ s \in Seq(Row) /\ Lines(s) \subseteq Lines(kept) /\ Spaced(s)
  BY <1>8, <1>9, EndKeeps DEF EndOf
<1>11. Len(s) <= Capacity
  BY <1>9, <1>10, Numbers
<1>12. Lines(s) \subseteq Past'
  BY <1>4, <1>5, <1>6, <1>8, <1>10
<1>13. ASSUME NEW l \in Lines(memory), ToBeKept(l, Capacity)' PROVE l \in Lines(s)
  <2>1. l \in Lines(all) /\ l.at \in Nat /\ l.n \in Nat
    BY <1>1, <1>5, <1>6, State
  <2>2. l.at >= now - Retention /\ written + 1 - l.n < Capacity
    BY <1>2, <1>3, <1>13, <2>1 DEF ToBeKept
  <2>3. l.at >= t - Retention
    BY <1>3, <2>1, <2>2, Numbers
  <2>4. l \in Lines(kept)
    BY <1>6, <1>7, <2>1, <2>3, PruneKeeps
  <2>5. \A x \in Lines(kept) : x.n <= written + 1
    BY <1>6, <1>8
  <2>6. PICK w \in Nat : w = written + 1
    BY <1>3
  <2> HIDE DEF kept
  <2>7. w - l.n < Capacity
    BY <1>3, <2>1, <2>2, <2>6, Numbers
  <2>8. \A x \in Lines(kept) : x.n <= w
    BY <2>5, <2>6
  <2> QED BY <1>8, <2>4, <2>6, <2>7, <2>8, Numbers, NewestKeeps
<1>14. written' <= MaxRecords /\ written' \in {written, written + 1} /\ stamped' \subseteq 0 .. now
  BY <1>1, <1>2, <1>3, Numbers DEF Types
<1> HIDE DEF s
<1> QED BY <1>2, <1>10, <1>11, <1>12, <1>13, <1>14, EventsRewritten

(* A request for the events prunes them.                                   *)
LEMMA ListEventsInv ==
  ASSUME Inv, kind = "events", ListEvents, UNCHANGED <<writes, due>>
  PROVE  Inv'
<1> DEFINE s == Prune(memory, now - Retention)
<1>1. Types /\ Order
  BY DEF Inv
<1>2. /\ up /\ memory' = s /\ Rewrite(s) /\ UNCHANGED <<now, kind, up, written, stamped>>
  BY DEF ListEvents
<1>3. /\ now \in Nat /\ written \in Nat /\ now - Retention \in Int
      /\ memory \in Seq(Row) /\ Spaced(memory) /\ Lines(memory) \subseteq Past
  BY <1>1, State, Numbers DEF Types, Order
<1>4. EndOf(s, memory)
  BY <1>3, PruneIs
<1>5. s \in Seq(Row) /\ Lines(s) \subseteq Lines(memory) /\ Spaced(s)
  BY <1>3, <1>4, EndKeeps DEF EndOf
<1>6. ASSUME NEW l \in Lines(memory), ToBeKept(l, Capacity)' PROVE l \in Lines(s)
  <2>1. l.at >= now - Retention
    BY <1>2, <1>6 DEF ToBeKept
  <2> QED BY <1>3, <2>1, PruneKeeps
<1>7. Len(s) <= Capacity
  <2>1. Len(memory) <= Capacity /\ Len(memory) \in Nat /\ Len(s) \in Nat /\ Len(s) <= Len(memory)
    BY <1>3, <1>4 DEF Inv, Sizes, EndOf
  <2> HIDE DEF s
  <2> QED BY <2>1, Numbers
<1>8. Past' = Past /\ written' \in {written, written + 1} /\ written' <= MaxRecords
      /\ stamped' \subseteq 0 .. now
  BY <1>1, <1>2, <1>3, Numbers DEF Types, Past
<1> HIDE DEF s
<1> QED BY <1>2, <1>3, <1>5, <1>6, <1>7, <1>8, EventsRewritten

(* A step that leaves the records, the file and the clock alone.           *)
LEMMA StampInv ==
  ASSUME Inv, Stamp, kind = "events", UNCHANGED <<writes, due>>
  PROVE  Inv'
<1>1. /\ now' = now /\ kind' = kind /\ up' = up /\ memory' = memory /\ file' = file
      /\ written' = written /\ acked' = acked /\ faults' = faults /\ writes' = writes /\ due' = due
      /\ stamped' = stamped \cup {now}
  BY DEF Stamp
<1>2. Types /\ Order /\ Keeping /\ Rate /\ Sizes /\ now \in 0 .. now
  BY State DEF Inv
<1>3. Types'
  BY <1>1, <1>2 DEF Types, Past
<1>4. Order' /\ Rate' /\ Sizes'
  BY <1>1, <1>2 DEF Order, Rate, Sizes, Past
<1>5. Keeping'
  BY <1>1, <1>2 DEF Keeping, Kept, ToBeKept
<1> QED BY <1>3, <1>4, <1>5 DEF Inv

(* The manager starts with what the file has.                              *)
LEMMA LoadEventsInv ==
  ASSUME Inv, kind = "events", LoadEvents, UNCHANGED <<writes, due>>
  PROVE  Inv'
<1> DEFINE read == Unexpired(file, now - Retention)
           s == Newest(Capacity, read)
<1>1. Types /\ Order /\ Keeping /\ Sizes
  BY DEF Inv
<1>2. /\ now' = now /\ kind' = kind /\ up' = TRUE /\ memory' = s /\ file' = file
      /\ written' = written /\ acked' = acked /\ faults' = faults /\ writes' = writes /\ due' = due
      /\ stamped' = stamped
  BY DEF LoadEvents
<1>3. /\ now \in Nat /\ written \in Nat /\ now - Retention \in Int
      /\ file \in Seq(Row) /\ Spaced(file) /\ Lines(file) \subseteq Past
      /\ \A l \in Past : l.n <= written
  BY <1>1, State, Numbers DEF Types, Order
<1>4. /\ read \in Seq(Row) /\ Spaced(read)
      /\ Lines(read) = {l \in Lines(file) : l.at >= now - Retention}
  BY <1>3, UnexpiredIs
<1> HIDE DEF read
<1>5. EndOf(s, read) /\ Len(s) = IF Len(read) <= Capacity THEN Len(read) ELSE Capacity
  BY <1>4, Numbers, NewestIs
<1>6. s \in Seq(Row) /\ Lines(s) \subseteq Lines(read) /\ Spaced(s)
  BY <1>4, <1>5, EndKeeps DEF EndOf
<1>7. Len(s) <= Capacity
  BY <1>4, <1>5, Numbers
<1>8. ASSUME NEW l \in Lines(file), ToBeKept(l, Capacity) PROVE l \in Lines(s)
  <2>1. l.at >= now - Retention /\ written - l.n < Capacity
    BY <1>8 DEF ToBeKept
  <2>2. l \in Lines(read) /\ \A x \in Lines(read) : x.n <= written
    BY <1>3, <1>4, <2>1
  <2> QED BY <1>3, <1>4, <2>1, <2>2, Numbers, NewestKeeps
<1> HIDE DEF s
<1>9. Lines(s) \subseteq Past
  BY <1>3, <1>4, <1>6
<1>10. Types'
  BY <1>1, <1>2, <1>6, <1>9 DEF Types, Past
<1>11. Order' /\ Rate' /\ Sizes'
  BY <1>1, <1>2, <1>3, <1>6, <1>7 DEF Order, Rate, Sizes, Past
<1>12. Keeping'
  <2>1. SUFFICES ASSUME NEW r \in acked, ToBeKept(r, Capacity)
                 PROVE  r \in Lines(file) /\ r \in Lines(s)
    BY <1>2 DEF Keeping, Kept, ToBeKept
  <2>2. r \in Lines(file)
    BY <1>1, <2>1 DEF Keeping, Kept
  <2> QED BY <1>8, <2>1, <2>2
<1> QED BY <1>10, <1>11, <1>12 DEF Inv

(* The guard adds an event to what it reads back.                          *)
LEMMA AddGuardEventInv ==
  ASSUME Inv, kind = "guard", AddGuardEvent, UNCHANGED <<stamped, writes, due>>
  PROVE  Inv'
<1> DEFINE r == Record(now)
           read == Unexpired(file, now - Retention)
           back == Newest(DefaultLimit, read)
           all == Append(back, r)
           s == Newest(Capacity, all)
<1>1. Types /\ Order /\ Keeping /\ Sizes
  BY DEF Inv
<1>2. /\ written < MaxRecords /\ written' = written + 1 /\ Rewrite(s)
      /\ now' = now /\ kind' = kind /\ up' = up /\ memory' = memory
      /\ stamped' = stamped /\ writes' = writes /\ due' = due
  <2>1. r.n = written + 1
    BY DEF Record
  <2>2. ReadBack(Capacity) = back
    BY Numbers DEF ReadBack
  <2> QED BY <2>1, <2>2 DEF AddGuardEvent, Take
<1>3. /\ now \in Nat /\ written \in Nat /\ faults \in Nat /\ now - Retention \in Int
      /\ file \in Seq(Row) /\ Spaced(file) /\ Lines(file) \subseteq Past
      /\ \A l \in Past : l.n <= written /\ l.n \in Nat /\ l.at \in Nat
  BY <1>1, State, Numbers DEF Types, Order
<1>4. /\ r \in Past' /\ r \in Row /\ r.n = written + 1 /\ Past \subseteq Past'
      /\ \A l \in Past : ToBeKept(l, DefaultLimit + 1)' => ToBeKept(l, DefaultLimit + 1)
  <2>1. now \in 0 .. now /\ DefaultLimit + 1 \in Nat
    BY <1>3, Numbers
  <2> QED BY <1>1, <1>2, <2>1, StepGoesOn
<1>5. /\ read \in Seq(Row) /\ Spaced(read)
      /\ Lines(read) = {l \in Lines(file) : l.at >= now - Retention}
  BY <1>3, UnexpiredIs
<1> HIDE DEF read
<1>6. EndOf(back, read) /\ Len(back) = IF Len(read) <= DefaultLimit THEN Len(read) ELSE DefaultLimit
  BY <1>5, Numbers, NewestIs
<1>7. back \in Seq(Row) /\ Lines(back) \subseteq Lines(read) /\ Spaced(back)
  BY <1>5, <1>6, EndKeeps DEF EndOf
<1>8. Len(back) \in Nat /\ Len(back) <= DefaultLimit
  BY <1>5, <1>6, <1>7, Numbers
<1>9. \A l \in Lines(back) : l.n <= written
  BY <1>3, <1>5, <1>7
<1>10. \A l \in Lines(read) : written - l.n < DefaultLimit => l \in Lines(back)
  <2>1. \A l \in Lines(read) : l.n <= written
    BY <1>3, <1>5
  <2> QED BY <1>3, <1>5, <2>1, Numbers, NewestKeeps
<1> HIDE DEF back
<1>11. /\ all \in Seq(Row) /\ Len(all) = Len(back) + 1 /\ Lines(all) = Lines(back) \cup {r}
       /\ Spaced(all) /\ \A l \in Lines(all) : l.n <= written + 1
  BY <1>3, <1>4, <1>7, <1>9, AppendIs, AppendKeeps
<1> HIDE DEF all
<1>12. EndOf(s, all) /\ Len(s) = IF Len(all) <= Capacity THEN Len(all) ELSE Capacity
  BY <1>11, Numbers, NewestIs
<1>13. s \in Seq(Row) /\ Lines(s) \subseteq Lines(all) /\ Spaced(s)
  BY <1>11, <1>12, EndKeeps DEF EndOf
<1>14. Len(s) = Len(all) /\ Len(s) <= DefaultLimit + 1
  BY <1>8, <1>11, <1>12, Numbers
<1>15. Lines(all) \subseteq Lines(s)
  <2>1. s \in Seq(Row) /\ DOMAIN s = 1 .. Len(s) /\ DOMAIN all = 1 .. Len(all) /\ Len(all) \in Nat
    BY <1>11, <1>13
  <2>2. \A i \in 1 .. Len(all) : s[i] = all[Len(all) - Len(s) + i] /\ Len(all) - Len(s) + i = i
    BY <1>12, <1>14, <2>1 DEF EndOf
  <2>3. \A i \in 1 .. Len(all) : s[i] = all[i]
    BY <2>2
  <2> QED BY <1>14, <2>1, <2>3 DEF Lines
<1>16. Lines(s) \subseteq Past'
  BY <1>3, <1>4, <1>5, <1>7, <1>11, <1>13
<1> HIDE DEF s
<1>17. \/ file' = s /\ acked' = acked \cup Lines(s) /\ faults' = faults
       \/ faults' = faults + 1 /\ faults < MaxFaults /\ file' = file /\ acked' = acked
  BY <1>2 DEF Rewrite, Fault
<1>18. /\ file' \in Seq(Row) /\ Spaced(file') /\ Lines(file') \subseteq Past'
       /\ Len(file') <= DefaultLimit + 1
       /\ acked' \subseteq Past' /\ faults' \in 0 .. MaxFaults
  <2>1. CASE file' = s /\ acked' = acked \cup Lines(s) /\ faults' = faults
    BY <1>1, <1>4, <1>13, <1>14, <1>16, <2>1 DEF Types
  <2>2. CASE faults' = faults + 1 /\ faults < MaxFaults /\ file' = file /\ acked' = acked
    <3>1. Len(file) <= DefaultLimit + 1
      BY <1>1 DEF Sizes
    <3>2. faults' \in 0 .. MaxFaults
      BY <1>3, <2>2, Numbers
    <3> QED BY <1>1, <1>3, <1>4, <2>2, <3>1, <3>2 DEF Types
  <2> QED BY <1>17, <2>1, <2>2
<1>19. Types'
  <2>1. written' \in 0 .. MaxRecords /\ writes' \in 0 .. written'
    BY <1>1, <1>2, <1>3, Numbers DEF Types
  <2>2. Lines(file') \subseteq Past' \cup {Torn, Glued}
    BY <1>18
  <2>3. Lines(memory') \subseteq Past' /\ memory' \in Seq(Row)
    BY <1>1, <1>2, <1>4 DEF Types
  <2> QED BY <1>1, <1>2, <1>18, <2>1, <2>2, <2>3 DEF Types
<1>20. Order'
  BY <1>1, <1>2, <1>18 DEF Order
<1>21. Keeping'
  <2>1. SUFFICES ASSUME NEW l \in acked', ToBeKept(l, DefaultLimit + 1)'
                 PROVE  l \in Lines(file')
    BY <1>2 DEF Keeping, Kept
  <2>2. ASSUME l \in acked PROVE l \in Lines(file) /\ l \in Lines(s)
    <3>1. l \in Past /\ ToBeKept(l, DefaultLimit + 1)
      BY <1>1, <1>4, <2>1, <2>2 DEF Types
    <3>2. l \in Lines(file)
      BY <1>1, <2>2, <3>1 DEF Keeping, Kept
    <3>3. l.at >= now - Retention /\ written + 1 - l.n < DefaultLimit + 1
      <4>1. l.at >= now' - Retention /\ written' - l.n < DefaultLimit + 1
        BY <2>1 DEF ToBeKept
      <4>2. now' = now /\ written' = written + 1
        BY <1>2
      <4>3. now \in Nat /\ written \in Nat /\ l.n \in Nat /\ l.at \in Nat
        BY <1>3, <3>1
      <4> QED BY <4>1, <4>2, <4>3, Numbers
    <3>4. l.n \in Nat /\ l \in Lines(read)
      BY <1>3, <1>5, <3>1, <3>2, <3>3
    <3>5. written - l.n < DefaultLimit
      BY <1>3, <3>3, <3>4, Numbers
    <3>6. l \in Lines(back)
      BY <1>10, <3>4, <3>5
    <3> QED BY <1>11, <1>15, <3>2, <3>6
  <2> QED BY <1>17, <2>1, <2>2
<1>22. Rate' /\ Sizes'
  BY <1>2, <1>18 DEF Rate, Sizes
<1> QED BY <1>19, <1>20, <1>21, <1>22 DEF Inv

(* The guard starts, and reads nothing yet.                                *)
LEMMA StartGuardInv ==
  ASSUME Inv, kind = "guard", StartGuard, UNCHANGED <<stamped, writes, due>>
  PROVE  Inv'
<1>1. /\ now' = now /\ kind' = kind /\ up' = TRUE /\ memory' = memory /\ file' = file
      /\ written' = written /\ acked' = acked /\ faults' = faults
      /\ stamped' = stamped /\ writes' = writes /\ due' = due
  BY DEF StartGuard
<1>2. Types /\ Order /\ Keeping /\ Sizes
  BY DEF Inv
<1>3. Types'
  BY <1>1, <1>2 DEF Types, Past
<1>4. Order' /\ Rate' /\ Sizes'
  BY <1>1, <1>2 DEF Order, Rate, Sizes, Past
<1>5. Keeping'
  BY <1>1, <1>2 DEF Keeping, Kept, ToBeKept
<1> QED BY <1>3, <1>4, <1>5 DEF Inv

(* The file is torn when it has a line that is not whole.                  *)
LEMMA TornIs ==
  /\ IsTorn <=> Lines(file) \cap {Torn, Glued} # {}
  /\ IsTorn' <=> Lines(file') \cap {Torn, Glued} # {}
<1>1. IsTorn <=> Lines(file) \cap {Torn, Glued} # {}
  BY DEF IsTorn, Lines
<1>2. IsTorn' <=> Lines(file') \cap {Torn, Glued} # {}
  BY DEF IsTorn, Lines
<1> QED BY <1>1, <1>2

(* A sample is asked for: one that was open is not any more.               *)
LEMMA SampleAsked ==
  ASSUME Inv, kind = "samples", Takes, now' = now, kind' = kind, stamped' = stamped
  PROVE  /\ up /\ written' = written + 1 /\ written' \in 0 .. MaxRecords
         /\ writes' = writes + 1 /\ writes' \in 0 .. written' /\ due' \in BOOLEAN
         /\ Open >= 1 /\ (up' => Open' <= Open - 1) /\ Open' \in {0, 1, 2}
         /\ Record(now) \in Past' /\ Record(now) \in Row /\ Record(now).at = now
         /\ Past \subseteq Past'
         /\ \A r \in Past : r.at >= now' - Retention => r.at >= now - Retention
<1>1. Types /\ now \in Nat /\ written \in Nat /\ writes \in Nat /\ now \in 0 .. now
  BY State DEF Inv
<1>2. /\ up /\ written < MaxRecords /\ written' = written + 1 /\ writes' = writes + 1
      /\ (due /\ due' = FALSE) \/ (writes = 0 /\ due' = due)
  <2>1. Record(now).n = written + 1
    BY DEF Record
  <2> QED BY <2>1 DEF Takes, Take, Asked
<1>3. written' \in 0 .. MaxRecords /\ writes' \in 0 .. written'
  BY <1>1, <1>2, Numbers DEF Types
<1>4. due' \in BOOLEAN
  <2>1. due \in BOOLEAN
    BY <1>1 DEF Types
  <2> QED BY <1>2, <2>1
<1>5. writes' # 0
  BY <1>1, <1>2
<1>6. Open >= 1 /\ (up' => Open' <= Open - 1)
  <2>1. CASE due /\ due' = FALSE
    <3>1. Open = 1 + (IF writes = 0 THEN 1 ELSE 0)
      BY <1>2, <2>1 DEF Open
    <3>2. up' => Open' = 0
      BY <1>5, <2>1 DEF Open
    <3> QED BY <3>1, <3>2
  <2>2. CASE writes = 0 /\ due' = due
    <3>1. Open = (IF due THEN 1 ELSE 0) + 1
      BY <1>2, <2>2 DEF Open
    <3>2. up' => Open' = (IF due THEN 1 ELSE 0) + 0
      BY <1>5, <2>2 DEF Open
    <3> QED BY <3>1, <3>2
  <2> QED BY <1>2, <2>1, <2>2
<1>7. Open' \in {0, 1, 2}
  BY DEF Open
<1>8. /\ Record(now) \in Past' /\ Record(now) \in Row /\ Record(now).at = now
      /\ Past \subseteq Past'
      /\ \A r \in Past : r.at >= now' - Retention => r.at >= now - Retention
  BY <1>1, <1>2, StepGoesOn
<1> QED BY <1>2, <1>3, <1>4, <1>6, <1>7, <1>8

(* It is kept in memory, behind what has not expired.                      *)
LEMMA SampleRemembered ==
  ASSUME Inv, kind = "samples", Takes, now' = now, kind' = kind, stamped' = stamped,
         up' = up, memory' = Sampled, faults' \in {faults, faults + 1}
  PROVE  /\ memory' \in Seq(Row) /\ Lines(memory') \subseteq Past'
         /\ \A r \in Lines(memory) \cup {Record(now)} :
              r.at >= now - Retention => r \in Lines(memory')
         /\ Recent(memory', now, Slack') /\ Len(memory') <= Retention + 1 + Slack'
         /\ Slack' \in Int /\ Slack' >= Slack + 1 /\ Slack' >= 0 /\ Slack' <= 1 + 2 * faults'
<1> DEFINE r == Record(now)
           all == Append(memory, r)
           kept == Prune(all, now - Retention)
<1>1. /\ Types /\ Rate /\ now \in Nat /\ faults \in Nat /\ now - Retention \in Int /\ Slack \in Int
      /\ memory \in Seq(Row) /\ Lines(memory) \subseteq Past /\ Open \in {0, 1, 2}
  BY State, Numbers DEF Inv, Types
<1>2. /\ up /\ Open >= 1 /\ Open' <= Open - 1 /\ Open' \in {0, 1, 2}
      /\ r \in Past' /\ r \in Row /\ r.at = now /\ Past \subseteq Past'
  BY SampleAsked
<1>3. Slack' \in Int /\ Slack' >= Slack + 1 /\ Slack' >= 0 /\ Slack' <= 1 + 2 * faults'
  <2>1. Slack = 1 + 2 * faults - Open /\ Slack' = 1 + 2 * faults' - Open'
    BY DEF Slack
  <2>2. \A f, g, o, p \in Nat :
          g >= f /\ o <= 2 /\ p <= o - 1 =>
            /\ 1 + 2 * g - p \in Int /\ 1 + 2 * g - p >= 1 + 2 * f - o + 1
            /\ 1 + 2 * g - p >= 0 /\ 1 + 2 * g - p <= 1 + 2 * g
    OBVIOUS
  <2>3. faults \in Nat /\ faults' \in Nat /\ faults' >= faults
    BY <1>1
  <2>4. Open \in Nat /\ Open' \in Nat /\ Open <= 2 /\ Open' <= Open - 1
    BY <1>1, <1>2
  <2> HIDE DEF Open, Slack
  <2> QED BY <2>1, <2>2, <2>3, <2>4
<1>4. memory' = kept
  BY DEF Sampled
<1>5. Recent(memory, now, Slack)
  BY <1>1, <1>2 DEF Rate
<1>6. /\ all \in Seq(Row) /\ Len(all) = Len(memory) + 1 /\ Lines(all) = Lines(memory) \cup {r}
  BY <1>1, <1>2, AppendIs
<1>7. PICK b \in Int : b = Slack'
  BY <1>3
<1>8. Recent(all, now, b)
  BY <1>1, <1>2, <1>3, <1>5, <1>7, RecentAppend
<1> HIDE DEF all, r
<1>9. EndOf(kept, all) /\ (Len(kept) > 0 => kept[1].at >= now - Retention)
  BY <1>1, <1>6, PruneIs
<1>10. kept \in Seq(Row) /\ Lines(kept) \subseteq Lines(all)
  BY <1>6, <1>9, EndKeeps DEF EndOf
<1>11. \A l \in Lines(memory) \cup {r} : l.at >= now - Retention => l \in Lines(kept)
  BY <1>1, <1>6, PruneKeeps
<1> HIDE DEF kept
<1>12. Recent(kept, now, b)
  BY <1>1, <1>6, <1>8, <1>9, RecentIs
<1>13. Len(kept) <= Retention + 1 + b
  <2>1. CASE Len(kept) > 0
    <3>1. Len(kept) <= Retention + b + 1
      BY <1>1, <1>9, <1>10, <1>12, <2>1, RecentIs
    <3> QED BY <1>10, <3>1, Numbers
  <2>2. CASE Len(kept) = 0
    <3>1. b \in Int /\ b >= 0
      BY <1>3, <1>7
    <3> QED BY <2>2, <3>1, Numbers
  <2> QED BY <1>10, <2>1, <2>2
<1>14. Lines(kept) \subseteq Past'
  BY <1>1, <1>2, <1>6, <1>10
<1> QED BY <1>3, <1>4, <1>7, <1>10, <1>11, <1>12, <1>13, <1>14 DEF r

(* A line is written to the samples' file, whole or not.                   *)
LEMMA LineWritten ==
  ASSUME Inv, kind = "samples", Takes, now' = now, kind' = kind, stamped' = stamped,
         NEW r \in {Torn, Record(now)}, file' = Appended(file, r),
         NEW b \in Int, b >= Slack + 1, b >= 0
  PROVE  /\ file' \in Seq(Row) /\ Len(file') \in Nat /\ Len(file') <= Len(file) + 1
         /\ Lines(file') \subseteq Past' \cup {Torn, Glued}
         /\ \A l \in Lines(file) \cup {r} : l \in Lines(file') \/ IsTorn'
         /\ IsTorn => IsTorn'
         /\ ~IsTorn' => Recent(file', now, b)
<1>1. /\ Types /\ Rate /\ now \in Nat /\ Slack \in Int
      /\ file \in Seq(Row) /\ Lines(file) \subseteq Past \cup {Torn, Glued}
      /\ Torn \in Row /\ Glued \in Row
  BY State DEF Inv, Types
<1>2. /\ Record(now) \in Past' /\ Record(now) \in Row /\ Record(now).at = now
      /\ Past \subseteq Past'
  BY SampleAsked
<1>3. r \in Row /\ r \in Past' \cup {Torn}
  BY <1>1, <1>2
<1>4. /\ file' \in Seq(Row) /\ Len(file') <= Len(file) + 1
      /\ Lines(file') \subseteq Lines(file) \cup {r, Torn, Glued}
      /\ \/ file' = Append(file, r) /\ Lines(file') = Lines(file) \cup {r}
         \/ /\ Lines(file') \cap {Torn, Glued} # {}
            /\ Lines(file) \cap {Torn, Glued} # {}
  BY <1>1, <1>3, AppendedIs
<1>5. Lines(file') \subseteq Past' \cup {Torn, Glued} /\ Len(file') \in Nat
  BY <1>1, <1>2, <1>3, <1>4
<1>6. \A l \in Lines(file) \cup {r} : l \in Lines(file') \/ IsTorn'
  BY <1>4, TornIs
<1>7. IsTorn => IsTorn'
  BY <1>4, TornIs
<1>8. ASSUME ~IsTorn' PROVE Recent(file', now, b)
  <2>1. file' = Append(file, r) /\ Lines(file') = Lines(file) \cup {r}
    BY <1>4, <1>8, TornIs
  <2>2. r # Torn /\ ~IsTorn
    BY <1>7, <1>8, <2>1, TornIs
  <2>3. r = Record(now) /\ r.at = now /\ r \in Row
    BY <1>2, <2>2
  <2>4. Recent(file, now, Slack)
    BY <1>1, <2>2 DEF Rate
  <2>5. Recent(Append(file, r), now, b)
    BY <1>1, <2>3, <2>4, RecentAppend
  <2> QED BY <2>1, <2>5
<1> QED BY <1>4, <1>5, <1>6, <1>7, <1>8

(* The bound of a file, from that of the state before.                     *)
LEMMA FileGrows ==
  ASSUME NEW f \in Nat, NEW len \in Nat, NEW k \in Nat, NEW x \in Nat,
         x <= CompactEvery - 1,
         len <= Retention + 2 + CompactEvery * f + x, k <= len + 1
  PROVE  /\ \A y \in Nat : k <= Retention + 2 + CompactEvery * (f + 1) + y
         /\ \A y \in Nat : y >= x + 1 => k <= Retention + 2 + CompactEvery * f + y
         /\ k <= Retention + 2 + CompactEvery * (f + 1) + 0
         /\ len <= Retention + 1 + CompactEvery * (f + 1)
<1> DEFINE c == CompactEvery
<1>1. c \in Nat /\ c * f \in Nat /\ c * (f + 1) = c * f + c
  BY Numbers
<1>2. PICK m \in Nat : m = c * f
  BY <1>1
<1>3. x <= c - 1 /\ len <= Retention + 2 + m + x
  BY <1>2
<1> HIDE DEF c
<1>4. /\ \A y \in Nat : k <= Retention + 2 + (m + c) + y
      /\ \A y \in Nat : y >= x + 1 => k <= Retention + 2 + m + y
      /\ k <= Retention + 2 + (m + c) + 0
      /\ len <= Retention + 1 + (m + c)
  BY <1>1, <1>2, <1>3, Numbers
<1>5. m = c * f /\ m + c = c * (f + 1)
  BY <1>1, <1>2
<1>6. /\ \A y \in Nat : k <= Retention + 2 + c * (f + 1) + y
      /\ \A y \in Nat : y >= x + 1 => k <= Retention + 2 + c * f + y
      /\ k <= Retention + 2 + c * (f + 1) + 0
      /\ len <= Retention + 1 + c * (f + 1)
  BY <1>4, <1>5
<1> QED BY <1>6 DEF c

(* The samples' file as it is before a sample is taken.                    *)
LEMMA FileIsShort ==
  ASSUME Inv, kind = "samples", up
  PROVE  /\ Len(file) \in Nat /\ faults \in Nat /\ writes \in Nat
         /\ writes % CompactEvery \in Nat /\ writes % CompactEvery <= CompactEvery - 1
         /\ Len(file) <= Retention + 2 + CompactEvery * faults + (writes % CompactEvery)
<1>1. Types /\ Sizes /\ faults \in Nat /\ writes \in Nat
  BY State DEF Inv
<1>2. Len(file) \in Nat
  BY <1>1 DEF Types
<1>3. writes % CompactEvery \in Nat /\ writes % CompactEvery <= CompactEvery - 1
  BY <1>1, NextWrite
<1>4. Len(file) <= Retention + 2 + CompactEvery * faults + (writes % CompactEvery)
  BY <1>1 DEF Sizes
<1> QED BY <1>1, <1>2, <1>3, <1>4

(* A sample that is taken, of which the line is written or is lost, in a   *)
(* process that runs on.                                                   *)
LEMMA SampleKept ==
  ASSUME Inv, kind = "samples", Takes, now' = now, kind' = kind, stamped' = stamped,
         up' = up, memory' = Sampled, faults' \in {faults, faults + 1}, faults' <= MaxFaults,
         acked' \subseteq acked \cup {Record(now)},
         \/ file' = Appended(file, Record(now))
         \/ /\ faults' = faults + 1 /\ acked' = acked
            /\ file' = file \/ file' = Appended(file, Torn),
         faults' = faults => writes' % CompactEvery # 0
  PROVE  Inv'
<1> DEFINE r == Record(now)
<1>1. /\ Types /\ Keeping /\ Rate /\ now \in Nat /\ written \in Nat /\ faults \in Nat
      /\ writes \in Nat /\ Slack \in Int
  BY State DEF Inv
<1>2. /\ up /\ written' = written + 1 /\ written' \in 0 .. MaxRecords
      /\ writes' = writes + 1 /\ writes' \in 0 .. written' /\ due' \in BOOLEAN
      /\ r \in Past' /\ Past \subseteq Past'
      /\ \A l \in Past : l.at >= now' - Retention => l.at >= now - Retention
  BY SampleAsked
<1>3. /\ memory' \in Seq(Row) /\ Lines(memory') \subseteq Past'
      /\ \A l \in Lines(memory) \cup {r} : l.at >= now - Retention => l \in Lines(memory')
      /\ Recent(memory', now, Slack')
      /\ Slack' \in Int /\ Slack' >= Slack + 1 /\ Slack' >= 0
  BY SampleRemembered
<1>4. PICK b \in Int : b = Slack'
  BY <1>3
<1>5. /\ file' \in Seq(Row) /\ Len(file') \in Nat /\ Len(file') <= Len(file) + 1
      /\ Lines(file') \subseteq Past' \cup {Torn, Glued}
      /\ \A l \in acked' : l \in acked /\ l \in Lines(file) => l \in Lines(file') \/ IsTorn'
      /\ r \in acked' \ acked => r \in Lines(file') \/ IsTorn'
      /\ IsTorn => IsTorn'
      /\ ~IsTorn' => Recent(file', now, b)
  <2>1. ASSUME NEW x \in {Torn, r}, file' = Appended(file, x)
        PROVE  /\ file' \in Seq(Row) /\ Len(file') \in Nat /\ Len(file') <= Len(file) + 1
               /\ Lines(file') \subseteq Past' \cup {Torn, Glued}
               /\ \A l \in Lines(file) \cup {x} : l \in Lines(file') \/ IsTorn'
               /\ IsTorn => IsTorn'
               /\ ~IsTorn' => Recent(file', now, b)
    BY <1>3, <1>4, <2>1, LineWritten
  <2>2. CASE file' = file /\ acked' = acked
    <3>1. /\ file \in Seq(Row) /\ Len(file) \in Nat
          /\ Lines(file) \subseteq Past' \cup {Torn, Glued}
      BY <1>1, <1>2 DEF Types
    <3>2. IsTorn' <=> IsTorn
      BY <2>2, TornIs
    <3>3. ASSUME ~IsTorn' PROVE Recent(file', now, b)
      <4>1. Recent(file, now, Slack) /\ b >= Slack
        BY <1>1, <1>3, <1>4, <3>2, <3>3 DEF Rate
      <4> QED BY <1>1, <2>2, <3>1, <4>1, RecentIs
    <3> QED BY <2>2, <3>1, <3>2, <3>3
  <2>3. CASE file' = Appended(file, r)
    BY <2>1, <2>3
  <2>4. CASE file' = Appended(file, Torn) /\ acked' = acked
    BY <2>1, <2>4
  <2> QED BY <2>2, <2>3, <2>4
<1>6. Types'
  <2>1. acked' \subseteq Past'
    BY <1>1, <1>2 DEF Types
  <2>2. faults' \in 0 .. MaxFaults
    BY <1>1, Numbers
  <2> QED BY <1>1, <1>2, <1>3, <1>5, <2>1, <2>2 DEF Types
<1>7. Order' /\ Rate'
  BY <1>3, <1>4, <1>5 DEF Order, Rate
<1>8. Keeping'
  <2>1. SUFFICES ASSUME NEW l \in acked', l.at >= now' - Retention
                 PROVE  (l \in Lines(file') \/ IsTorn') /\ l \in Lines(memory')
    BY DEF Keeping
  <2>2. CASE l \in acked
    <3>1. l \in Past /\ l.at >= now - Retention
      BY <1>1, <1>2, <2>1, <2>2 DEF Types
    <3>2. (l \in Lines(file) \/ IsTorn) /\ l \in Lines(memory)
      BY <1>1, <1>2, <2>2, <3>1 DEF Keeping
    <3> QED BY <1>3, <1>5, <2>1, <2>2, <3>1, <3>2
  <2>3. CASE l = r /\ l \notin acked
    BY <1>3, <1>5, <2>1, <2>3
  <2> QED BY <2>1, <2>2, <2>3
<1>9. Sizes'
  <2> DEFINE x == writes % CompactEvery
             y == writes' % CompactEvery
  <2>1. /\ Len(file) \in Nat /\ x \in Nat /\ x <= CompactEvery - 1
        /\ Len(file) <= Retention + 2 + CompactEvery * faults + x
    BY <1>2, FileIsShort
  <2>2. y \in Nat /\ (y # 0 => y >= x + 1)
    BY <1>1, <1>2, NextWrite
  <2> HIDE DEF x, y
  <2>3. /\ Len(file') <= Retention + 2 + CompactEvery * (faults + 1) + y
        /\ y # 0 => Len(file') <= Retention + 2 + CompactEvery * faults + y
    BY <1>1, <1>5, <2>1, <2>2, FileGrows
  <2>4. Len(file') <= Retention + 2 + CompactEvery * faults' + y
    <3>1. CASE faults' = faults + 1
      BY <2>3, <3>1
    <3>2. CASE faults' = faults
      <4>1. y # 0
        BY <3>2 DEF y
      <4> QED BY <2>3, <3>2, <4>1
    <3> QED BY <3>1, <3>2
  <2> QED BY <1>2, <2>4 DEF Sizes, y
<1> QED BY <1>6, <1>7, <1>8, <1>9 DEF Inv

(* A sample is taken, and the file compacted when it is due.               *)
LEMMA AppendSampleInv ==
  ASSUME Inv, kind = "samples", AppendSample, UNCHANGED stamped
  PROVE  Inv'
<1> DEFINE r == Record(now)
<1>1. Takes /\ memory' = Sampled /\ now' = now /\ kind' = kind /\ up' = up /\ stamped' = stamped
  BY DEF AppendSample
<1>2. /\ Types /\ Keeping /\ faults \in Nat /\ writes \in Nat /\ written \in Nat /\ now \in Nat
      /\ faults <= MaxFaults
  BY State, Numbers DEF Inv, Types
<1>3. CASE file' = Appended(file, r) /\ acked' = acked \cup {r} /\ Fault
  <2>1. faults' = faults + 1 /\ faults' <= MaxFaults /\ faults' # faults
    BY <1>2, <1>3, Numbers DEF Fault
  <2> QED BY <1>1, <1>3, <2>1, SampleKept
<1>4. CASE file' = Appended(file, r) /\ acked' = acked \cup {r} /\ faults' = faults /\ ~Compacts
  <2>1. writes' % CompactEvery # 0
    BY <1>4 DEF Compacts
  <2> QED BY <1>1, <1>2, <1>4, <2>1, SampleKept
<1>5. CASE file' = memory' /\ acked' = acked \cup Lines(memory') /\ faults' = faults /\ Compacts
  <2>1. /\ up /\ written' = written + 1 /\ written' \in 0 .. MaxRecords
        /\ writes' = writes + 1 /\ writes' \in 0 .. written' /\ due' \in BOOLEAN
        /\ Past \subseteq Past'
        /\ \A l \in Past : l.at >= now' - Retention => l.at >= now - Retention
    BY <1>1, SampleAsked
  <2>2. /\ memory' \in Seq(Row) /\ Lines(memory') \subseteq Past'
        /\ \A l \in Lines(memory) \cup {r} : l.at >= now - Retention => l \in Lines(memory')
        /\ Recent(memory', now, Slack') /\ Len(memory') <= Retention + 1 + Slack'
        /\ Slack' \in Int /\ Slack' <= 1 + 2 * faults'
    BY <1>1, <1>5, SampleRemembered
  <2>3. acked' \subseteq Past' /\ acked \subseteq Past
    BY <1>2, <1>5, <2>1, <2>2 DEF Types
  <2>4. Types'
    BY <1>1, <1>2, <1>5, <2>1, <2>2, <2>3 DEF Types
  <2>5. Order' /\ Rate'
    BY <1>1, <1>5, <2>2 DEF Order, Rate
  <2>6. Keeping'
    <3>1. SUFFICES ASSUME NEW l \in acked', l.at >= now' - Retention
                   PROVE  l \in Lines(memory')
      BY <1>1, <1>5 DEF Keeping
    <3>2. CASE l \in acked
      <4>1. l.at >= now - Retention
        BY <2>1, <2>3, <3>1, <3>2
      <4>2. l \in Lines(memory)
        BY <1>2, <2>1, <3>2, <4>1 DEF Keeping
      <4> QED BY <2>2, <4>1, <4>2
    <3>3. CASE l \in Lines(memory')
      BY <3>3
    <3> QED BY <1>5, <3>1, <3>2, <3>3
  <2>7. Sizes'
    <3>1. writes' % CompactEvery = 0
      BY <1>5 DEF Compacts
    <3>2. CompactEvery * faults >= 2 * faults
      BY <1>2, Numbers
    <3>3. Len(memory') \in Nat /\ faults' = faults /\ CompactEvery * faults \in Nat
      BY <1>2, <1>5, <2>2, Numbers
    <3>4. \A k, f, m \in Nat, s \in Int :
            k <= Retention + 1 + s /\ s <= 1 + 2 * f /\ m >= 2 * f =>
              k <= Retention + 2 + m + 0
      BY Numbers
    <3>5. Len(memory') <= Retention + 2 + CompactEvery * faults + 0
      <4> HIDE DEF Slack
      <4> QED BY <1>2, <2>2, <3>2, <3>3, <3>4
    <3>6. Len(file') <= Retention + 2 + CompactEvery * faults' + (writes' % CompactEvery)
      BY <1>5, <3>1, <3>5
    <3> QED BY <1>1, <2>1, <3>6 DEF Sizes
  <2> QED BY <2>4, <2>5, <2>6, <2>7 DEF Inv
<1> QED BY <1>3, <1>4, <1>5 DEF AppendSample

(* The line is not written, or a part of it is, or all of it.              *)
LEMMA AppendFailsInv ==
  ASSUME Inv, kind = "samples", AppendFails, UNCHANGED stamped
  PROVE  Inv'
<1>1. /\ Takes /\ memory' = Sampled /\ now' = now /\ kind' = kind /\ up' = up
      /\ stamped' = stamped /\ acked' = acked
      /\ file' \in {file} \cup {Appended(file, r) : r \in {Torn, Record(now)}}
  BY DEF AppendFails
<1>2. faults \in Nat /\ faults' = faults + 1 /\ faults' <= MaxFaults /\ faults' # faults
  <2>1. faults \in Nat /\ MaxFaults \in Nat
    BY State, Numbers DEF Inv
  <2>2. faults < MaxFaults /\ faults' = faults + 1
    BY DEF AppendFails, Fault
  <2> QED BY <2>1, <2>2
<1>3. \/ file' = Appended(file, Record(now))
      \/ file' = file \/ file' = Appended(file, Torn)
  BY <1>1
<1> QED BY <1>1, <1>2, <1>3, SampleKept

(* The process dies with the line written, or a part of it.                *)
LEMMA AppendCutInv ==
  ASSUME Inv, kind = "samples", AppendCut, UNCHANGED stamped
  PROVE  Inv'
<1>1. /\ Takes /\ memory' = <<>> /\ now' = now /\ kind' = kind /\ up' = FALSE
      /\ stamped' = stamped /\ acked' = acked
  BY DEF AppendCut
<1>2. PICK r \in {Torn, Record(now)} : file' = Appended(file, r)
  BY DEF AppendCut
<1>3. /\ Types /\ Keeping /\ faults \in Nat /\ Slack \in Int /\ Open \in {0, 1, 2}
  BY State DEF Inv
<1>4. faults' = faults + 1 /\ faults' \in 0 .. MaxFaults
  <2>1. faults < MaxFaults /\ faults' = faults + 1
    BY DEF AppendCut, Fault
  <2> QED BY <1>3, <2>1, Numbers
<1>5. /\ up /\ written' \in 0 .. MaxRecords
      /\ writes' = writes + 1 /\ writes' \in 0 .. written' /\ due' \in BOOLEAN
      /\ Open >= 1 /\ Past \subseteq Past'
      /\ \A l \in Past : l.at >= now' - Retention => l.at >= now - Retention
  BY <1>1, SampleAsked
<1>6. Slack' = 1 + 2 * faults
  <2>1. Open' = 2
    BY <1>1 DEF Open
  <2>2. Slack' = 1 + 2 * (faults + 1) - 2
    BY <1>4, <2>1 DEF Slack
  <2> QED BY <1>3, <2>2
<1>7. PICK b \in Int : b = Slack' /\ b >= Slack + 1 /\ b >= 0
  <2>1. Slack = 1 + 2 * faults - Open
    BY DEF Slack
  <2>2. \A f, o \in Nat : o >= 1 =>
          /\ 1 + 2 * f \in Int /\ 1 + 2 * f >= 1 + 2 * f - o + 1 /\ 1 + 2 * f >= 0
    OBVIOUS
  <2>3. Open \in Nat
    BY <1>3
  <2> HIDE DEF Open, Slack
  <2> QED BY <1>3, <1>5, <1>6, <2>1, <2>2, <2>3
<1>8. /\ file' \in Seq(Row) /\ Len(file') \in Nat /\ Len(file') <= Len(file) + 1
      /\ Lines(file') \subseteq Past' \cup {Torn, Glued}
      /\ \A l \in Lines(file) : l \in Lines(file') \/ IsTorn'
      /\ IsTorn => IsTorn'
      /\ ~IsTorn' => Recent(file', now, b)
  BY <1>1, <1>2, <1>7, LineWritten
<1>9. Types'
  <2>1. memory' \in Seq(Row) /\ Lines(memory') = {}
    BY <1>1 DEF Lines
  <2>2. acked' \subseteq Past'
    BY <1>1, <1>3, <1>5 DEF Types
  <2> QED BY <1>1, <1>3, <1>4, <1>5, <1>8, <2>1, <2>2 DEF Types
<1>10. Order' /\ Rate'
  BY <1>1, <1>7, <1>8 DEF Order, Rate
<1>11. Keeping'
  <2>1. SUFFICES ASSUME NEW l \in acked', l.at >= now' - Retention
                 PROVE  l \in Lines(file') \/ IsTorn'
    BY <1>1 DEF Keeping
  <2>2. l \in Past /\ l.at >= now - Retention
    BY <1>1, <1>3, <1>5, <2>1 DEF Types
  <2>3. l \in Lines(file) \/ IsTorn
    BY <1>1, <1>3, <2>1, <2>2 DEF Keeping
  <2> QED BY <1>8, <2>3
<1>12. Sizes'
  <2>1. Len(file') <= Retention + 2 + CompactEvery * (faults + 1) + 0
    BY <1>5, <1>8, FileIsShort, FileGrows
  <2> QED BY <1>1, <1>4, <2>1 DEF Sizes
<1> QED BY <1>9, <1>10, <1>11, <1>12 DEF Inv

(* The manager starts with the samples that a whole file has.              *)
LEMMA LoadSamplesInv ==
  ASSUME Inv, kind = "samples", LoadSamples, UNCHANGED stamped
  PROVE  Inv'
<1> DEFINE s == Unexpired(file, now - Retention)
<1>1. /\ ~up /\ ~IsTorn /\ now' = now /\ kind' = kind /\ up' = TRUE /\ memory' = s /\ file' = file
      /\ written' = written /\ acked' = acked /\ faults' = faults
      /\ stamped' = stamped /\ writes' = 0 /\ due' = TRUE
  BY DEF LoadSamples
<1>2. /\ Types /\ Keeping /\ Rate /\ Sizes /\ now \in Nat /\ written \in Nat
      /\ now - Retention \in Int /\ Slack \in Int /\ file \in Seq(Row)
  BY State, Numbers DEF Inv, Types
<1>3. Lines(file) \subseteq Past
  BY <1>1, <1>2, TornIs DEF Types
<1>4. s \in Seq(Row) /\ Lines(s) = {l \in Lines(file) : l.at >= now - Retention}
  BY <1>2, UnexpiredIs
<1>5. Recent(file, now, Slack)
  BY <1>1, <1>2 DEF Rate
<1>6. Recent(s, now, Slack)
  BY <1>2, <1>5, RecentIs
<1> HIDE DEF s
<1>7. Slack' = Slack
  <2>1. Open = 2
    BY <1>1 DEF Open
  <2>2. Open' = 2
    BY <1>1 DEF Open
  <2> QED BY <1>1, <2>1, <2>2 DEF Slack
<1>8. Past' = Past /\ (IsTorn' <=> IsTorn)
  BY <1>1, TornIs DEF Past
<1>9. Types'
  BY <1>1, <1>2, <1>3, <1>4, <1>8 DEF Types
<1>10. Order' /\ Rate'
  BY <1>1, <1>5, <1>6, <1>7 DEF Order, Rate
<1>11. Keeping'
  <2>1. SUFFICES ASSUME NEW l \in acked, l.at >= now - Retention
                 PROVE  l \in Lines(file) /\ l \in Lines(s)
    BY <1>1 DEF Keeping
  <2>2. l \in Lines(file)
    BY <1>1, <1>2, <2>1 DEF Keeping
  <2> QED BY <1>4, <2>1, <2>2
<1>12. Sizes'
  <2>1. Len(file) <= Retention + 2 + CompactEvery * faults + 0
    BY <1>1, <1>2 DEF Sizes
  <2>2. 0 % CompactEvery = 0
    BY Numbers
  <2> QED BY <1>1, <2>1, <2>2 DEF Sizes
<1> QED BY <1>9, <1>10, <1>11, <1>12 DEF Inv

-----------------------------------------------------------------------------
(* The steps of every store.                                               *)

(* A crash leaves the file, and two samples open.                          *)
LEMMA CrashInv ==
  ASSUME Inv, Crash
  PROVE  Inv'
<1>1. /\ up /\ now' = now /\ kind' = kind /\ up' = FALSE /\ memory' = <<>> /\ file' = file
      /\ written' = written /\ acked' = acked
      /\ stamped' = {} /\ writes' = writes /\ due' = due
  BY DEF Crash
<1>2. /\ Types /\ Order /\ Keeping /\ Rate /\ Sizes
      /\ now \in Nat /\ faults \in Nat /\ Slack \in Int /\ Open \in {0, 1, 2}
      /\ file \in Seq(Row)
  BY State DEF Inv, Types
<1>3. faults' = faults + 1 /\ faults' \in 0 .. MaxFaults
  <2>1. faults < MaxFaults /\ faults' = faults + 1
    BY DEF Crash, Fault
  <2> QED BY <1>2, <2>1, Numbers
<1>4. memory' \in Seq(Row) /\ Lines(memory') = {} /\ Len(memory') = 0
  BY <1>1 DEF Lines
<1>5. Past' = Past /\ (IsTorn' <=> IsTorn)
  BY <1>1, TornIs DEF Past
<1>6. Types'
  BY <1>1, <1>2, <1>3, <1>4, <1>5 DEF Types
<1>7. Order'
  <2>1. Spaced(memory')
    BY <1>4 DEF Spaced
  <2> QED BY <1>1, <1>2, <1>5, <2>1 DEF Order
<1>8. Keeping'
  BY <1>1, <1>2, <1>5 DEF Keeping, Kept, ToBeKept
<1>9. Rate'
  <2>1. SUFFICES ASSUME kind = "samples", ~IsTorn PROVE Recent(file, now, Slack')
    BY <1>1, <1>5 DEF Rate
  <2>2. Recent(file, now, Slack)
    BY <1>2, <2>1 DEF Rate
  <2>3. Slack' \in Int /\ Slack' >= Slack
    <3>1. Open' = 2
      BY <1>1 DEF Open
    <3>2. Slack = 1 + 2 * faults - Open /\ Slack' = 1 + 2 * (faults + 1) - 2
      BY <1>3, <3>1 DEF Slack
    <3>3. \A f, o \in Nat :
            1 + 2 * (f + 1) - 2 \in Int /\ 1 + 2 * (f + 1) - 2 >= 1 + 2 * f - o
      OBVIOUS
    <3>4. Open \in Nat
      BY <1>2
    <3> HIDE DEF Open, Slack
    <3> QED BY <1>2, <3>2, <3>3, <3>4
  <2> QED BY <1>2, <2>2, <2>3, RecentIs
<1>10. Sizes'
  <2>1. CASE kind = "samples"
    <3>1. Len(file) <= Retention + 2 + CompactEvery * (faults + 1) + 0
      <4>1. Len(file) \in Nat /\ Len(file) <= Len(file) + 1
        BY <1>2
      <4> QED BY <1>1, <2>1, <4>1, FileIsShort, FileGrows
    <3> QED BY <1>1, <1>3, <2>1, <3>1 DEF Sizes
  <2>2. CASE kind # "samples"
    BY <1>1, <1>2, <1>4, <2>2, Numbers DEF Sizes
  <2> QED BY <2>1, <2>2
<1> QED BY <1>6, <1>7, <1>8, <1>9, <1>10 DEF Inv

(* With the clock a sample falls due, for a time that is one more.         *)
LEMMA TickInv ==
  ASSUME Inv, Tick
  PROVE  Inv'
<1>1. /\ now < MaxTime /\ now' = now + 1 /\ kind' = kind /\ up' = up /\ memory' = memory
      /\ file' = file /\ written' = written /\ acked' = acked /\ faults' = faults
      /\ stamped' = stamped /\ writes' = writes /\ due' = TRUE
  BY DEF Tick
<1>2. /\ Types /\ Order /\ Keeping /\ Rate /\ Sizes
      /\ now \in Nat /\ faults \in Nat /\ Slack \in Int /\ Open \in {0, 1, 2}
      /\ file \in Seq(Row) /\ memory \in Seq(Row)
  BY State DEF Inv, Types
<1>3. /\ Past \subseteq Past'
      /\ \A r \in Past : /\ \A limit \in Nat : ToBeKept(r, limit)' => ToBeKept(r, limit)
                         /\ r.at >= now' - Retention => r.at >= now - Retention
  BY <1>1, <1>2, StepGoesOn
<1>4. IsTorn' <=> IsTorn
  BY <1>1, TornIs
<1>5. Types'
  <2>1. now' \in 0 .. MaxTime /\ stamped \subseteq 0 .. now'
    BY <1>1, <1>2, Numbers DEF Types
  <2> QED BY <1>1, <1>2, <1>3, <2>1 DEF Types
<1>6. Order' /\ Sizes'
  BY <1>1, <1>2, <1>3 DEF Order, Sizes
<1>7. Keeping'
  <2>1. SUFFICES ASSUME NEW r \in acked'
        PROVE  /\ kind = "events" /\ ToBeKept(r, Capacity)' => Kept(r)'
               /\ kind = "guard" /\ ToBeKept(r, DefaultLimit + 1)' => Kept(r)'
               /\ kind = "samples" /\ r.at >= now' - Retention =>
                    (r \in Lines(file) \/ IsTorn) /\ (up => r \in Lines(memory))
    BY <1>1, <1>4 DEF Keeping
  <2>2. r \in acked /\ r \in Past /\ (Kept(r)' <=> Kept(r))
    BY <1>1, <1>2, <2>1 DEF Types, Kept
  <2>3. Capacity \in Nat /\ DefaultLimit + 1 \in Nat
    BY Numbers
  <2> QED BY <1>2, <1>3, <2>2, <2>3 DEF Keeping
<1>8. Rate'
  <2>1. SUFFICES ASSUME kind = "samples"
                 PROVE  /\ up => Recent(memory, now + 1, Slack')
                        /\ ~IsTorn => Recent(file, now + 1, Slack')
    BY <1>1, <1>4 DEF Rate
  <2>2. Slack' \in Int /\ Slack' >= Slack - 1
    <3>1. Open' \in Nat /\ Open' <= Open + 1
      <4>1. CASE up
        <5>1. Open' = 1 + (IF writes = 0 THEN 1 ELSE 0)
          BY <1>1, <4>1 DEF Open
        <5>2. Open = (IF due THEN 1 ELSE 0) + (IF writes = 0 THEN 1 ELSE 0)
          BY <4>1 DEF Open
        <5> QED BY <5>1, <5>2
      <4>2. CASE ~up
        <5>1. Open = 2 /\ Open' = 2
          BY <1>1, <4>2 DEF Open
        <5> QED BY <5>1
      <4> QED BY <4>1, <4>2
    <3>2. Slack = 1 + 2 * faults - Open /\ Slack' = 1 + 2 * faults - Open'
      BY <1>1 DEF Slack
    <3>3. \A f, o, p \in Nat : p <= o + 1 =>
            1 + 2 * f - p \in Int /\ 1 + 2 * f - p >= 1 + 2 * f - o - 1
      OBVIOUS
    <3>4. Open \in Nat /\ faults \in Nat
      BY <1>2
    <3>5. /\ 1 + 2 * faults - Open' \in Int
          /\ 1 + 2 * faults - Open' >= 1 + 2 * faults - Open - 1
      BY <3>1, <3>3, <3>4
    <3>6. Slack \in Int
      BY <1>2
    <3> QED BY <3>2, <3>4, <3>5, <3>6
  <2>3. PICK b \in Int : b = Slack'
    BY <2>2
  <2>4. ASSUME NEW s \in Seq(Row), Recent(s, now, Slack) PROVE Recent(s, now + 1, b)
    <3>1. b >= Slack - 1
      BY <2>2, <2>3
    <3>2. ASSUME NEW i \in 1 .. Len(s)
          PROVE  s[i].at \in Nat /\ Len(s) - i <= now + 1 - s[i].at + b
      <4>1. Len(s) - i <= now - s[i].at + Slack
        BY <2>4 DEF Recent
      <4>2. Len(s) \in Nat /\ i \in Nat /\ s[i] \in Row
        BY <2>4
      <4>3. s[i].at \in Nat
        BY <4>2 DEF Row
      <4> QED BY <1>2, <3>1, <4>1, <4>2, <4>3
    <3>3. Len(s) \in Nat /\ now \in Nat
      BY <1>2, <2>4
    <3> QED BY <3>2, <3>3 DEF Recent
  <2>5. (up => Recent(memory, now, Slack)) /\ (~IsTorn => Recent(file, now, Slack))
    BY <1>2, <2>1 DEF Rate
  <2>6. (up => Recent(memory, now + 1, b)) /\ (~IsTorn => Recent(file, now + 1, b))
    BY <1>2, <2>4, <2>5
  <2> QED BY <2>3, <2>6
<1> QED BY <1>5, <1>6, <1>7, <1>8 DEF Inv

(* A store begins empty, with two samples open.                            *)
LEMMA InitInv == Init => Inv
<1> SUFFICES ASSUME Init PROVE Inv
  OBVIOUS
<1>1. /\ kind \in Kinds /\ now = 0 /\ up = TRUE /\ memory = <<>> /\ file = <<>>
      /\ written = 0 /\ acked = {} /\ faults = 0 /\ stamped = {} /\ writes = 0 /\ due = TRUE
  BY DEF Init
<1>2. /\ <<>> \in Seq(Row) /\ Len(<<>>) = 0 /\ Lines(<<>>) = {}
  BY DEF Lines
<1>3. Types
  BY <1>1, <1>2, Numbers DEF Types
<1>4. Order /\ Keeping
  BY <1>1, <1>2 DEF Order, Keeping, Spaced
<1>5. Rate
  <2>1. \A a : Recent(<<>>, now, a)
    BY <1>2 DEF Recent
  <2> QED BY <1>1, <2>1 DEF Rate
<1>6. Sizes
  <2>1. CompactEvery * 0 = 0 /\ 0 % CompactEvery = 0
    BY Numbers
  <2>2. Len(file) = 0 /\ Len(memory) = 0
    BY <1>1, <1>2
  <2>3. Len(file) <= Retention + 2 + CompactEvery * faults
                     + (IF up THEN writes % CompactEvery ELSE 0)
    BY <1>1, <2>1, <2>2, Numbers
  <2>4. Len(memory) <= Capacity /\ Len(file) <= Capacity /\ Len(file) <= DefaultLimit + 1
    BY <2>2, Numbers
  <2> QED BY <2>3, <2>4 DEF Sizes
<1> QED BY <1>3, <1>4, <1>5, <1>6 DEF Inv

(* Every step keeps the invariant.                                         *)
LEMMA NextInv == Inv /\ [Next]_vars => Inv'
<1> SUFFICES ASSUME Inv, [Next]_vars PROVE Inv'
  OBVIOUS
<1>1. CASE UNCHANGED vars
  <2>1. /\ now' = now /\ kind' = kind /\ up' = up /\ memory' = memory /\ file' = file
        /\ written' = written /\ acked' = acked /\ faults' = faults
        /\ stamped' = stamped /\ writes' = writes /\ due' = due
    BY <1>1 DEF vars
  <2>2. Types' /\ Order' /\ Rate' /\ Sizes'
    <3>1. Past' = Past /\ (IsTorn' <=> IsTorn)
      BY <2>1, TornIs DEF Past
    <3>2. Slack' = Slack
      BY <2>1 DEF Slack, Open
    <3> QED BY <2>1, <3>1, <3>2 DEF Inv, Types, Order, Rate, Sizes
  <2>3. Keeping'
    BY <2>1, TornIs DEF Inv, Keeping, Kept, ToBeKept
  <2> QED BY <2>2, <2>3 DEF Inv
<1>2. CASE /\ kind = "events"
           /\ Stamp \/ (\E t \in stamped : AddEvent(t)) \/ ListEvents \/ LoadEvents
           /\ UNCHANGED <<writes, due>>
  BY <1>2, StampInv, AddEventInv, ListEventsInv, LoadEventsInv
<1>3. CASE /\ kind = "guard"
           /\ AddGuardEvent \/ StartGuard
           /\ UNCHANGED <<stamped, writes, due>>
  BY <1>3, AddGuardEventInv, StartGuardInv
<1>4. CASE /\ kind = "samples"
           /\ AppendSample \/ AppendFails \/ AppendCut \/ LoadSamples
           /\ UNCHANGED stamped
  BY <1>4, AppendSampleInv, AppendFailsInv, AppendCutInv, LoadSamplesInv
<1>5. CASE Crash
  BY <1>5, CrashInv
<1>6. CASE Tick
  BY <1>6, TickInv
<1> QED BY <1>1, <1>2, <1>3, <1>4, <1>5, <1>6 DEF Next

-----------------------------------------------------------------------------

(* The records in memory, in the file and behind a successful write are    *)
(* records that were taken, no later than now; a line of the file that is  *)
(* none is torn or glued; no process has counted more writes than records  *)
(* were taken.                                                             *)
THEOREM TypeCorrect == Spec => []TypeOK
<1>1. Inv => TypeOK
  <2> SUFFICES ASSUME Inv PROVE TypeOK
    OBVIOUS
  <2>1. Types /\ written \in Nat /\ writes \in Nat
    BY State DEF Inv
  <2>2. writes \in 0 .. MaxRecords
    BY <2>1, Numbers DEF Types
  <2> QED BY <2>1, <2>2 DEF Types, TypeOK, Past
<1> QED BY <1>1, InitInv, NextInv, PTL DEF Spec

(* What a successful write had to store is in the file and in the running  *)
(* process until it expires or enough younger records displace it, however *)
(* often a write fails, a process dies and another starts (EventStore.Add, *)
(* guardevents.Store.Add, Collector.sample): of the manager's events the   *)
(* youngest up to the capacity, of the guard's those within the limit of   *)
(* its own Read, and every sample unless a line of the file is torn.       *)
THEOREM RecordsAreRetained == Spec => []Retained
<1>1. Inv => Retained
  <2> SUFFICES ASSUME Inv, NEW r \in acked
               PROVE  /\ kind = "events"  /\ ToBeKept(r, Capacity) => Kept(r)
                      /\ kind = "guard"   /\ ToBeKept(r, DefaultLimit + 1) => Kept(r)
                      /\ kind = "samples" /\ ToBeKept(r, MaxRecords) => Kept(r) \/ IsTorn
    BY DEF Retained
  <2> QED BY DEF Inv, Keeping, Kept, ToBeKept
<1> QED BY <1>1, InitInv, NextInv, PTL DEF Spec

(* The events' files never hold more than their limits, and that of the    *)
(* samples no more than what is unexpired at once and what every process,  *)
(* and every failed compaction, has left uncompacted (Collector.sample,    *)
(* Collector.compact).                                                     *)
THEOREM FilesAreBounded == Spec => []FileBounded
<1>1. Inv => FileBounded
  <2> SUFFICES ASSUME Inv PROVE FileBounded
    OBVIOUS
  <2>1. /\ Types /\ Sizes /\ kind \in {"events", "guard", "samples"}
        /\ faults \in Nat /\ writes \in Nat /\ Len(file) \in Nat
    BY State, KindsAssumption DEF Inv, Types
  <2>2. CASE kind = "samples"
    <3>1. PICK x \in Nat :
            /\ x <= CompactEvery - 1
            /\ Len(file) <= Retention + 2 + CompactEvery * faults + x
      <4>1. CASE up
        BY <2>2, <4>1, FileIsShort
      <4>2. CASE ~up
        <5>1. Len(file) <= Retention + 2 + CompactEvery * faults + 0
          BY <2>1, <2>2, <4>2 DEF Sizes
        <5>2. 0 <= CompactEvery - 1 /\ 0 \in Nat
          BY Numbers
        <5> QED BY <5>1, <5>2
      <4> QED BY <4>1, <4>2
    <3>2. Len(file) <= Retention + 1 + CompactEvery * (faults + 1)
      <4>1. Len(file) <= Len(file) + 1
        BY <2>1
      <4> QED BY <2>1, <3>1, <4>1, FileGrows
    <3> QED BY <2>2, <3>2 DEF FileBounded
  <2>3. CASE kind = "events"
    BY <2>1, <2>3 DEF Sizes, FileBounded
  <2>4. CASE kind = "guard"
    BY <2>1, <2>4 DEF Sizes, FileBounded
  <2> QED BY <2>1, <2>2, <2>3, <2>4
<1> QED BY <1>1, InitInv, NextInv, PTL DEF Spec
=============================================================================
