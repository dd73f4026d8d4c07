---------------------------- MODULE OutcomeCounts ----------------------------
(***************************************************************************)
(* Counting the items of a sequence that have an outcome, as the store,    *)
(* the service and the ledger do.                                          *)
(***************************************************************************)
EXTENDS Integers, FiniteSetTheorems, SequenceTheorems, TLAPS

Counted(s, o) == Cardinality({i \in DOMAIN s : s[i].outcome = o})

\* There are none in an empty sequence.
LEMMA CountedEmpty == \A o : Counted(<<>>, o) = 0
<1> SUFFICES ASSUME NEW o PROVE Counted(<<>>, o) = 0 OBVIOUS
<1>1. {i \in DOMAIN <<>> : <<>>[i].outcome = o} = {} OBVIOUS
<1> QED BY <1>1, FS_EmptySet DEF Counted

\* There are no more than there are items.
LEMMA CountedBounded ==
  ASSUME NEW S, NEW s \in Seq(S), NEW o
  PROVE  /\ Counted(s, o) \in Nat
         /\ Counted(s, o) <= Len(s)
<1>. DEFINE Hits == {i \in DOMAIN s : s[i].outcome = o}
<1>1. Len(s) \in Nat /\ DOMAIN s = 1..Len(s) BY LenProperties
<1>2. IsFiniteSet(1..Len(s)) /\ Cardinality(1..Len(s)) = Len(s)
  <2>1. IsFiniteSet(1..Len(s)) /\ Cardinality(1..Len(s)) = IF 1 > Len(s) THEN 0 ELSE Len(s) - 1 + 1
    BY <1>1, FS_Interval
  <2> QED BY <1>1, <2>1
<1>3. Hits \in SUBSET (1..Len(s)) BY <1>1
<1>4. IsFiniteSet(Hits) /\ Cardinality(Hits) <= Cardinality(1..Len(s))
  BY <1>2, <1>3, FS_Subset
<1>5. Cardinality(Hits) \in Nat BY <1>4, FS_CardinalityType
<1> QED BY <1>2, <1>4, <1>5 DEF Counted

\* Each item adds one to its own outcome and nothing to the others.
LEMMA CountedAppend ==
  ASSUME NEW S, NEW s \in Seq(S), NEW line \in S, NEW o
  PROVE  Counted(Append(s, line), o) =
           IF line.outcome = o THEN Counted(s, o) + 1 ELSE Counted(s, o)
<1>. DEFINE Hits == {i \in DOMAIN s : s[i].outcome = o}
            t == Append(s, line)
            More == {i \in DOMAIN t : t[i].outcome = o}
<1>1. Len(s) \in Nat /\ DOMAIN s = 1..Len(s) BY LenProperties
<1>2. DOMAIN t = 1..(Len(s) + 1) /\ t[Len(s) + 1] = line
      /\ \A i \in 1..Len(s) : t[i] = s[i]
  BY <1>1
<1>3. IsFiniteSet(Hits)
  <2>1. IsFiniteSet(1..Len(s)) BY <1>1, FS_Interval
  <2>2. Hits \in SUBSET (1..Len(s)) BY <1>1
  <2> QED BY <2>1, <2>2, FS_Subset
<1>4. Len(s) + 1 \notin Hits BY <1>1
<1>. HIDE DEF t
<1>5. CASE line.outcome = o
  <2>1. More = Hits \cup {Len(s) + 1} BY <1>1, <1>2, <1>5
  <2> QED BY <1>3, <1>4, <1>5, <2>1, FS_AddElement DEF Counted, t
<1>6. CASE line.outcome # o
  <2>1. More = Hits BY <1>1, <1>2, <1>6
  <2> QED BY <1>6, <2>1 DEF Counted, t
<1> QED BY <1>5, <1>6
=============================================================================
