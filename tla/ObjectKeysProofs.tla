-------------------------- MODULE ObjectKeysProofs --------------------------
(***************************************************************************)
(* For any prefixes and artifacts: the keys of different bundles are       *)
(* different, and so are the three keys of one bundle.  The first is what  *)
(* lets a run of the service take its prefix for its own, the second what  *)
(* lets a bundle be described as three objects.                            *)
(***************************************************************************)
EXTENDS ObjectKeys, SequenceTheorems, TLAPS

Files    == {"source", "records", "_SUCCESS"} \X (Names \cup {"manifest.jsonl", "json"})
Segments == Names \cup Int \cup Files

\* The day of an instant is an integer.
LEMMA DayIsInt ==
  ASSUME NEW t \in Instants
  PROVE  UtcDay(t) \in Int
BY DEF UtcDay, Instants, DayLength

\* The end of a bundle prefix has a fixed length, so it says where the prefix ends.
LEMMA PrefixEnds ==
  ASSUME NEW p \in Seq(Names), NEW a \in Artifacts
  PROVE  /\ BundlePrefix(p, a) \in Seq(Segments)
         /\ Len(BundlePrefix(p, a)) = Len(p) + 3
         /\ \A i \in 1..Len(p) : BundlePrefix(p, a)[i] = p[i]
         /\ BundlePrefix(p, a)[Len(p) + 1] = a.source
         /\ BundlePrefix(p, a)[Len(p) + 2] = UtcDay(a.retrieved_at)
         /\ BundlePrefix(p, a)[Len(p) + 3] = a.ingestion_run_id
<1> DEFINE end == <<a.source, UtcDay(a.retrieved_at), a.ingestion_run_id>>
<1>1. UtcDay(a.retrieved_at) \in Int BY DayIsInt DEF Artifacts
<1>2. a.source \in Names /\ a.ingestion_run_id \in Names BY DEF Artifacts
<1>3. end \in Seq(Segments) /\ Len(end) = 3
      /\ end[1] = a.source /\ end[2] = UtcDay(a.retrieved_at)
      /\ end[3] = a.ingestion_run_id
  BY <1>1, <1>2 DEF Segments
<1>4. p \in Seq(Segments) BY SeqMonotonic DEF Segments
<1>5. Len(p) \in Nat BY LenProperties
<1> HIDE DEF end
<1>6. /\ p \o end \in Seq(Segments)
      /\ Len(p \o end) = Len(p) + Len(end)
      /\ \A i \in 1..Len(p) + Len(end) :
           (p \o end)[i] = IF i <= Len(p) THEN p[i] ELSE end[i - Len(p)]
  BY <1>3, <1>4, ConcatProperties, Zenon
<1>7. BundlePrefix(p, a) = p \o end BY DEF BundlePrefix, end
<1> HIDE DEF BundlePrefix
<1> QED BY <1>3, <1>5, <1>6, <1>7

\* A bundle prefix names one normalized prefix, source, UTC day and run.
LEMMA PrefixDetermines ==
  ASSUME NEW p \in Seq(Names), NEW q \in Seq(Names),
         NEW a \in Artifacts, NEW b \in Artifacts,
         BundlePrefix(p, a) = BundlePrefix(q, b)
  PROVE  /\ p = q
         /\ a.source = b.source
         /\ UtcDay(a.retrieved_at) = UtcDay(b.retrieved_at)
         /\ a.ingestion_run_id = b.ingestion_run_id
<1>1. Len(p) \in Nat /\ Len(q) \in Nat BY LenProperties
<1>2. Len(p) = Len(q) BY <1>1, PrefixEnds
<1>3. \A i \in 1..Len(p) : p[i] = q[i] BY <1>2, PrefixEnds
<1>4. p = q BY <1>2, <1>3, SeqEqual
<1> QED BY <1>4, PrefixEnds

\* A key is its bundle prefix and a file name.
LEMMA KeyDetermines ==
  ASSUME NEW p \in Seq(Names), NEW q \in Seq(Names),
         NEW a \in Artifacts, NEW b \in Artifacts, NEW f \in Files, NEW g \in Files,
         ObjectKey(p, a, f) = ObjectKey(q, b, g)
  PROVE  BundlePrefix(p, a) = BundlePrefix(q, b) /\ f = g
<1> DEFINE s == BundlePrefix(p, a)
           t == BundlePrefix(q, b)
<1>1. s \in Seq(Segments) /\ t \in Seq(Segments) BY PrefixEnds
<1>2. f \in Segments /\ g \in Segments BY DEF Segments
<1>3. Append(s, f) = Append(t, g) BY DEF ObjectKey
<1> HIDE DEF s, t
<1>4. s = t /\ f = g BY <1>1, <1>2, <1>3, AppendInjective
<1> QED BY <1>4 DEF s, t

\* Each of the three keys is the prefix's, with one of the three file names.
LEMMA KeysOf ==
  ASSUME NEW p, NEW a \in Artifacts,
         NEW part \in {"artifact", "evidence_manifest", "completion_manifest"}
  PROVE  \E f \in Files : BronzeObjectKeys(p, a)[part] = ObjectKey(p, a, f)
<1>1. a.extension \in Names BY DEF Artifacts
<1>2. /\ <<"source", a.extension>> \in Files
      /\ <<"records", "manifest.jsonl">> \in Files
      /\ <<"_SUCCESS", "json">> \in Files
  BY <1>1 DEF Files
<1> QED BY <1>2 DEF BronzeObjectKeys

\* Two artifacts that differ in source, UTC day or run, or are kept under different
\* prefixes, share no key: what one run writes is never in another's way, however
\* the prefixes nest and whatever the sources and runs are called.
THEOREM BundlesApart ==
  ASSUME NEW p \in Seq(Names), NEW q \in Seq(Names),
         NEW a \in Artifacts, NEW b \in Artifacts,
         \/ p # q
         \/ a.source # b.source
         \/ UtcDay(a.retrieved_at) # UtcDay(b.retrieved_at)
         \/ a.ingestion_run_id # b.ingestion_run_id,
         NEW k \in {"artifact", "evidence_manifest", "completion_manifest"},
         NEW l \in {"artifact", "evidence_manifest", "completion_manifest"}
  PROVE  BronzeObjectKeys(p, a)[k] # BronzeObjectKeys(q, b)[l]
<1> SUFFICES ASSUME BronzeObjectKeys(p, a)[k] = BronzeObjectKeys(q, b)[l]
             PROVE  FALSE
  OBVIOUS
<1>1. PICK f \in Files : BronzeObjectKeys(p, a)[k] = ObjectKey(p, a, f) BY KeysOf
<1>2. PICK g \in Files : BronzeObjectKeys(q, b)[l] = ObjectKey(q, b, g) BY KeysOf
<1>3. ObjectKey(p, a, f) = ObjectKey(q, b, g) BY <1>1, <1>2
<1>4. BundlePrefix(p, a) = BundlePrefix(q, b) BY <1>3, KeyDetermines
<1> QED BY <1>4, PrefixDetermines

\* The three keys of a bundle are three: no extension makes the artifact collide
\* with the sidecar or with the completion marker.
THEOREM PartsApart ==
  ASSUME NEW p \in Seq(Names), NEW a \in Artifacts
  PROVE  LET keys == BronzeObjectKeys(p, a)
         IN  /\ keys.artifact # keys.evidence_manifest
             /\ keys.artifact # keys.completion_manifest
             /\ keys.evidence_manifest # keys.completion_manifest
<1> DEFINE f1 == <<"source", a.extension>>
           f2 == <<"records", "manifest.jsonl">>
           f3 == <<"_SUCCESS", "json">>
<1>1. a.extension \in Names BY DEF Artifacts
<1>2. f1 \in Files /\ f2 \in Files /\ f3 \in Files BY <1>1 DEF Files
<1>3. f1 # f2 /\ f1 # f3 /\ f2 # f3 OBVIOUS
<1> HIDE DEF f1, f2, f3
<1>4. /\ ObjectKey(p, a, f1) # ObjectKey(p, a, f2)
      /\ ObjectKey(p, a, f1) # ObjectKey(p, a, f3)
      /\ ObjectKey(p, a, f2) # ObjectKey(p, a, f3)
  BY <1>2, <1>3, KeyDetermines
<1> QED BY <1>4 DEF BronzeObjectKeys, f1, f2, f3
=============================================================================
