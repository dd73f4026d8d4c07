-------------------------- MODULE MetIngestionProofs --------------------------
(***************************************************************************)
(* For any files, batches and ceilings: the evidence a run spools is the   *)
(* reference evidence of the rows so far, whatever batches they come in; a *)
(* bundle it commits covers its file; and the run as a whole implements    *)
(* BronzeLedger.                                                           *)
(*                                                                         *)
(* The argument is ReaderInStep, which ties what the reader remembers to   *)
(* the rows handed over and not to their batches, and ReadToTheEnd: after  *)
(* the evidence nothing is uploaded but what covers the file.              *)
(***************************************************************************)
EXTENDS MetIngestion, OutcomeCounts

-----------------------------------------------------------------------------
(* Rows and evidence.                                                      *)

\* A cell holds an Object ID, or NoId, which is no number.
LEMMA IdFacts ==
  ASSUME NEW row \in Rows
  PROVE  /\ IsId(row.object_id) => /\ ObjectId(row.object_id) = row.object_id.value
                                   /\ row.object_id.value \in Nat \ {0}
         /\ ~ IsId(row.object_id) => ObjectId(row.object_id) = NoId
         /\ NoId \notin Nat
<1>1. row.object_id.value \in Int BY DEF Rows, IdCells
<1> QED BY <1>1, ContractAssumption DEF IsId, ObjectId

\* What a row is judged to be.
LEMMA JudgementType ==
  /\ Duplicate \in [outcome : Outcomes, messages : SUBSET Messages]
  /\ \A row \in Rows : Validate(row) \in [outcome : Outcomes, messages : SUBSET Messages]
<1>1. \A field \in RecommendedValueFields \cup {"Object ID", "Is Public Domain"} :
        /\ Message("missing_recommended_value", field) \in Messages
        /\ Message("duplicate_object_id", field) \in Messages
        /\ Message("invalid_object_id", field) \in Messages
        /\ Message("invalid_public_domain_value", field) \in Messages
        /\ Message("invalid_metadata_date", field) \in Messages
  BY DEF Message, Messages
<1>2. "Metadata Date" \in RecommendedValueFields BY DEF RecommendedValueFields
<1>3. ASSUME NEW row \in Rows PROVE Warnings(row) \in SUBSET Messages
  <2>1. row.blank \subseteq RecommendedValueFields BY DEF Rows
  <2> QED BY <1>1, <1>2, <2>1 DEF Warnings
<1>4. Duplicate \in [outcome : Outcomes, messages : SUBSET Messages]
  BY <1>1 DEF Duplicate, Judgement, Outcomes
<1>5. ASSUME NEW row \in Rows
      PROVE  Validate(row) \in [outcome : Outcomes, messages : SUBSET Messages]
  BY <1>1, <1>3 DEF Validate, Judgement, Outcomes
<1> QED BY <1>4, <1>5

\* The item the reader hands on is the evidence of the next row of the file.
LEMMA EvidenceIsNext ==
  ASSUME ReaderInStep, position \in Nat, batch # <<>>
  PROVE  /\ Handed + 1 \in 1..position
         /\ Evidence = EvidenceOf(file.rows, Handed + 1)
         /\ Evidence \in EvidenceLines
<1>. DEFINE row == Head(batch)
            i == Handed + 1
            id == ObjectId(row.object_id)
<1>1. /\ Len(batch) \in Nat \ {0} /\ row = batch[1] /\ 1 \in DOMAIN batch
      /\ Len(batch) <= position
  BY DEF ReaderInStep
<1>2. i \in 1..position /\ Handed \in Nat BY <1>1 DEF Handed
<1>3. row = file.rows[i] /\ row \in Rows BY <1>1, <1>2 DEF ReaderInStep
<1>4. position - Len(batch) + 1 = i BY DEF Handed
<1>5. \A j \in 1..Handed : file.rows[j] \in Rows BY <1>1, <1>2 DEF ReaderInStep, Handed
<1>6. 1..(i - 1) = 1..Handed BY <1>2
<1>. HIDE DEF row, i
<1>7. CASE ~ IsId(row.object_id)
  <2>1. id = NoId /\ id \notin seen
    <3>1. \A j \in 1..Handed : IsId(file.rows[j].object_id) => file.rows[j].object_id.value \in Nat
      BY <1>5, IdFacts
    <3> QED BY <1>3, <1>7, <3>1, IdFacts DEF ReaderInStep
  <2>2. Evidence = Line(i, NoId, Validate(row)) BY <1>4, <2>1 DEF Evidence, row
  <2>3. Evidence = EvidenceOf(file.rows, i) BY <1>3, <1>7, <2>2 DEF EvidenceOf
  <2>4. Evidence \in EvidenceLines
    BY <1>2, <1>3, <2>2, JudgementType DEF Line, RecordId, EvidenceLines, i
  <2> QED BY <1>2, <2>3, <2>4 DEF i
<1>8. CASE IsId(row.object_id)
  <2>. DEFINE repeated == \E j \in 1..(i - 1) : /\ IsId(file.rows[j].object_id)
                                               /\ file.rows[j].object_id.value = row.object_id.value
  <2>1. id = row.object_id.value /\ id \in Nat /\ id # NoId BY <1>3, <1>8, IdFacts
  <2>2. id \in seen <=> repeated BY <1>6, <2>1 DEF ReaderInStep
  <2>3. Evidence = Line(i, id, IF id \in seen THEN Duplicate ELSE Validate(row))
    BY <1>4 DEF Evidence, row
  <2>4. EvidenceOf(file.rows, i) = Line(i, row.object_id.value,
                                        IF repeated THEN Duplicate ELSE Validate(row))
    BY <1>3, <1>8 DEF EvidenceOf
  <2>5. Evidence \in EvidenceLines
    BY <1>2, <1>3, <2>1, <2>3, JudgementType DEF Line, RecordId, EvidenceLines, i
  <2> QED BY <1>2, <2>1, <2>2, <2>3, <2>4, <2>5 DEF i
<1> QED BY <1>7, <1>8

\* Two rows that are both judged name different records: by their Object IDs, since
\* the later of two equal ones is rejected, or by their numbers.
LEMMA JudgedRecordsDiffer ==
  ASSUME NEW rows, NEW i \in Nat \ {0}, NEW j \in Nat \ {0}, j < i,
         rows[i] \in Rows, rows[j] \in Rows,
         EvidenceOf(rows, i).outcome # "rejected"
  PROVE  EvidenceOf(rows, i).record # EvidenceOf(rows, j).record
<1>1. CASE IsId(rows[i].object_id) /\ IsId(rows[j].object_id)
  <2>1. rows[j].object_id.value # rows[i].object_id.value
    <3>. SUFFICES ASSUME rows[j].object_id.value = rows[i].object_id.value PROVE FALSE
      OBVIOUS
    <3>1. j \in 1..(i - 1) OBVIOUS
    <3> QED BY <1>1, <3>1 DEF EvidenceOf, Line, Duplicate, Judgement
  <2> QED BY <1>1, <2>1, IdFacts DEF EvidenceOf, Line, RecordId
<1>2. CASE ~ IsId(rows[i].object_id) /\ ~ IsId(rows[j].object_id)
  BY <1>2 DEF EvidenceOf, Line, RecordId
<1>3. CASE IsId(rows[i].object_id) /\ ~ IsId(rows[j].object_id)
  <2>1. rows[i].object_id.value # NoId BY <1>3, IdFacts
  <2> QED BY <1>3, <2>1 DEF EvidenceOf, Line, RecordId
<1>4. CASE ~ IsId(rows[i].object_id) /\ IsId(rows[j].object_id)
  <2>1. rows[j].object_id.value # NoId BY <1>4, IdFacts
  <2> QED BY <1>4, <2>1 DEF EvidenceOf, Line, RecordId
<1> QED BY <1>1, <1>2, <1>3, <1>4

\* A tally counts each line once.
LEMMA TallyCounts ==
  ASSUME NEW tally \in Counts, NEW line, line.outcome \in Outcomes
  PROVE  /\ Count(tally, line) \in Counts
         /\ Total(Count(tally, line)) = Total(tally) + 1
         /\ \A o \in Outcomes : Count(tally, line)[o] =
                                  IF line.outcome = o THEN tally[o] + 1 ELSE tally[o]
<1>1. Count(tally, line) \in Counts BY DEF Count, Counts
<1>2. \A o \in Outcomes : tally[o] \in Nat BY DEF Counts
<1>3. \A o \in Outcomes : Count(tally, line)[o] =
                            IF line.outcome = o THEN tally[o] + 1 ELSE tally[o]
  BY DEF Count, Counts
<1>4. Total(Count(tally, line)) = Total(tally) + 1
  BY <1>2, <1>3 DEF Total, Outcomes
<1> QED BY <1>1, <1>3, <1>4

\* The lemmas about counts apply.
LEMMA CountOfIsCounted == \A s, o : CountOf(s, o) = Counted(s, o)
BY DEF CountOf, Counted

-----------------------------------------------------------------------------
(* Objects and outcomes.                                                   *)

\* The three bodies.
LEMMA BodyFacts ==
  Body("artifact") = file /\ Body("sidecar") = lines /\ Body("marker") = Manifest
BY DEF Body

\* What is uploaded is something.
LEMMA BodyIsSomething ==
  ASSUME IInv, file \in Files, NEW part \in Parts
  PROVE  Body(part) # NoObject
<1>1. Manifest \in Manifests
  BY DEF IInv, TypeOK, SpoolInStep, Manifest, Manifests, HeaderNotes, Counts
<1> QED BY <1>1, BodyFacts, IngestionAssumption, NothingAssumption
    DEF IInv, SpoolInStep, Parts

\* Where the evidence has begun to be read, and where the marker is not yet begun.
LEMMA UnsentFacts ==
  ASSUME IInv
  PROVE  /\ pc \in Early \cup {"read", "sidecar", "marker"} => "marker" \notin sent
         /\ pc \in Early \cup {"read", "sidecar"} => "sidecar" \notin sent
         /\ \A part \in Parts : part \notin sent => bundle[part] = NoObject
BY DEF IInv, SentInOrder, ObjectsAreBodies, Early

\* A step that leaves the bundle, and what has been begun of it, keeps the objects.
LEMMA ObjectsStay ==
  ASSUME IInv, UNCHANGED bundle, sent \subseteq sent',
         "artifact" \in sent => file' = file,
         "sidecar" \in sent \/ "marker" \in sent => UNCHANGED <<file, lines, counts>>
  PROVE  ObjectsAreBodies'
<1>. SUFFICES ASSUME NEW part \in Parts, bundle[part] # NoObject
              PROVE  part \in sent' /\ bundle[part] = Body(part)'
  BY DEF ObjectsAreBodies
<1>1. part \in sent /\ bundle[part] = Body(part) BY DEF IInv, ObjectsAreBodies
<1>2. CASE part = "artifact" BY <1>1, <1>2 DEF Body
<1>3. CASE part \in {"sidecar", "marker"} BY <1>1, <1>3 DEF Body, Manifest
<1> QED BY <1>1, <1>2, <1>3 DEF Parts

\* As long as nothing is returned or raised, nothing is said.
LEMMA SilenceKeeps ==
  ASSUME IInv, pc \in Underway \ {"result"}, pc' \in Underway \ {"result"},
         UNCHANGED <<stored, error, result>>,
         "marker" \in sent' => bundle'["marker"] # NoObject
  PROVE  OutcomesInStep' /\ ResultIsTheManifests' /\ TypedFailureUncommitted'
<1>1. error' = "none" /\ result' = NoObject /\ stored' = "none"
  BY DEF IInv, OutcomesInStep
<1>2. pc' # "cleanup" BY DEF Underway
<1> QED BY <1>1, <1>2 DEF OutcomesInStep, ResultIsTheManifests, TypedFailureUncommitted, StoreErrors

\* A failure before the marker is begun is true of whatever it leaves, as is one of
\* the store while it begins any upload.
LEMMA FailKeeps ==
  ASSUME IInv, pc \in Early \cup {"read", "sidecar", "marker"}, NEW kind \in Errors,
         Fail(kind), UNCHANGED <<file, bundle, lines, counts, position>>,
         \/ sent' = sent
         \/ /\ pc \in Parts /\ sent' = sent \cup {pc}
            /\ pc = "marker" => kind = "store",
         ReaderInStep', Len(batch') <= BatchSize, Handed <= Handed',
         served' \in Counts, raised' \in BOOLEAN
  PROVE  IInv'
<1>1. sent' \subseteq Parts /\ sent \subseteq sent' BY DEF IInv, TypeOK
<1>2. /\ position \in Nat /\ batch' \in Seq(Rows) /\ Len(batch') \in Nat
      /\ \A i \in DOMAIN batch' : batch'[i] \in Rows
  BY DEF IInv, TypeOK, ReaderInStep
<1>3. seen' \subseteq Nat \ {0}
  <2>1. \A j \in 1..Handed' : file'.rows[j] \in Rows
    BY <1>2 DEF ReaderInStep, Handed
  <2> QED BY <2>1, IdFacts DEF ReaderInStep
<1>4. TypeOK'
  BY <1>1, <1>2, <1>3 DEF IInv, TypeOK, Fail, PCs, StoreErrors, Counts
<1>5. SpoolInStep'
  <2>1. Len(lines) \in Nat /\ Handed \in Int /\ Handed' \in Int
    BY <1>2 DEF IInv, SpoolInStep, ReaderInStep, Handed
  <2> QED BY <2>1 DEF IInv, SpoolInStep, Fail, Underway, Total
<1>6. EvidenceIsTheFiles' BY DEF IInv, EvidenceIsTheFiles
<1>7. FileInspected'
  BY DEF IInv, FileInspected, Fail, Underway, Late, Parts, SentInOrder, Early
<1>8. SentInOrder'
  BY <1>1 DEF IInv, SentInOrder, Fail, Early, Parts
<1>9. ReadToTheEnd'
  BY DEF IInv, ReadToTheEnd, Fail, Early, Late, Parts
<1>10. ObjectsAreBodies' BY <1>1, ObjectsStay
<1>11. OutcomesInStep'
  <2>1. "marker" \in sent' => kind = "store" BY UnsentFacts
  <2>2. kind # "none" /\ (kind = "store" => stored' = "store")
    BY DEF Fail, Errors, StoreErrors
  <2> QED BY <2>1, <2>2, UnsentFacts DEF IInv, OutcomesInStep, Fail, Underway, Early, StoreErrors, PCs
<1>12. ResultIsTheManifests'
  BY DEF IInv, OutcomesInStep, ResultIsTheManifests, Fail, Underway, Early, PCs, Parts
<1>13. TypedFailureUncommitted'
  <2>1. bundle'["marker"] = NoObject /\ ("marker" \in sent' => kind = "store")
    BY UnsentFacts DEF Parts
  <2>2. error' = kind BY DEF Fail
  <2> QED BY <2>1, <2>2 DEF TypedFailureUncommitted
<1> QED BY <1>4, <1>5, <1>6, <1>7, <1>8, <1>9, <1>10, <1>11, <1>12, <1>13 DEF IInv

\* In particular a failure that leaves the reader alone.
LEMMA RaiseKeeps ==
  ASSUME IInv, pc \in Early \cup {"read", "sidecar", "marker"}, NEW kind \in Errors,
         Fail(kind), UNCHANGED <<file, reader, spool, bundle>>,
         \/ sent' = sent
         \/ /\ pc \in Parts /\ sent' = sent \cup {pc}
            /\ pc = "marker" => kind = "store"
  PROVE  IInv'
<1>1. UNCHANGED <<lines, counts, position, batch, seen, raised, served>> BY DEF reader, spool
<1>2. ReaderInStep' /\ Handed' = Handed BY <1>1 DEF IInv, ReaderInStep, Handed
<1>3. Handed \in Int BY DEF IInv, TypeOK, ReaderInStep, Handed
<1> QED BY <1>1, <1>2, <1>3, FailKeeps DEF IInv, TypeOK, Counts

-----------------------------------------------------------------------------
(* The service and the store.                                              *)

\* Acquisition keeps the invariant: a file comes before everything else.
LEMMA AcquireKeeps == ASSUME IInv, Acquire PROVE IInv'
<1>1. CASE Download
  <2>1. /\ pc = "download" /\ pc' = "preflight" /\ file' \in Files
        /\ UNCHANGED <<position, batch, seen, raised, served, lines, counts, bundle, sent,
                       stored, error, result>>
        /\ position = 0 /\ sent = {}
    BY <1>1 DEF Download, GoTo, reader, spool, IInv, SentInOrder, Early
  <2>2. \A part \in Parts : bundle[part] = NoObject BY <2>1, UnsentFacts
  <2>3. batch = <<>> /\ Handed = 0 /\ Len(lines) = 0 /\ Len(batch) = 0
    BY <2>1 DEF IInv, ReaderInStep, SpoolInStep, Handed
  <2>4. TypeOK'
    <3>1. Len(file'.rows) \in Nat BY <2>1, IngestionAssumption
    <3> QED BY <2>1, <3>1, IngestionAssumption DEF IInv, TypeOK, PCs
  <2>5. ReaderInStep' BY <2>1, <2>3 DEF IInv, ReaderInStep, Handed
  <2>6. SpoolInStep' BY <2>1 DEF IInv, SpoolInStep, Handed, Underway, PCs, Total
  <2>7. EvidenceIsTheFiles' BY <2>1, <2>3 DEF IInv, SpoolInStep, EvidenceIsTheFiles
  <2>8. FileInspected' BY <2>1 DEF FileInspected, Late
  <2>9. SentInOrder' /\ ReadToTheEnd' BY <2>1 DEF SentInOrder, ReadToTheEnd, Early, Late
  <2>10. ObjectsAreBodies' BY <2>1, ObjectsStay
  <2>11. OutcomesInStep' /\ ResultIsTheManifests' /\ TypedFailureUncommitted'
    BY <2>1, SilenceKeeps DEF Underway, PCs
  <2> QED BY <2>4, <2>5, <2>6, <2>7, <2>8, <2>9, <2>10, <2>11 DEF IInv
<1>2. CASE DownloadFails
  BY <1>2, RaiseKeeps DEF DownloadFails, Raise, Early, Errors
<1>3. CASE Inspect /\ HeaderRefused(file.header)
  BY <1>3, RaiseKeeps DEF Inspect, Raise, Early, Errors
<1>4. CASE Inspect /\ ~ HeaderRefused(file.header)
  <2>1. /\ pc = "preflight" /\ pc' = "snapshot" /\ file \in Files
        /\ UNCHANGED <<file, position, batch, seen, raised, served, lines, counts, bundle,
                       sent, stored, error, result>>
    BY <1>4 DEF Inspect, GoTo, reader, spool, IInv, FileInspected, Underway, PCs
  <2>2. TypeOK' BY <2>1 DEF IInv, TypeOK, PCs
  <2>3. ReaderInStep' BY <2>1 DEF IInv, ReaderInStep, Handed
  <2>4. SpoolInStep' BY <2>1 DEF IInv, SpoolInStep, Handed, Underway, PCs, Total
  <2>5. EvidenceIsTheFiles' BY <2>1 DEF IInv, EvidenceIsTheFiles
  <2>6. FileInspected' BY <1>4, <2>1 DEF FileInspected
  <2>7. SentInOrder' /\ ReadToTheEnd'
    BY <2>1 DEF IInv, SentInOrder, ReadToTheEnd, Early, Late
  <2>8. ObjectsAreBodies' BY <2>1, ObjectsStay
  <2>9. "marker" \notin sent BY <2>1, UnsentFacts DEF Early
  <2>10. OutcomesInStep' /\ ResultIsTheManifests' /\ TypedFailureUncommitted'
    BY <2>1, <2>9, SilenceKeeps DEF Underway, PCs
  <2> QED BY <2>2, <2>3, <2>4, <2>5, <2>6, <2>7, <2>8, <2>10 DEF IInv
<1>5. CASE InspectFails \/ DescriptionRefused
  BY <1>5, RaiseKeeps DEF InspectFails, DescriptionRefused, Raise, Early, Errors
<1> QED BY <1>1, <1>2, <1>3, <1>4, <1>5 DEF Acquire

\* An upload that succeeds is of the part whose turn it is.
LEMMA PutKeeps == ASSUME IInv, NEW part \in Parts, Put(part) PROVE IInv'
<1>1. /\ pc = part /\ pc' = After(part) /\ sent' = sent \cup {part}
      /\ bundle' = [bundle EXCEPT ![part] = Body(part)]
      /\ UNCHANGED <<file, position, batch, seen, raised, served, lines, counts, stored,
                     error, result>>
  BY DEF Put, GoTo, reader, spool
<1>2. file \in Files /\ ~ HeaderRefused(file.header)
  BY <1>1 DEF IInv, FileInspected, Parts, Late
<1>3. Body(part)' = Body(part) /\ Body(part) # NoObject
      /\ bundle'[part] = Body(part)
      /\ \A other \in Parts \ {part} : bundle'[other] = bundle[other]
  BY <1>1, <1>2, BodyIsSomething DEF Body, Manifest, IInv, TypeOK
<1>4. /\ part = "artifact" => pc' = "read"
      /\ part = "sidecar" => pc' = "marker"
      /\ part = "marker" => pc' = "receipt"
  BY <1>1 DEF After
<1>5. TypeOK' BY <1>1, <1>4 DEF IInv, TypeOK, PCs, Parts
<1>6. ReaderInStep' BY <1>1 DEF IInv, ReaderInStep, Handed
<1>7. SpoolInStep'
  BY <1>1, <1>4 DEF IInv, SpoolInStep, Handed, Underway, PCs, Total, Parts
<1>8. EvidenceIsTheFiles' BY <1>1 DEF IInv, EvidenceIsTheFiles
<1>9. FileInspected' BY <1>1, <1>2 DEF FileInspected
<1>10. SentInOrder'
  BY <1>1, <1>3, <1>4 DEF IInv, SentInOrder, Early, Parts
<1>11. ReadToTheEnd'
  BY <1>1, <1>4 DEF IInv, SentInOrder, ReadToTheEnd, Early, Late, Parts
<1>12. ObjectsAreBodies'
  BY <1>1, <1>3 DEF IInv, ObjectsAreBodies, Body, Manifest
<1>13. OutcomesInStep' /\ ResultIsTheManifests' /\ TypedFailureUncommitted'
  <2>1. "marker" \in sent' => bundle'["marker"] # NoObject
    BY <1>1, <1>3, UnsentFacts DEF Parts, Early
  <2> QED BY <1>1, <1>4, <2>1, SilenceKeeps DEF Underway, PCs, Parts
<1> QED BY <1>5, <1>6, <1>7, <1>8, <1>9, <1>10, <1>11, <1>12, <1>13 DEF IInv

\* The store keeps it.
LEMMA StoreKeeps == ASSUME IInv, Store PROVE IInv'
<1>1. CASE SnapshotTaken
  <2>1. /\ pc = "snapshot" /\ pc' = "artifact"
        /\ UNCHANGED <<file, position, batch, seen, raised, served, lines, counts, bundle,
                       sent, stored, error, result>>
    BY <1>1 DEF SnapshotTaken, GoTo, reader, spool
  <2>2. TypeOK' BY <2>1 DEF IInv, TypeOK, PCs, Parts
  <2>3. ReaderInStep' BY <2>1 DEF IInv, ReaderInStep, Handed
  <2>4. SpoolInStep' BY <2>1 DEF IInv, SpoolInStep, Handed, Underway, PCs, Parts, Total
  <2>5. EvidenceIsTheFiles' BY <2>1 DEF IInv, EvidenceIsTheFiles
  <2>6. FileInspected' BY <2>1 DEF IInv, FileInspected
  <2>7. SentInOrder' /\ ReadToTheEnd'
    BY <2>1 DEF IInv, SentInOrder, ReadToTheEnd, Early, Late
  <2>8. ObjectsAreBodies' BY <2>1, ObjectsStay
  <2>9. "marker" \notin sent BY <2>1, UnsentFacts DEF Early
  <2>10. OutcomesInStep' /\ ResultIsTheManifests' /\ TypedFailureUncommitted'
    BY <2>1, <2>9, SilenceKeeps DEF Underway, PCs, Parts
  <2> QED BY <2>2, <2>3, <2>4, <2>5, <2>6, <2>7, <2>8, <2>10 DEF IInv
<1>2. CASE SnapshotFails \/ CloseFails
  BY <1>2, RaiseKeeps DEF SnapshotFails, CloseFails, Raise, Early, Errors, StoreErrors
<1>3. CASE ReturnReceipt
  <2>1. /\ pc = "receipt" /\ pc' = "result" /\ stored' = "receipt"
        /\ UNCHANGED <<file, position, batch, seen, raised, served, lines, counts, bundle,
                       sent, error, result>>
    BY <1>3 DEF ReturnReceipt, reader, spool
  <2>2. TypeOK' BY <2>1 DEF IInv, TypeOK, PCs
  <2>3. ReaderInStep' BY <2>1 DEF IInv, ReaderInStep, Handed
  <2>4. SpoolInStep' BY <2>1 DEF IInv, SpoolInStep, Handed, Underway, PCs, Total
  <2>5. EvidenceIsTheFiles' BY <2>1 DEF IInv, EvidenceIsTheFiles
  <2>6. FileInspected' BY <2>1 DEF IInv, FileInspected, Late, Underway, PCs
  <2>7. SentInOrder' /\ ReadToTheEnd'
    BY <2>1 DEF IInv, SentInOrder, ReadToTheEnd, Early, Late
  <2>8. ObjectsAreBodies' BY <2>1, ObjectsStay
  <2>9. OutcomesInStep' /\ ResultIsTheManifests' /\ TypedFailureUncommitted'
    BY <2>1 DEF IInv, SentInOrder, OutcomesInStep, ResultIsTheManifests,
                TypedFailureUncommitted, Underway, PCs
  <2> QED BY <2>2, <2>3, <2>4, <2>5, <2>6, <2>7, <2>8, <2>9 DEF IInv
<1>4. ASSUME NEW part \in Parts, PutFails(part) PROVE IInv'
  <2>1. /\ pc = part /\ sent' \in {sent, sent \cup {part}}
        /\ UNCHANGED <<file, reader, spool, bundle>>
    BY <1>4 DEF PutFails
  <2>2. PICK kind \in StoreErrors : Fail(kind) /\ (part = "marker" => kind = "store")
    BY <1>4 DEF PutFails, PutError, StoreErrors
  <2> QED BY <2>1, <2>2, RaiseKeeps DEF Parts, Errors, Early
<1> QED BY <1>1, <1>2, <1>3, <1>4, PutKeeps DEF Store

-----------------------------------------------------------------------------
(* The reader.                                                             *)

\* A batch holds the rows that follow, and what is remembered outlives it.
LEMMA NextBatchKeeps == ASSUME IInv, NextBatch PROVE IInv'
<1>1. PICK n \in 1..BatchSize :
        /\ position + n <= Len(file.rows)
        /\ \A i \in position + 1..position + n : file.rows[i] # Unreadable
        /\ batch' = SubSeq(file.rows, position + 1, position + n)
        /\ position' = position + n
  BY DEF NextBatch, RowsRead
<1>2. /\ pc = "read" /\ pc' = "read" /\ batch = <<>>
      /\ UNCHANGED <<file, seen, raised, served, lines, counts, bundle, sent, stored,
                     error, result>>
  BY DEF NextBatch, GoTo, SeenBefore, spool
<1>3. /\ file \in Files /\ file # NoObject /\ file.rows \in Seq(Rows \cup {Unreadable})
      /\ position \in Nat /\ n \in Nat \ {0} /\ Len(file.rows) \in Nat
      /\ n <= BatchSize
  BY <1>2, IngestionAssumption DEF IInv, FileInspected, TypeOK, Underway, PCs
<1>4. \A i \in position + 1..position + n : file.rows[i] \in Rows
  <2>. SUFFICES ASSUME NEW i \in position + 1..position + n PROVE file.rows[i] \in Rows
    OBVIOUS
  <2>1. i \in 1..Len(file.rows) BY <1>1, <1>3
  <2>2. file.rows[i] \in Rows \cup {Unreadable} BY <1>3, <2>1
  <2> QED BY <1>1, <2>2
<1>5. /\ batch' \in Seq(Rows) /\ Len(batch') = n
      /\ \A i \in 1..n : batch'[i] = file.rows[position + i]
  <2>1. batch' = [i \in 1..n |-> file.rows[position + i]] BY <1>1, <1>3
  <2>2. \A i \in 1..n : file.rows[position + i] \in Rows BY <1>3, <1>4
  <2>. DEFINE b == batch'
  <2>3. b = [i \in 1..n |-> file.rows[position + i]] BY <2>1
  <2>. HIDE DEF b
  <2>4. b \in [1..n -> Rows] BY <2>2, <2>3
  <2>5. b \in Seq(Rows) /\ Len(b) = n BY <1>3, <2>4
  <2>6. \A i \in 1..n : b[i] = file.rows[position + i] BY <2>3
  <2> QED BY <2>5, <2>6 DEF b
<1>6. Handed = position /\ Handed' = position BY <1>1, <1>2, <1>3, <1>5 DEF Handed
<1>7. TypeOK'
  <2>1. position + n \in 0..Len(file.rows) BY <1>1, <1>3
  <2> QED BY <1>1, <1>2, <1>3, <1>5, <2>1 DEF IInv, TypeOK
<1>8. ReaderInStep'
  <2>1. \A i \in 1..position' : file.rows[i] \in Rows
    <3>1. \A i \in 1..position : file.rows[i] \in Rows BY DEF IInv, ReaderInStep
    <3> QED BY <1>1, <1>3, <1>4, <3>1
  <2>2. Len(batch') <= position' BY <1>1, <1>3, <1>5
  <2> QED BY <1>2, <1>3, <1>5, <1>6, <2>1, <2>2 DEF IInv, ReaderInStep
<1>9. SpoolInStep' BY <1>2, <1>6 DEF IInv, SpoolInStep, Total
<1>10. EvidenceIsTheFiles' BY <1>2 DEF IInv, EvidenceIsTheFiles
<1>11. FileInspected' BY <1>2 DEF IInv, FileInspected
<1>12. SentInOrder' /\ ReadToTheEnd'
  BY <1>2 DEF IInv, SentInOrder, ReadToTheEnd, Early, Late
<1>13. ObjectsAreBodies' BY <1>2, ObjectsStay
<1>14. "marker" \notin sent BY <1>2, UnsentFacts
<1>15. OutcomesInStep' /\ ResultIsTheManifests' /\ TypedFailureUncommitted'
  BY <1>2, <1>14, SilenceKeeps DEF Underway, PCs
<1> QED BY <1>7, <1>8, <1>9, <1>10, <1>11, <1>12, <1>13, <1>15 DEF IInv

\* An item handed on, kept or lost, takes its row from the batch to what the reader
\* remembers.
LEMMA PullAdvances ==
  ASSUME IInv, Pull
  PROVE  /\ ReaderInStep' /\ Handed' = Handed + 1 /\ Handed \in Nat
         /\ Len(batch') <= BatchSize /\ seen' \subseteq Nat \ {0}
         /\ \A i \in DOMAIN batch' : batch'[i] \in Rows
         /\ served' = Count(served, Evidence) /\ served' \in Counts
         /\ Evidence = EvidenceOf(file.rows, Handed + 1) /\ Evidence \in EvidenceLines
<1>1. /\ batch # <<>> /\ batch' = Tail(batch)
      /\ seen' = seen \cup ({ObjectId(Head(batch).object_id)} \ {NoId})
      /\ served' = Count(served, Evidence)
      /\ UNCHANGED <<file, position>>
  BY DEF Pull, CountServed
<1>2. position \in Nat BY DEF IInv, TypeOK
<1>3. /\ Handed + 1 \in 1..position /\ Evidence = EvidenceOf(file.rows, Handed + 1)
      /\ Evidence \in EvidenceLines
  BY <1>1, <1>2, EvidenceIsNext DEF IInv
<1>4. /\ batch \in Seq(Rows) /\ Len(batch) \in Nat \ {0} /\ Len(batch) <= position
      /\ batch' \in Seq(Rows) /\ Len(batch') = Len(batch) - 1
      /\ \A i \in 1..Len(batch') : batch'[i] = batch[i + 1]
      /\ Head(batch) = batch[1]
  BY <1>1 DEF IInv, ReaderInStep
<1>5. Handed' = Handed + 1 /\ Handed \in Nat BY <1>1, <1>2, <1>4 DEF Handed
<1>6. Head(batch) = file.rows[Handed + 1] /\ Head(batch) \in Rows
  BY <1>4 DEF IInv, ReaderInStep
<1>7. seen' = {file'.rows[i].object_id.value :
                i \in {j \in 1..Handed' : IsId(file'.rows[j].object_id)}}
  <2>. DEFINE new == Handed + 1
              cell == file.rows[new].object_id
  <2>1. 1..Handed' = (1..Handed) \cup {new} BY <1>5
  <2>2. seen' = seen \cup ({ObjectId(cell)} \ {NoId}) BY <1>1, <1>6
  <2>3. {ObjectId(cell)} \ {NoId} = IF IsId(cell) THEN {cell.value} ELSE {}
    BY <1>6, IdFacts
  <2>4. seen = {file.rows[i].object_id.value :
                 i \in {j \in 1..Handed : IsId(file.rows[j].object_id)}}
    BY DEF IInv, ReaderInStep
  <2>. HIDE DEF new
  <2> QED BY <1>1, <2>1, <2>2, <2>3, <2>4
<1>8. ReaderInStep'
  <2>1. \A i \in 1..Len(batch') : batch'[i] = file.rows[Handed' + i]
    <3>. SUFFICES ASSUME NEW i \in 1..Len(batch') PROVE batch[i + 1] = file.rows[Handed' + i]
      BY <1>4
    <3>1. i + 1 \in 1..Len(batch) /\ Handed' + i = Handed + (i + 1)
      <4>1. Len(batch') = Len(batch) - 1 /\ Len(batch) \in Nat BY <1>4
      <4>2. i \in Nat /\ 1 <= i /\ i <= Len(batch') BY <1>4
      <4>3. i + 1 \in 1..Len(batch) BY <4>1, <4>2
      <4>4. Handed' + i = Handed + (i + 1) BY <1>5, <4>2
      <4> QED BY <4>3, <4>4
    <3>2. \A j \in DOMAIN batch : batch[j] = file.rows[Handed + j] BY DEF IInv, ReaderInStep
    <3>3. batch[i + 1] = file.rows[Handed + (i + 1)] BY <1>4, <3>1, <3>2
    <3> QED BY <3>1, <3>3
  <2>2. Len(batch') <= position' BY <1>1, <1>2, <1>4
  <2>3. \A i \in 1..position' : file'.rows[i] \in Rows BY <1>1 DEF IInv, ReaderInStep
  <2>4. \A i \in DOMAIN batch' : batch'[i] = file'.rows[Handed' + i]
    BY <1>1, <1>4, <2>1
  <2>5. batch' \in Seq(Rows) BY <1>4
  <2> QED BY <1>7, <2>2, <2>3, <2>4, <2>5 DEF ReaderInStep
<1>9. seen' \subseteq Nat \ {0}
  <2>1. ObjectId(Head(batch).object_id) \in (Nat \ {0}) \cup {NoId} BY <1>6, IdFacts
  <2> QED BY <1>1, <2>1 DEF IInv, TypeOK
<1>10. Len(batch') <= BatchSize BY <1>4, IngestionAssumption DEF IInv, TypeOK
<1>11. served' \in Counts
  BY <1>1, <1>3, TallyCounts DEF IInv, TypeOK, Counts, EvidenceLines
<1> QED BY <1>1, <1>3, <1>4, <1>5, <1>8, <1>9, <1>10, <1>11

\* A line that is kept is the evidence of the row after those that have theirs.
LEMMA SpoolLineKeeps == ASSUME IInv, SpoolLine PROVE IInv'
<1>1. /\ pc = "read" /\ pc' = "read" /\ lines' = Append(lines, Evidence)
      /\ counts' = Count(counts, Evidence) /\ Len(lines) < MaxLines
      /\ UNCHANGED <<file, position, raised, bundle, sent, stored, error, result>>
  BY DEF SpoolLine, Pull
<1>2. /\ ReaderInStep' /\ Handed' = Handed + 1 /\ Handed \in Nat
      /\ Len(batch') <= BatchSize /\ seen' \subseteq Nat \ {0}
      /\ \A i \in DOMAIN batch' : batch'[i] \in Rows
      /\ served' = Count(served, Evidence) /\ served' \in Counts
      /\ Evidence = EvidenceOf(file.rows, Handed + 1) /\ Evidence \in EvidenceLines
  BY PullAdvances DEF SpoolLine
<1>3. /\ lines \in Seq(EvidenceLines) /\ Len(lines) = Handed /\ served = counts
      /\ counts \in Counts /\ Evidence.outcome \in Outcomes
  BY <1>1, <1>2 DEF IInv, TypeOK, SpoolInStep, Underway, PCs, Counts, EvidenceLines
<1>. DEFINE line == Evidence
<1>. HIDE DEF line
<1>4. line = EvidenceOf(file.rows, Handed + 1) /\ line \in EvidenceLines
      /\ lines' = Append(lines, line) /\ counts' = Count(counts, line)
      /\ served' = Count(served, line) /\ line.outcome \in Outcomes
  BY <1>1, <1>2, <1>3 DEF line
<1>5. /\ lines' \in Seq(EvidenceLines) /\ Len(lines') = Handed + 1
      /\ DOMAIN lines' = 1..(Handed + 1)
      /\ lines'[Handed + 1] = line /\ \A i \in 1..Handed : lines'[i] = lines[i]
  BY <1>2, <1>3, <1>4
<1>6. TypeOK'
  <2>1. \A i \in DOMAIN lines' : lines'[i].outcome \in Outcomes
    BY <1>2, <1>3, <1>4, <1>5 DEF IInv, TypeOK
  <2>2. Len(lines') <= MaxLines BY <1>1, <1>2, <1>3, <1>5, IngestionAssumption
  <2>3. counts' \in Counts BY <1>3, <1>4, TallyCounts
  <2> QED BY <1>1, <1>2, <2>1, <2>2, <2>3 DEF IInv, TypeOK, Counts
<1>7. SpoolInStep'
  <2>1. \A o \in Outcomes : counts'[o] = CountOf(lines', o)
    <3>. SUFFICES ASSUME NEW o \in Outcomes PROVE counts'[o] = CountOf(lines', o)
      OBVIOUS
    <3>1. counts[o] = CountOf(lines, o) BY DEF IInv, SpoolInStep
    <3>2. CountOf(lines', o) = IF line.outcome = o THEN CountOf(lines, o) + 1
                               ELSE CountOf(lines, o)
      BY <1>3, <1>4, CountOfIsCounted, CountedAppend
    <3> QED BY <1>3, <1>4, <3>1, <3>2, TallyCounts
  <2>2. Total(counts') = Len(lines')
    <3>1. Total(Count(counts, line)) = Total(counts) + 1 BY <1>3, <1>4, TallyCounts
    <3> QED BY <1>3, <1>4, <1>5, <3>1 DEF IInv, SpoolInStep
  <2>3. served' = counts' BY <1>3, <1>4
  <2> QED BY <1>2, <1>5, <2>1, <2>2, <2>3 DEF SpoolInStep, Total
<1>8. EvidenceIsTheFiles'
  <2>. SUFFICES ASSUME NEW i \in 1..(Handed + 1) PROVE lines'[i] = EvidenceOf(file.rows, i)
    BY <1>1, <1>5 DEF EvidenceIsTheFiles
  <2>1. CASE i \in 1..Handed
    <3>1. i \in DOMAIN lines BY <1>2, <1>3, <2>1
    <3> QED BY <1>5, <2>1, <3>1 DEF IInv, EvidenceIsTheFiles
  <2>2. CASE i = Handed + 1 BY <1>4, <1>5, <2>2
  <2> QED BY <1>2, <2>1, <2>2
<1>9. "marker" \notin sent /\ "sidecar" \notin sent BY <1>1, UnsentFacts
<1>10. FileInspected' BY <1>1 DEF IInv, FileInspected
<1>11. SentInOrder' /\ ReadToTheEnd'
  BY <1>1, <1>9 DEF IInv, SentInOrder, ReadToTheEnd, Early, Late
<1>12. ObjectsAreBodies' BY <1>1, <1>9, ObjectsStay
<1>13. OutcomesInStep' /\ ResultIsTheManifests' /\ TypedFailureUncommitted'
  BY <1>1, <1>9, SilenceKeeps DEF Underway, PCs
<1> QED BY <1>2, <1>6, <1>7, <1>8, <1>10, <1>11, <1>12, <1>13 DEF IInv

\* The reader keeps the invariant, whether it goes on, ends or fails, and whether or
\* not the store can keep what it hands on.
LEMMA ReadKeeps == ASSUME IInv, Read PROVE IInv'
<1>1. CASE ReadFails
  <2>1. /\ UNCHANGED <<file, position, batch, seen, served, lines, counts, bundle, sent>>
        /\ pc = "read" /\ raised' \in BOOLEAN
    BY <1>1 DEF ReadFails, ReadError, Fail, spool
  <2>2. ReaderInStep' /\ Handed' = Handed /\ Handed \in Int
    BY <2>1 DEF IInv, TypeOK, ReaderInStep, Handed
  <2>3. served' \in Counts /\ Len(batch') <= BatchSize
    BY <2>1 DEF IInv, TypeOK, Counts
  <2>4. PICK kind \in StoreErrors : Fail(kind) BY <1>1 DEF ReadFails, ReadError, StoreErrors
  <2>5. kind \in Errors BY <2>4 DEF Errors
  <2>6. sent' = sent /\ Handed <= Handed' BY <2>1, <2>2
  <2> QED BY <2>1, <2>2, <2>3, <2>4, <2>5, <2>6, FailKeeps
<1>2. CASE ReadEnds
  <2>1. /\ pc = "read" /\ pc' = "sidecar" /\ batch = <<>> /\ position = Len(file.rows)
        /\ UNCHANGED <<file, position, batch, seen, raised, served, lines, counts, bundle,
                       sent, stored, error, result>>
    BY <1>2 DEF ReadEnds, After, GoTo, reader, spool
  <2>2. TypeOK' BY <2>1 DEF IInv, TypeOK, PCs, Parts
  <2>3. ReaderInStep' BY <2>1 DEF IInv, ReaderInStep, Handed
  <2>4. SpoolInStep' BY <2>1 DEF IInv, SpoolInStep, Handed, Underway, PCs, Parts, Total
  <2>5. EvidenceIsTheFiles' BY <2>1 DEF IInv, EvidenceIsTheFiles
  <2>6. FileInspected' BY <2>1 DEF IInv, FileInspected
  <2>7. SentInOrder' BY <2>1 DEF IInv, SentInOrder, Early
  <2>8. ReadToTheEnd'
    <3>1. Len(lines) = position
      BY <2>1 DEF IInv, TypeOK, SpoolInStep, Handed, Underway, PCs
    <3> QED BY <2>1, <3>1 DEF ReadToTheEnd, Early
  <2>9. ObjectsAreBodies' BY <2>1, ObjectsStay
  <2>10. "marker" \notin sent BY <2>1, UnsentFacts
  <2>11. OutcomesInStep' /\ ResultIsTheManifests' /\ TypedFailureUncommitted'
    BY <2>1, <2>10, SilenceKeeps DEF Underway, PCs, Parts
  <2> QED BY <2>2, <2>3, <2>4, <2>5, <2>6, <2>7, <2>8, <2>9, <2>11 DEF IInv
<1>3. ASSUME LineTooLarge \/ LineFails PROVE IInv'
  <2>1. /\ Pull /\ pc = "read" /\ UNCHANGED <<file, position, raised, bundle, sent, lines, counts>>
        /\ Fail("too_large") \/ Fail("evidence_staging") \/ Fail("serialization")
    BY <1>3 DEF LineTooLarge, LineFails, Pull, spool
  <2>2. /\ ReaderInStep' /\ Handed' = Handed + 1 /\ Handed \in Nat
        /\ Len(batch') <= BatchSize /\ served' \in Counts
    BY <2>1, PullAdvances
  <2>3. raised' \in BOOLEAN /\ Handed <= Handed' BY <2>1, <2>2 DEF IInv, TypeOK
  <2> QED BY <2>1, <2>2, <2>3, FailKeeps DEF Errors, StoreErrors
<1> QED BY <1>1, <1>2, <1>3, NextBatchKeeps, SpoolLineKeeps DEF Read
-----------------------------------------------------------------------------
(* The end, and the uploads that were given up.                            *)

\* The counts of the service are those of the marker, and whatever the cleanup does
\* comes after it.
LEMMA EndKeeps == ASSUME IInv, BuildResult \/ Cleanup \/ CleanupFails PROVE IInv'
<1>1. /\ pc \in {"result", "cleanup"} /\ pc' \in {"cleanup", "done"}
      /\ UNCHANGED <<file, position, batch, seen, raised, served, lines, counts, bundle,
                     sent, stored>>
      /\ error' \in {error, "untyped"}
  BY DEF BuildResult, Cleanup, CleanupFails, GoTo, reader, spool
<1>2. TypeOK' BY <1>1 DEF IInv, TypeOK, PCs, Errors
<1>3. ReaderInStep' BY <1>1 DEF IInv, ReaderInStep, Handed
<1>4. SpoolInStep' BY <1>1 DEF IInv, SpoolInStep, Handed, Underway, Total
<1>5. EvidenceIsTheFiles' BY <1>1 DEF IInv, EvidenceIsTheFiles
<1>6. FileInspected' BY <1>1 DEF IInv, FileInspected, Late, Underway
<1>7. SentInOrder' /\ ReadToTheEnd'
  BY <1>1 DEF IInv, SentInOrder, ReadToTheEnd, Early, Late
<1>8. ObjectsAreBodies' BY <1>1, ObjectsStay
<1>9. OutcomesInStep'
  <2>1. pc' = "cleanup" => error' = "none" /\ stored' = "receipt"
    BY <1>1 DEF IInv, OutcomesInStep, Underway, PCs, BuildResult, Cleanup, CleanupFails, GoTo
  <2> QED BY <1>1, <2>1 DEF IInv, OutcomesInStep, Underway
<1>10. ResultIsTheManifests'
  <2>1. CASE BuildResult
    <3>1. /\ pc = "result" /\ result' = Result /\ bundle["marker"] = Manifest
          /\ bundle["marker"] # NoObject /\ served = counts /\ Total(counts) = Len(lines)
      BY <2>1, BodyFacts
      DEF BuildResult, IInv, SentInOrder, ObjectsAreBodies, SpoolInStep, Underway, PCs, Parts
    <3> QED BY <1>1, <3>1 DEF ResultIsTheManifests, Result, Manifest
  <2>2. CASE Cleanup \/ CleanupFails
    BY <1>1, <2>2 DEF IInv, ResultIsTheManifests, Cleanup, CleanupFails, GoTo
  <2> QED BY <2>1, <2>2
<1>11. TypedFailureUncommitted'
  <2>1. error = "none" => stored = "receipt"
    BY <1>1 DEF IInv, OutcomesInStep, Underway, PCs
  <2>2. error = "store" => stored = "store"
    BY <1>1 DEF IInv, OutcomesInStep, Underway, PCs
  <2> QED BY <1>1, <2>1, <2>2 DEF IInv, TypedFailureUncommitted
<1> QED BY <1>2, <1>3, <1>4, <1>5, <1>6, <1>7, <1>8, <1>9, <1>10, <1>11 DEF IInv

\* What lands is what its part was when its upload was begun.
LEMMA LandsKeeps == ASSUME IInv, NEW part \in Parts, Lands(part) PROVE IInv'
<1>1. /\ part \in sent /\ bundle[part] = NoObject
      /\ bundle' = [bundle EXCEPT ![part] = Body(part)]
      /\ UNCHANGED <<pc, file, position, batch, seen, raised, served, lines, counts, sent,
                     stored, error, result>>
  BY DEF Lands, reader, spool
<1>2. file \in Files BY <1>1 DEF IInv, FileInspected
<1>3. /\ Body(part) # NoObject /\ bundle'[part] = Body(part)
      /\ \A other \in Parts \ {part} : bundle'[other] = bundle[other]
      /\ \A other \in Parts : bundle[other] # NoObject => bundle'[other] = bundle[other]
  BY <1>1, <1>2, BodyIsSomething DEF IInv, TypeOK
<1>4. TypeOK' BY <1>1 DEF IInv, TypeOK
<1>5. ReaderInStep' BY <1>1 DEF IInv, ReaderInStep, Handed
<1>6. SpoolInStep' BY <1>1 DEF IInv, SpoolInStep, Handed, Total
<1>7. EvidenceIsTheFiles' BY <1>1 DEF IInv, EvidenceIsTheFiles
<1>8. FileInspected' BY <1>1 DEF IInv, FileInspected
<1>9. SentInOrder' BY <1>1, <1>3 DEF IInv, SentInOrder, Parts
<1>10. ReadToTheEnd' BY <1>1 DEF IInv, ReadToTheEnd
<1>11. ObjectsAreBodies' BY <1>1, <1>3 DEF IInv, ObjectsAreBodies, Body, Manifest
<1>12. OutcomesInStep' BY <1>1, <1>3 DEF IInv, OutcomesInStep, Parts
<1>13. ResultIsTheManifests' BY <1>1, <1>3 DEF IInv, ResultIsTheManifests, Parts
<1>14. TypedFailureUncommitted'
  BY <1>1, <1>3 DEF IInv, TypedFailureUncommitted, Parts
<1> QED BY <1>4, <1>5, <1>6, <1>7, <1>8, <1>9, <1>10, <1>11, <1>12, <1>13, <1>14 DEF IInv

\* Every step preserves the invariant.
LEMMA NextKeeps == ASSUME IInv, [Next]_vars PROVE IInv'
<1>1. CASE UNCHANGED vars
  <2>1. UNCHANGED <<pc, file, position, batch, seen, raised, served, lines, counts, bundle,
                    sent, stored, error, result>>
    BY <1>1 DEF vars, reader, spool
  <2>2. TypeOK' BY <2>1 DEF IInv, TypeOK
  <2>3. ReaderInStep' BY <2>1 DEF IInv, ReaderInStep, Handed
  <2>4. SpoolInStep' BY <2>1 DEF IInv, SpoolInStep, Handed, Total
  <2>5. EvidenceIsTheFiles' BY <2>1 DEF IInv, EvidenceIsTheFiles
  <2>6. FileInspected' /\ SentInOrder' /\ ReadToTheEnd'
    BY <2>1 DEF IInv, FileInspected, SentInOrder, ReadToTheEnd
  <2>7. ObjectsAreBodies' BY <2>1, ObjectsStay
  <2>8. OutcomesInStep' /\ ResultIsTheManifests' /\ TypedFailureUncommitted'
    BY <2>1 DEF IInv, OutcomesInStep, ResultIsTheManifests, TypedFailureUncommitted
  <2> QED BY <2>2, <2>3, <2>4, <2>5, <2>6, <2>7, <2>8 DEF IInv
<1> QED BY <1>1, AcquireKeeps, StoreKeeps, ReadKeeps, EndKeeps, LandsKeeps
    DEF Next, Finished
-----------------------------------------------------------------------------
\* The inductive invariant holds in every reachable state.
THEOREM Invariant == Spec => []IInv
<1>1. Init => IInv
  <2>. SUFFICES ASSUME Init PROVE IInv OBVIOUS
  <2>. USE DEF Init
  <2>1. /\ <<>> \in Seq(Rows) /\ <<>> \in Seq(EvidenceLines) /\ Len(<<>>) = 0
        /\ DOMAIN <<>> = {}
    BY EmptySeq
  <2>2. NoTally \in Counts /\ Total(NoTally) = 0 /\ \A o \in Outcomes : NoTally[o] = 0
    BY DEF NoTally, Counts, Total, Outcomes
  <2>3. TypeOK
    <3>1. position \in 0..(IF file = NoObject THEN 0 ELSE Len(file.rows)) OBVIOUS
    <3>2. Len(batch) <= BatchSize /\ \A i \in DOMAIN batch : batch[i] \in Rows
      BY <2>1, IngestionAssumption
    <3>3. Len(lines) <= MaxLines /\ \A i \in DOMAIN lines : lines[i].outcome \in Outcomes
      BY <2>1, IngestionAssumption
    <3>4. served \in [Outcomes -> Nat] /\ counts \in [Outcomes -> Nat] BY <2>2 DEF Counts
    <3> QED BY <3>1, <3>2, <3>3, <3>4 DEF TypeOK, PCs
  <2>4. ReaderInStep BY <2>1 DEF ReaderInStep, Handed
  <2>5. SpoolInStep
    <3>1. \A o \in Outcomes : counts[o] = CountOf(lines, o)
      BY <2>2, CountOfIsCounted, CountedEmpty
    <3>2. Handed = 0
      <4>1. batch = <<>> /\ position = 0 OBVIOUS
      <4>2. Len(batch) = 0 BY <4>1, EmptySeq
      <4>3. \A m, n : m = 0 /\ n = 0 => m - n = 0 OBVIOUS
      <4>4. position - Len(batch) = 0 BY <4>1, <4>2, <4>3, Zenon
      <4> QED BY <4>4, Zenon DEF Handed
    <3>3. Total(counts) = 0 BY <2>2
    <3> QED BY <2>1, <3>1, <3>2, <3>3 DEF SpoolInStep
  <2>6. EvidenceIsTheFiles BY <2>1 DEF EvidenceIsTheFiles
  <2>7. FileInspected /\ SentInOrder /\ ReadToTheEnd
    BY DEF FileInspected, SentInOrder, ReadToTheEnd, Late, Early
  <2>8. ObjectsAreBodies /\ OutcomesInStep /\ ResultIsTheManifests /\ TypedFailureUncommitted
    BY DEF ObjectsAreBodies, OutcomesInStep, ResultIsTheManifests, TypedFailureUncommitted,
           Underway
  <2> QED BY <2>3, <2>4, <2>5, <2>6, <2>7, <2>8 DEF IInv
<1>2. IInv /\ [Next]_vars => IInv' BY NextKeeps
<1> QED BY <1>1, <1>2, PTL DEF Spec

\* In particular the reader never hands over more than the file has, and a sidecar never
\* outgrows one conditional PUT.
THEOREM TypeCorrect == Spec => []TypeOK
<1>1. IInv => TypeOK BY DEF IInv
<1> QED BY <1>1, Invariant, PTL

\* However the rows fall into batches, the evidence is that of the rows of the file.
THEOREM EvidenceIsReference == Spec => []EvidenceIsTheFiles
<1>1. IInv => EvidenceIsTheFiles BY DEF IInv
<1> QED BY <1>1, Invariant, PTL

\* Evidence that is not rejected names its record uniquely.
THEOREM RecordsAreDistinct == Spec => []RecordsDistinct
<1>1. IInv => RecordsDistinct
  <2>. SUFFICES ASSUME IInv, NEW i \in DOMAIN lines, NEW j \in DOMAIN lines, i # j,
                       lines[i].outcome # "rejected", lines[j].outcome # "rejected"
                PROVE  lines[i].record # lines[j].record
    BY DEF RecordsDistinct
  <2>1. /\ i \in Nat \ {0} /\ j \in Nat \ {0}
        /\ file.rows[i] \in Rows /\ file.rows[j] \in Rows
    <3>1. /\ lines \in Seq(EvidenceLines) /\ Len(lines) <= Handed /\ Handed <= position
          /\ position \in Nat /\ Handed \in Int
      BY DEF IInv, TypeOK, SpoolInStep, ReaderInStep, Handed
    <3> QED BY <3>1 DEF IInv, ReaderInStep
  <2>2. lines[i] = EvidenceOf(file.rows, i) /\ lines[j] = EvidenceOf(file.rows, j)
    BY DEF IInv, EvidenceIsTheFiles
  <2>3. CASE j < i BY <2>1, <2>2, <2>3, JudgedRecordsDiffer
  <2>4. CASE i < j BY <2>1, <2>2, <2>4, JudgedRecordsDiffer
  <2> QED BY <2>1, <2>3, <2>4
<1> QED BY <1>1, Invariant, PTL

\* Evidence of as many rows as the file has is the reference evidence of it.
LEMMA CoveredIsReference ==
  ASSUME IInv, file \in Files, position = Len(file.rows), Len(lines) = position
  PROVE  Readable(file.rows) /\ lines = Reference(file.rows)
<1>1. file.rows \in Seq(Rows \cup {Unreadable}) BY IngestionAssumption
<1>2. lines \in Seq(EvidenceLines) BY DEF IInv, SpoolInStep
<1>3. DOMAIN file.rows = 1..position /\ DOMAIN lines = 1..position BY <1>1, <1>2
<1>4. Readable(file.rows)
  BY <1>3, IngestionAssumption DEF IInv, ReaderInStep, Readable
<1>5. \A i \in 1..position : lines[i] = EvidenceOf(file.rows, i)
  BY <1>3 DEF IInv, EvidenceIsTheFiles
<1>6. lines = [i \in 1..position |-> lines[i]] BY <1>2, <1>3
<1>7. lines = Reference(file.rows) BY <1>3, <1>5, <1>6 DEF Reference
<1> QED BY <1>4, <1>7

\* Every sidecar has the evidence of every row of a readable file.
THEOREM SidecarCovers == Spec => []SidecarCoversFile
<1>1. IInv => SidecarCoversFile
  <2>. SUFFICES ASSUME IInv, bundle["sidecar"] # NoObject
                PROVE  Readable(file.rows) /\ bundle["sidecar"] = Reference(file.rows)
    BY DEF SidecarCoversFile
  <2>1. "sidecar" \in sent /\ bundle["sidecar"] = lines
    BY BodyFacts DEF IInv, ObjectsAreBodies, Parts
  <2>2. file \in Files /\ position = Len(file.rows) /\ Len(lines) = position
    BY <2>1 DEF IInv, FileInspected, ReadToTheEnd
  <2> QED BY <2>1, <2>2, CoveredIsReference
<1> QED BY <1>1, Invariant, PTL

\* Every committed bundle is the download, the evidence of all its rows, and the counts
\* of that evidence, for an accepted header.
THEOREM CommitCovers == Spec => []CommitCoversFile
<1>1. IInv => CommitCoversFile
  <2>. SUFFICES ASSUME IInv, bundle["marker"] # NoObject PROVE CommitCoversFile
    BY DEF CommitCoversFile
  <2>1. /\ "marker" \in sent /\ bundle["marker"] = Manifest
        /\ bundle["sidecar"] # NoObject /\ "sidecar" \in sent /\ bundle["sidecar"] = lines
        /\ bundle["artifact"] # NoObject /\ bundle["artifact"] = file
    BY BodyFacts DEF IInv, SentInOrder, ObjectsAreBodies, Parts
  <2>2. /\ file \in Files /\ ~ HeaderRefused(file.header)
        /\ position = Len(file.rows) /\ Len(lines) = position
    BY <2>1 DEF IInv, FileInspected, ReadToTheEnd
  <2>3. lines = Reference(file.rows) BY <2>2, CoveredIsReference
  <2>4. /\ Manifest.artifact = file /\ Manifest.evidence = lines
        /\ Manifest.total = Len(lines) /\ Manifest.counts = counts
    BY DEF Manifest
  <2>5. \A o \in Outcomes : counts[o] = CountOf(lines, o) BY DEF IInv, SpoolInStep
  <2> QED BY <2>1, <2>2, <2>3, <2>4, <2>5 DEF CommitCoversFile
<1> QED BY <1>1, Invariant, PTL

\* The counts a run returns are those of the manifest it committed.
THEOREM ResultIsTrue == Spec => []ResultIsTheManifests
<1>1. IInv => ResultIsTheManifests BY DEF IInv
<1> QED BY <1>1, Invariant, PTL

\* A typed error other than the store's is never that of a run that has committed or may
\* yet do so.
THEOREM TypedFailuresAreTrue == Spec => []TypedFailureUncommitted
<1>1. IInv => TypedFailureUncommitted BY DEF IInv
<1> QED BY <1>1, Invariant, PTL

-----------------------------------------------------------------------------
(* The run implements the ledger of the store.                             *)

\* What a call of the store that has reached the marker commits.
CommitOf(f, s, c) ==
    [by       |-> "run",
     version  |-> "contract",
     artifact |-> LedgerArtifact(f),
     evidence |-> LedgerLines(s),
     total    |-> Len(s),
     counts   |-> c]

\* The marker is only begun with both objects there, and lands as the manifest of them.
LEMMA MarkerReady ==
  ASSUME IInv, pc = "marker" \/ "marker" \in sent
  PROVE  /\ file \in Files /\ bundle["artifact"] = file /\ bundle["artifact"] # NoObject
         /\ bundle["sidecar"] = lines /\ bundle["sidecar"] # NoObject
<1>1. /\ bundle["sidecar"] # NoObject /\ "sidecar" \in sent /\ bundle["sidecar"] = lines
      /\ bundle["artifact"] # NoObject /\ bundle["artifact"] = file
  BY BodyFacts DEF IInv, SentInOrder, ObjectsAreBodies, Parts
<1> QED BY <1>1, IngestionAssumption DEF IInv, TypeOK, FileInspected

\* What the ledger sees of a committed run.
LEMMA LedgerOfCommit ==
  ASSUME IInv, bundle["marker"] # NoObject
  PROVE  /\ bundle["artifact"] = file /\ bundle["artifact"] # NoObject
         /\ bundle["sidecar"] = lines /\ bundle["sidecar"] # NoObject
         /\ file \in Files /\ LedgerBundle = CommitOf(file, lines, counts)
<1>1. "marker" \in sent /\ bundle["marker"] = Manifest
  BY BodyFacts DEF IInv, ObjectsAreBodies, Parts
<1>2. bundle["marker"].total = Len(lines) /\ bundle["marker"].counts = counts
  BY <1>1 DEF Manifest
<1> QED BY <1>1, <1>2, MarkerReady DEF LedgerBundle, CommitOf

\* The lines the ledger sees are as many, and have the same outcomes.
LEMMA LedgerLinesFacts ==
  ASSUME NEW s \in Seq(EvidenceLines)
  PROVE  /\ LedgerLines(s) \in [1..Len(s) -> [version : {"contract"}, outcome : Outcomes]]
         /\ LedgerLines(s) \in Seq([version : {"contract"}, outcome : Outcomes])
         /\ Len(LedgerLines(s)) = Len(s)
         /\ \A o : CountOf(LedgerLines(s), o) = CountOf(s, o)
<1>. DEFINE t    == LedgerLines(s)
            Item == [version : {"contract"}, outcome : Outcomes]
<1>1. Len(s) \in Nat /\ DOMAIN s = 1..Len(s) /\ \A i \in 1..Len(s) : s[i].outcome \in Outcomes
  <2>1. Len(s) \in Nat /\ DOMAIN s = 1..Len(s) BY LenProperties
  <2>2. \A i \in 1..Len(s) : s[i] \in EvidenceLines BY ElementOfSeq
  <2>3. \A line \in EvidenceLines : line.outcome \in Outcomes BY DEF EvidenceLines
  <2> QED BY <2>1, <2>2, <2>3
<1>2. t = [i \in 1..Len(s) |-> [version |-> "contract", outcome |-> s[i].outcome]]
  BY <1>1 DEF LedgerLines
<1>3. t \in [1..Len(s) -> Item] BY <1>1, <1>2
<1>4. DOMAIN t = DOMAIN s /\ \A i \in DOMAIN s : t[i].outcome = s[i].outcome BY <1>1, <1>2
<1>. HIDE DEF t, Item
<1>5. t \in Seq(Item) /\ Len(t) = Len(s)
  BY <1>1, <1>3, SeqDef, LenProperties
<1>6. ASSUME NEW o PROVE CountOf(t, o) = CountOf(s, o)
  <2>1. {i \in DOMAIN t : t[i].outcome = o} = {i \in DOMAIN s : s[i].outcome = o} BY <1>4
  <2> QED BY <2>1 DEF CountOf
<1> QED BY <1>3, <1>5, <1>6 DEF t, Item

\* What is committed is one of the bundles the ledger lets a call commit.
LEMMA CommitIsBundle ==
  ASSUME IInv, file \in Files
  PROVE  /\ CommitOf(file, lines, counts) \in Ledger!Bundles("run")
         /\ CommitOf(file, lines, counts) # NoObject
<1>. DEFINE Line1 == [version : {"contract"}, outcome : Outcomes]
            b == CommitOf(file, lines, counts)
<1>1. /\ b = [by       |-> "run",
               version  |-> "contract",
               artifact |-> LedgerArtifact(file),
               evidence |-> LedgerLines(lines),
               total    |-> Len(lines),
               counts   |-> counts]
      /\ lines \in Seq(EvidenceLines) /\ Len(lines) \in 0..MaxLines
      /\ counts \in Counts /\ \A o \in Outcomes : counts[o] = CountOf(lines, o)
  <2>1. Len(lines) \in 0..MaxLines
    BY LenProperties, IngestionAssumption DEF IInv, TypeOK, SpoolInStep
  <2> QED BY <2>1 DEF CommitOf, IInv, TypeOK, SpoolInStep, Counts
<1>2. /\ LedgerLines(lines) \in [1..Len(lines) -> Line1] /\ LedgerLines(lines) \in Seq(Line1)
      /\ Len(LedgerLines(lines)) = Len(lines)
      /\ \A o : CountOf(LedgerLines(lines), o) = CountOf(lines, o)
  BY <1>1, LedgerLinesFacts
<1>. HIDE DEF b
<1>3. b # NoObject
  <2>1. b \in LedgerBundles BY <1>1, <1>2 DEF LedgerBundles, LedgerArtifact
  <2> QED BY <2>1, NothingAssumption
<1>4. counts \in [Outcomes -> 0..MaxLines]
  <2>1. \A o \in Outcomes : counts[o] \in 0..MaxLines
    BY <1>1, CountOfIsCounted, CountedBounded, IngestionAssumption
  <2> QED BY <1>1, <2>1 DEF Counts
<1>5. LedgerLines(lines) \in UNION {[1..n -> Line1] : n \in 0..MaxLines} BY <1>1, <1>2
<1>6. file \in {c \in Files : Ledger!Verified("run", c)}
  BY <1>1 DEF Ledger!Verified
<1>7. b \in [by       : {"run"},
             version  : {"contract"},
             artifact : [key : {"source.csv"},
                         body : {c \in Files : Ledger!Verified("run", c)}],
             evidence : UNION {[1..n -> Line1] : n \in 0..MaxLines},
             total    : 0..MaxLines,
             counts   : [Outcomes -> 0..MaxLines]]
  BY <1>1, <1>4, <1>5, <1>6 DEF LedgerArtifact
<1>8. b.total = Len(b.evidence) BY <1>1, <1>2
<1>9. \A o \in Outcomes : b.counts[o] = Ledger!CountOf(b.evidence, o)
  <2>1. \A seq, o : Ledger!CountOf(seq, o) = CountOf(seq, o)
    BY DEF Ledger!CountOf, CountOf, Ledger!Cardinality, Cardinality
  <2>2. b.counts = counts /\ b.evidence = LedgerLines(lines) BY <1>1
  <2> QED BY <1>1, <1>2, <2>1, <2>2
<1>10. b \in Ledger!Bundles("run") BY <1>7, <1>8, <1>9 DEF Ledger!Bundles
<1> QED BY <1>3, <1>10 DEF b

\* A step does one of four things to what the ledger sees: nothing, a failure of the
\* store that leaves the run uncommitted or in doubt, a receipt, or the commit.
LEMMA StepKinds ==
  ASSUME IInv, [Next]_vars
  PROVE  /\ bundle["artifact"] # NoObject => bundle'["artifact"] = bundle["artifact"]
         /\ bundle["sidecar"] # NoObject => bundle'["sidecar"] = bundle["sidecar"]
         /\ stored = "receipt" => UNCHANGED <<file, lines>>
         /\ \/ bundle'["marker"] = bundle["marker"] /\ stored' = stored
            \/ /\ bundle'["marker"] = bundle["marker"] /\ stored = "none"
               /\ stored' \in StoreErrors /\ bundle["marker"] = NoObject
            \/ /\ UNCHANGED <<bundle, file, lines, counts>>
               /\ stored = "none" /\ stored' = "receipt"
            \/ /\ bundle["marker"] = NoObject /\ bundle'["marker"] = Manifest
               /\ pc = "marker" \/ "marker" \in sent
               /\ UNCHANGED <<file, lines, counts>>
               /\ stored \in {"none", "store"} /\ stored' = stored
<1>1. IInv' BY NextKeeps
<1>2. DOMAIN bundle = Parts /\ stored \in StoreErrors \cup {"none", "receipt"}
  BY DEF IInv, TypeOK
<1>3. CASE UNCHANGED vars BY <1>3 DEF vars, spool
<1>4. ASSUME NEW kind \in Errors, Fail(kind), UNCHANGED <<file, bundle, lines, counts>>,
             pc \in Early \cup {"read", "sidecar", "marker"}
      PROVE  /\ UNCHANGED <<file, bundle, lines>>
             /\ \/ stored' = stored
                \/ stored = "none" /\ stored' \in StoreErrors /\ bundle["marker"] = NoObject
  BY <1>4, UnsentFacts
  DEF Fail, IInv, OutcomesInStep, Underway, PCs, Early, Parts
<1>5. CASE Acquire
  <2>1. CASE Download
    BY <2>1 DEF Download, GoTo, IInv, OutcomesInStep, Underway, PCs
  <2>2. CASE Inspect /\ ~ HeaderRefused(file.header)
    BY <2>2 DEF Inspect, GoTo, spool
  <2>3. CASE DownloadFails \/ InspectFails \/ DescriptionRefused
                \/ (Inspect /\ HeaderRefused(file.header))
    BY <1>4, <2>3
    DEF DownloadFails, InspectFails, DescriptionRefused, Inspect, Raise, spool, Errors, Early
  <2> QED BY <1>5, <2>1, <2>2, <2>3 DEF Acquire
<1>6. CASE Store
  <2>1. CASE SnapshotTaken BY <2>1 DEF SnapshotTaken, GoTo, spool
  <2>2. CASE SnapshotFails \/ CloseFails
    BY <1>4, <2>2
    DEF SnapshotFails, CloseFails, Raise, spool, Errors, StoreErrors, Early
  <2>3. CASE ReturnReceipt
    BY <2>3 DEF ReturnReceipt, spool, IInv, OutcomesInStep, Underway, PCs
  <2>4. ASSUME NEW part \in Parts, Put(part)
        PROVE  /\ \A other \in Parts \ {part} : bundle'[other] = bundle[other]
               /\ UNCHANGED <<file, lines, counts, stored>> /\ stored = "none"
               /\ bundle[part] = NoObject /\ pc = part
               /\ part = "marker" => bundle'["marker"] = Manifest
    <3>1. \A other \in Parts \ {part} : bundle'[other] = bundle[other]
      BY <1>2, <2>4 DEF Put
    <3>2. UNCHANGED <<file, lines, counts, stored>> /\ pc = part
      BY <2>4 DEF Put, GoTo, spool
    <3>3. stored = "none" BY <2>4 DEF Put, IInv, OutcomesInStep, Underway, PCs, Parts
    <3>4. bundle[part] = NoObject
      BY <2>4, UnsentFacts DEF Put, IInv, SentInOrder, Early, Parts
    <3>5. part = "marker" => bundle'["marker"] = Manifest
      BY <1>2, <2>4, BodyFacts DEF Put
    <3> QED BY <3>1, <3>2, <3>3, <3>4, <3>5 DEF Parts
  <2>5. ASSUME NEW part \in Parts, PutFails(part)
        PROVE  /\ UNCHANGED <<file, bundle, lines>>
               /\ \/ stored' = stored
                  \/ stored = "none" /\ stored' \in StoreErrors /\ bundle["marker"] = NoObject
    BY <1>4, <2>5 DEF PutFails, PutError, spool, Errors, StoreErrors, Parts, Early
  <2> QED BY <1>6, <2>1, <2>2, <2>3, <2>4, <2>5 DEF Store, Parts
<1>7. CASE Read
  <2>1. CASE NextBatch \/ ReadEnds \/ SpoolLine
    BY <2>1 DEF NextBatch, ReadEnds, SpoolLine, Pull, GoTo, spool, IInv, OutcomesInStep,
                Underway, PCs
  <2>2. CASE ReadFails \/ LineTooLarge \/ LineFails
    BY <1>4, <2>2
    DEF ReadFails, ReadError, LineTooLarge, LineFails, Pull, spool, Errors, StoreErrors
  <2> QED BY <1>7, <2>1, <2>2 DEF Read
<1>8. CASE BuildResult \/ Cleanup \/ CleanupFails \/ Finished
  BY <1>8 DEF BuildResult, Cleanup, CleanupFails, Finished, GoTo, vars, spool
<1>9. ASSUME NEW part \in Parts, Lands(part)
      PROVE  /\ \A other \in Parts \ {part} : bundle'[other] = bundle[other]
             /\ UNCHANGED <<file, lines, counts, stored>> /\ bundle[part] = NoObject
             /\ part \in sent
             /\ part = "marker" => bundle'["marker"] = Manifest /\ stored = "store"
  <2>1. bundle'[part] = Body(part) BY <1>2, <1>9 DEF Lands
  <2> QED BY <1>2, <1>9, <2>1, BodyFacts DEF Lands, spool, IInv, OutcomesInStep
<1> QED BY <1>3, <1>5, <1>6, <1>7, <1>8, <1>9 DEF Next, Parts

\* A run, from the download to the result and whatever fails on the way, keeps the
\* ledger's promise of store_bundle.
THEOREM ImplementsLedger == Spec => KeepsLedger
<1>. DEFINE Receipts == [w \in {"run"} |-> LedgerReceipt]
            Failed   == [w \in {"run"} |-> IF stored \in StoreErrors THEN stored ELSE NoObject]
<1>1. Init => Ledger!Init
  BY DEF Init, Ledger!Init, LedgerBundle, LedgerReceipt, StoreErrors, Parts
<1>2. IInv /\ [Next]_vars => [Ledger!Next]_<<LedgerBundle, Receipts, Failed>>
  <2>. SUFFICES ASSUME IInv, [Next]_vars
                PROVE  [Ledger!Next]_<<LedgerBundle, Receipts, Failed>>
    OBVIOUS
  <2>1. IInv' BY NextKeeps
  <2>2. bundle'["marker"] = bundle["marker"] => LedgerBundle' = LedgerBundle
    <3>1. bundle["marker"] # NoObject
          => bundle["artifact"] # NoObject /\ bundle["sidecar"] # NoObject
      BY LedgerOfCommit
    <3> QED BY <3>1, StepKinds DEF LedgerBundle
  <2>3. CASE bundle'["marker"] = bundle["marker"] /\ stored' = stored
    <3>1. LedgerReceipt' = LedgerReceipt BY <2>3, StepKinds DEF LedgerReceipt
    <3> QED BY <2>2, <2>3, <3>1
  <2>4. CASE /\ bundle'["marker"] = bundle["marker"] /\ stored = "none"
             /\ stored' \in StoreErrors /\ bundle["marker"] = NoObject
    <3>1. LedgerBundle = NoObject /\ LedgerBundle' = LedgerBundle BY <2>2, <2>4 DEF LedgerBundle
    <3>2. LedgerReceipt = NoObject /\ LedgerReceipt' = NoObject
      BY <2>4 DEF LedgerReceipt, StoreErrors
    <3>3. Failed["run"] = NoObject /\ Failed' = [Failed EXCEPT !["run"] = stored']
      BY <2>4 DEF StoreErrors
    <3>4. Ledger!Fail("run")
      BY <2>4, <3>1, <3>2, <3>3
      DEF Ledger!Fail, Ledger!Pending, Ledger!Failures, StoreErrors
    <3> QED BY <3>4 DEF Ledger!Next
  <2>5. CASE /\ UNCHANGED <<bundle, file, lines, counts>>
             /\ stored = "none" /\ stored' = "receipt"
    <3>1. bundle["marker"] # NoObject
      BY <2>1, <2>5 DEF IInv, OutcomesInStep
    <3>2. LedgerBundle' = LedgerBundle /\ LedgerBundle # NoObject
      BY <2>2, <2>5, <3>1, LedgerOfCommit, CommitIsBundle
    <3>3. /\ LedgerBundle.version = "contract" /\ LedgerBundle.artifact = LedgerArtifact(file)
          /\ LedgerBundle.evidence = LedgerLines(lines)
      BY <3>1, LedgerOfCommit DEF CommitOf
    <3>4. LedgerReceipt = NoObject
          /\ LedgerReceipt' = Ledger!References(LedgerBundle)
      BY <2>5, <3>3 DEF LedgerReceipt, Ledger!References
    <3>5. Failed["run"] = NoObject /\ Failed' = Failed BY <2>5 DEF StoreErrors
    <3>6. Ledger!GiveReceipt("run")
      BY <3>2, <3>3, <3>4, <3>5 DEF Ledger!GiveReceipt, Ledger!Pending, LedgerArtifact
    <3> QED BY <3>6 DEF Ledger!Next
  <2>6. CASE /\ bundle["marker"] = NoObject /\ bundle'["marker"] = Manifest
             /\ pc = "marker" \/ "marker" \in sent
             /\ UNCHANGED <<file, lines, counts>>
             /\ stored \in {"none", "store"} /\ stored' = stored
    <3>1. LedgerBundle = NoObject BY <2>6 DEF LedgerBundle
    <3>2. LedgerBundle' = CommitOf(file, lines, counts) /\ file \in Files
      <4>1. file \in Files /\ bundle'["artifact"] = file
            /\ bundle'["sidecar"] = lines /\ lines # NoObject
        BY <2>6, MarkerReady, StepKinds
      <4>2. Manifest # NoObject
        BY <4>1, BodyFacts, BodyIsSomething DEF Parts
      <4>3. Manifest.total = Len(lines) /\ Manifest.counts = counts BY DEF Manifest
      <4> QED BY <2>6, <4>1, <4>2, <4>3 DEF LedgerBundle, CommitOf
    <3>6. LedgerBundle' \in Ledger!Bundles("run") BY <3>2, CommitIsBundle
    <3>3. LedgerReceipt = NoObject /\ LedgerReceipt' = NoObject BY <2>6 DEF LedgerReceipt
    <3>4. Ledger!Pending("run") \/ Failed["run"] = "store"
      BY <2>6, <3>3 DEF Ledger!Pending, StoreErrors
    <3>5. Ledger!Commit("run")
      BY <2>6, <3>1, <3>6, <3>3, <3>4 DEF Ledger!Commit
    <3> QED BY <3>5 DEF Ledger!Next
  <2> QED BY <2>3, <2>4, <2>5, <2>6, StepKinds
<1> QED BY <1>1, <1>2, Invariant, PTL DEF Spec, KeepsLedger, Ledger!Spec
=============================================================================
