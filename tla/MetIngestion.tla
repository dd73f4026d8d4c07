---------------------------- MODULE MetIngestion ----------------------------
(***************************************************************************)
(* One run of MetSnapshotIngestionService: download, preflight, and        *)
(* store_bundle pulling the record evidence through two generators, the    *)
(* service's counter and MetCsvEvidenceReader, out of the local CSV.       *)
(*                                                                         *)
(* MetDownload and BronzeStore model the two ends in detail; here a        *)
(* download is a whole file or an error, and store_bundle the steps that   *)
(* interleave with the reader, on a prefix no other run shares (the run ID *)
(* is in it).  Polars is external: it hands over the rows in order, in     *)
(* batches, and raises at the latest for the batch with a row it cannot    *)
(* segment.  The store's promise, BronzeLedger, is kept by the run as a    *)
(* whole.                                                                  *)
(***************************************************************************)
EXTENDS MetContract

CONSTANTS
    Files,        \* the CSV files the museum may serve: a header and rows
    Unreadable,   \* a row that Polars cannot segment
    BatchSize,    \* the most rows in one batch
    MaxLines,     \* evidence lines that fit in one conditional PUT
    NoObject      \* nothing: no file, object or result

ASSUME IngestionAssumption ==
    /\ Unreadable \notin Rows
    /\ \A f \in Files : f.rows \in Seq(Rows \cup {Unreadable})
    /\ BatchSize \in Nat /\ MaxLines \in Nat
    /\ NoObject \notin Files

VARIABLES
    pc,         \* where the run is
    file,       \* MetObjects.csv in the temporary directory
    position,   \* rows Polars has handed over
    batch,      \* those of them the reader has not turned into evidence
    seen,       \* seen_object_ids
    raised,     \* whether iter_evidence has raised MetCsvParseError
    served,     \* outcome_counts of the service
    lines,      \* evidence spooled by the store
    counts,     \* outcome counts of the store
    bundle,     \* the three objects of the prefix
    sent,       \* uploads begun
    stored,     \* what store_bundle has returned or raised
    error,      \* what the run is raising, or has raised
    result      \* what the run has returned

reader == <<position, batch, seen, raised, served>>
spool  == <<lines, counts>>
vars   == <<pc, file, reader, spool, bundle, sent, stored, error, result>>

Parts == {"artifact", "sidecar", "marker"}

PCs == Parts \cup {"download", "preflight", "snapshot", "read", "receipt",
                   "result", "cleanup", "done"}

StoreErrors == {"staging", "too_large", "store", "evidence_staging", "serialization"}

\* Those of store_bundle, AcquisitionError, MetCsvSchemaError, MetCsvParseError, and
\* an exception of no project type.
Errors == StoreErrors \cup {"acquisition", "schema", "parse", "untyped"}

\* Seeded fault: rows without an Object ID are named by the run alone.
RecordIdOfRun(id, n) == IF id # NoId THEN <<"object", id>> ELSE <<"row", 0>>

\* source_record_id: the museum's identifier, or the run's row.
RecordId(id, n) == IF id # NoId THEN <<"object", id>> ELSE <<"row", n>>

\* The first row of a file has number 2.
Line(n, id, judgement) ==
    [row |-> n + 1, record |-> RecordId(id, n + 1),
     outcome |-> judgement.outcome, messages |-> judgement.messages]

Total(tally) ==
    tally["accepted"] + tally["accepted_with_warnings"] + tally["quarantined"]
    + tally["rejected"]

\* The completion manifest.
Manifest ==
    [artifact |-> file, evidence |-> lines, total |-> Len(lines),
     counts |-> counts, messages |-> Unexpected(file.header)]

Body(part) ==
    CASE part = "artifact" -> file
      [] part = "sidecar"  -> lines
      [] part = "marker"   -> Manifest

NoTally == [o \in Outcomes |-> 0]

Init ==
    /\ pc       = "download"
    /\ file     = NoObject
    /\ position = 0
    /\ batch    = <<>>
    /\ seen     = {}
    /\ raised   = FALSE
    /\ served   = NoTally
    /\ lines    = <<>>
    /\ counts   = NoTally
    /\ bundle   = [p \in Parts |-> NoObject]
    /\ sent     = {}
    /\ stored   = "none"
    /\ error    = "none"
    /\ result   = NoObject

\* The exception passes the service on its way to the temporary directory.
Fail(kind) ==
    /\ pc' = "cleanup"
    /\ error' = kind
    /\ stored' = IF kind \in StoreErrors THEN kind ELSE stored
    /\ UNCHANGED result

Raise(kind) ==
    /\ Fail(kind)
    /\ UNCHANGED <<file, reader, spool, bundle, sent>>

GoTo(point) ==
    /\ pc' = point
    /\ UNCHANGED <<stored, error, result>>
-----------------------------------------------------------------------------
(* Before the store.                                                       *)

Download ==
    /\ pc = "download"
    /\ file' \in Files
    /\ GoTo("preflight")
    /\ UNCHANGED <<reader, spool, bundle, sent>>

\* Typed, or the OSError of the downloader's own cleanup.
DownloadFails ==
    /\ pc = "download"
    /\ Raise("acquisition") \/ Raise("untyped")

Inspect ==
    /\ pc = "preflight"
    /\ IF HeaderRefused(file.header)
         THEN Raise("schema")
         ELSE GoTo("snapshot") /\ UNCHANGED <<file, reader, spool, bundle, sent>>

InspectFails ==
    /\ pc = "preflight"
    /\ Raise("schema")

\* BronzeArtifact refuses what the server said, an empty Content-Type, or target_for
\* an unusable prefix: a ValidationError or ValueError, of no project type.
DescriptionRefused ==
    /\ pc = "snapshot"
    /\ Raise("untyped")
-----------------------------------------------------------------------------
(* store_bundle.                                                           *)

SnapshotTaken ==
    /\ pc = "snapshot"
    /\ GoTo("artifact")
    /\ UNCHANGED <<file, reader, spool, bundle, sent>>

\* The file cannot be staged, is over the ceiling, or a probe fails.
SnapshotFails ==
    /\ pc = "snapshot"
    /\ Raise("staging") \/ Raise("too_large") \/ Raise("store")

\* Seeded fault: the marker is written before the sidecar.
AfterMarkerFirst(point) ==
    CASE point = "artifact" -> "read"
      [] point = "read"     -> "marker"
      [] point = "marker"   -> "sidecar"
      [] point = "sidecar"  -> "receipt"

After(point) ==
    CASE point = "artifact" -> "read"
      [] point = "read"     -> "sidecar"
      [] point = "sidecar"  -> "marker"
      [] point = "marker"   -> "receipt"

Put(part) ==
    /\ pc = part
    /\ sent' = sent \cup {part}
    /\ bundle' = [bundle EXCEPT ![part] = Body(part)]
    /\ GoTo(After(part))
    /\ UNCHANGED <<file, reader, spool>>

\* Seeded fault: the error is logged and the next step taken.
PutErrorLogged(part) == GoTo(IF part = "artifact" THEN "read" ELSE "cleanup")

\* ObjectStoreError, or on its way out the OSError of the part's temporary file.
PutError(part) ==
    \/ Fail("store")
    \/ part = "artifact" /\ Fail("staging")
    \/ part = "sidecar" /\ Fail("evidence_staging")

\* Nothing is uploaded, or nobody knows: then the upload may still take effect.
PutFails(part) ==
    /\ pc = part
    /\ sent' \in {sent, sent \cup {part}}
    /\ PutError(part)
    /\ UNCHANGED <<file, reader, spool, bundle>>

\* Seeded fault: the sidecar's file is closed after the marker was written.
CloseFailsLate ==
    \/ pc = "read" /\ position = 0 /\ Raise("staging")
    \/ pc = "result" /\ Raise("evidence_staging")

\* The temporary file of the artifact or the sidecar cannot be closed.
CloseFails ==
    \/ pc = "read" /\ position = 0 /\ Raise("staging")
    \/ pc = "marker" /\ Raise("evidence_staging")

ReturnReceipt ==
    /\ pc = "receipt"
    /\ pc' = "result"
    /\ stored' = "receipt"
    /\ UNCHANGED <<file, reader, spool, bundle, sent, error, result>>
-----------------------------------------------------------------------------
(* The generators, pulled by the store one item at a time.                 *)

\* Seeded fault: every batch is taken for a full one.
RowsReadFull(n) == position + BatchSize

RowsRead(n) == position + n

\* Seeded fault: each batch looks for duplicates among its own rows.
SeenBeforeForgotten == {}

\* seen_object_ids outlives the batch.
SeenBefore == seen

NextBatch ==
    /\ pc = "read" /\ batch = <<>>
    /\ \E n \in 1..BatchSize :
         /\ position + n <= Len(file.rows)
         /\ \A i \in position + 1..position + n : file.rows[i] # Unreadable
         /\ batch' = SubSeq(file.rows, position + 1, position + n)
         /\ position' = RowsRead(n)
    /\ seen' = SeenBefore
    /\ GoTo("read")
    /\ UNCHANGED <<file, raised, served, spool, bundle, sent>>

\* Seeded fault: a reader that fails looks like one that ends.
ReadErrorIsEnd == GoTo("sidecar")

\* MetCsvParseError, which the store's evidence loop catches like any exception it
\* does not know, unless closing the spool raises on its way out.
ReadError == Fail("serialization") \/ Fail("evidence_staging")

ReadFails ==
    /\ pc = "read" /\ batch = <<>>
    /\ raised' = TRUE
    /\ ReadError
    /\ UNCHANGED <<file, position, batch, seen, served, spool, bundle, sent>>

ReadEnds ==
    /\ pc = "read" /\ batch = <<>>
    /\ position = Len(file.rows)
    /\ GoTo(After("read"))
    /\ UNCHANGED <<file, reader, spool, bundle, sent>>

\* The evidence of the first row of the batch.
Evidence ==
    LET row == Head(batch)
        id  == ObjectId(row.object_id)
    IN  Line(position - Len(batch) + 1, id,
             IF id \in seen THEN Duplicate ELSE Validate(row))

Count(tally, line) == [tally EXCEPT ![line.outcome] = @ + 1]

\* Seeded fault: the service does not count what the contract rejects.
CountServedAccepted(line) ==
    IF line.outcome = "rejected" THEN served ELSE Count(served, line)

CountServed(line) == Count(served, line)

\* The reader remembers the Object ID, and the service counts the item before it
\* hands it on.
Pull ==
    /\ pc = "read" /\ batch # <<>>
    /\ seen' = seen \cup ({ObjectId(Head(batch).object_id)} \ {NoId})
    /\ batch' = Tail(batch)
    /\ served' = CountServed(Evidence)
    /\ UNCHANGED <<file, position, raised, bundle, sent>>

SpoolLine ==
    /\ Pull
    /\ Len(lines) < MaxLines
    /\ lines' = Append(lines, Evidence)
    /\ counts' = Count(counts, Evidence)
    /\ UNCHANGED <<pc, stored, error, result>>

LineTooLarge ==
    /\ Pull
    /\ Len(lines) = MaxLines
    /\ Fail("too_large")
    /\ UNCHANGED spool

\* The spool cannot be written, or the item not be built or serialized.
LineFails ==
    /\ Pull
    /\ Fail("evidence_staging") \/ Fail("serialization")
    /\ UNCHANGED spool
-----------------------------------------------------------------------------
(* The result, and the end of the temporary directory.                     *)

Result ==
    [total |-> Total(served), counts |-> served, messages |-> Unexpected(file.header)]

BuildResult ==
    /\ pc = "result"
    /\ pc' = "cleanup"
    /\ result' = Result
    /\ UNCHANGED <<file, reader, spool, bundle, sent, stored, error>>

Cleanup ==
    /\ pc = "cleanup"
    /\ GoTo("done")
    /\ UNCHANGED <<file, reader, spool, bundle, sent>>

\* The directory cannot be removed: its OSError takes the place of whatever was on
\* its way, the result included.
CleanupFails ==
    /\ pc = "cleanup"
    /\ pc' = "done"
    /\ error' = "untyped"
    /\ result' = NoObject
    /\ UNCHANGED <<file, reader, spool, bundle, sent, stored>>

\* An upload that was given up takes effect (external).
Lands(part) ==
    /\ part \in sent
    /\ bundle[part] = NoObject
    /\ bundle' = [bundle EXCEPT ![part] = Body(part)]
    /\ UNCHANGED <<pc, file, reader, spool, sent, stored, error, result>>

Finished == pc = "done" /\ UNCHANGED vars
-----------------------------------------------------------------------------
Acquire ==
    \/ Download \/ DownloadFails
    \/ Inspect \/ InspectFails \/ DescriptionRefused

Store ==
    \/ SnapshotTaken \/ SnapshotFails \/ CloseFails \/ ReturnReceipt
    \/ \E part \in Parts : Put(part) \/ PutFails(part)

Read ==
    NextBatch \/ ReadFails \/ ReadEnds \/ SpoolLine \/ LineTooLarge \/ LineFails

Next ==
    \/ Acquire \/ Store \/ Read \/ BuildResult \/ Cleanup \/ CleanupFails
    \/ \E part \in Parts : Lands(part)
    \/ Finished

Spec == Init /\ [][Next]_vars
-----------------------------------------------------------------------------
(* What the documents promise of a file, without batches and without state.*)

IsId(cell) == cell.text = "number" /\ cell.value \in Nat \ {0}

\* The evidence of row i: quarantined without an Object ID, rejected if an earlier
\* row has the same, and judged by the contract otherwise.
EvidenceOf(rows, i) ==
    LET row == rows[i]
        repeated == \E j \in 1..i - 1 : /\ IsId(rows[j].object_id)
                                        /\ rows[j].object_id.value = row.object_id.value
    IN  IF ~ IsId(row.object_id) THEN Line(i, NoId, Validate(row))
        ELSE Line(i, row.object_id.value, IF repeated THEN Duplicate ELSE Validate(row))

Reference(rows) == [i \in DOMAIN rows |-> EvidenceOf(rows, i)]

Readable(rows) == \A i \in DOMAIN rows : rows[i] # Unreadable

CountOf(evidence, o) == Cardinality({i \in DOMAIN evidence : evidence[i].outcome = o})
-----------------------------------------------------------------------------
(* Properties.                                                             *)

TypeOK ==
    /\ pc       \in PCs
    /\ file     \in Files \cup {NoObject}
    /\ position \in 0..(IF file = NoObject THEN 0 ELSE Len(file.rows))
    /\ Len(batch) <= BatchSize
    /\ \A i \in DOMAIN batch : batch[i] \in Rows
    /\ seen     \subseteq Nat \ {0}
    /\ raised   \in BOOLEAN
    /\ served   \in [Outcomes -> Nat]
    /\ Len(lines) <= MaxLines
    /\ \A i \in DOMAIN lines : lines[i].outcome \in Outcomes
    /\ counts   \in [Outcomes -> Nat]
    /\ DOMAIN bundle = Parts
    /\ sent     \subseteq Parts
    /\ stored   \in StoreErrors \cup {"none", "receipt"}
    /\ error    \in Errors \cup {"none"}

\* However the rows fall into batches, the evidence is that of the file so far, row
\* by row: the first of the rows with an Object ID is judged, and only it.
EvidenceIsTheFiles ==
    \A i \in DOMAIN lines : lines[i] = EvidenceOf(file.rows, i)

\* Evidence that is not rejected names its record uniquely, which is what a reader
\* of the sidecar joins on.
RecordsDistinct ==
    \A i, j \in DOMAIN lines :
        /\ i # j
        /\ "rejected" \notin {lines[i].outcome, lines[j].outcome}
        => lines[i].record # lines[j].record

\* A sidecar is only ever uploaded for a file that was read to its end, and has the
\* evidence of every row: a reader that fails does not look like one that ends.
SidecarCoversFile ==
    bundle["sidecar"] # NoObject =>
        /\ Readable(file.rows)
        /\ bundle["sidecar"] = Reference(file.rows)

\* A committed bundle is the unchanged download, evidence of all of its rows, and
\* counts of that evidence, for a header the contract accepts.
CommitCoversFile ==
    bundle["marker"] # NoObject =>
        LET manifest == bundle["marker"] IN
        /\ bundle["artifact"] = file /\ manifest.artifact = file
        /\ ~ HeaderRefused(file.header)
        /\ bundle["sidecar"] = Reference(file.rows)
        /\ manifest.evidence = Reference(file.rows)
        /\ manifest.total = Len(file.rows)
        /\ \A o \in Outcomes : manifest.counts[o] = CountOf(Reference(file.rows), o)

\* The counts a run returns, taken by a generator in the middle, are those of the
\* manifest it committed.
ResultIsTheManifests ==
    result # NoObject =>
        /\ bundle["marker"] # NoObject
        /\ result.total = bundle["marker"].total
        /\ result.counts = bundle["marker"].counts
        /\ result.messages = bundle["marker"].messages

\* A run that raised a typed error other than the store's has not committed and no
\* longer can; nor has one that raised anything else, unless it took the place of
\* a result or of the store's error.
TypedFailureUncommitted ==
    \/ error \notin {"none", "store", "untyped"}
    \/ error = "untyped" /\ stored \notin {"receipt", "store"}
    => bundle["marker"] = NoObject /\ "marker" \notin sent

\* Of the evidence, the ledger sees the outcomes, in order.
LedgerLines(evidence) ==
    [i \in DOMAIN evidence |-> [version |-> "contract", outcome |-> evidence[i].outcome]]

LedgerArtifact(body) == [key |-> "source.csv", body |-> body]

LedgerBundle ==
    IF bundle["marker"] = NoObject THEN NoObject
    ELSE [by       |-> "run",
          version  |-> "contract",
          artifact |-> LedgerArtifact(bundle["artifact"]),
          evidence |-> IF bundle["sidecar"] = NoObject THEN NoObject
                       ELSE LedgerLines(bundle["sidecar"]),
          total    |-> bundle["marker"].total,
          counts   |-> bundle["marker"].counts]

LedgerReceipt ==
    IF stored # "receipt" THEN NoObject
    ELSE [artifact |-> LedgerArtifact(file), evidence |-> LedgerLines(lines)]

\* A whole run, reader and all, keeps the ledger's promise of store_bundle, though
\* what the promise is about comes out of generators and what the caller sees may
\* be another error.
Ledger == INSTANCE BronzeLedger WITH
    Calls     <- {"run"},
    Contents  <- Files,
    Oversized <- {},
    Checksum  <- [w \in {"run"} |-> NoObject],
    Extension <- [w \in {"run"} |-> "source.csv"],
    Version   <- [w \in {"run"} |-> "contract"],
    NoValue   <- NoObject,
    bundle    <- LedgerBundle,
    receipt   <- [w \in {"run"} |-> LedgerReceipt],
    failure   <- [w \in {"run"} |-> IF stored \in StoreErrors THEN stored ELSE NoObject]
KeepsLedger == Ledger!Spec

\* The design says that a parse error is told apart from storage failures, where no
\* file that cannot be closed or removed puts an error in its place.
ParseErrorsAreTyped ==
    raised /\ pc = "done" => error \in {"parse", "evidence_staging", "untyped"}
-----------------------------------------------------------------------------
(* The inductive invariant.                                                *)

\* What a sidecar, a completion manifest and a bundle of the ledger are made of.
Messages      == [rule : {"missing_recommended_value", "invalid_public_domain_value",
                          "invalid_metadata_date", "invalid_object_id", "duplicate_object_id"},
                  field : RecommendedValueFields \cup {"Object ID", "Is Public Domain"}]
EvidenceLines == [row : Nat, record : {"object", "row"} \X Nat, outcome : Outcomes,
                  messages : SUBSET Messages]
Counts        == [Outcomes -> Nat]
HeaderNotes   == {Unexpected(f.header) : f \in Files}
Manifests     == [artifact : Files, evidence : Seq(EvidenceLines), total : Nat,
                  counts : Counts, messages : HeaderNotes]
LedgerBundles == [by : {"run"}, version : {"contract"},
                  artifact : [key : {"source.csv"}, body : Files],
                  evidence : Seq([version : {"contract"}, outcome : Outcomes]),
                  total : Nat, counts : Counts]

ASSUME NothingAssumption ==
    NoObject \notin Seq(EvidenceLines) \cup Manifests \cup LedgerBundles

Underway == PCs \ {"cleanup", "done"}
Early    == {"download", "preflight", "snapshot", "artifact"}
Late     == {"sidecar", "marker", "receipt", "result"}

\* Rows turned into evidence, kept or not.
Handed == position - Len(batch)

\* The reader holds the rows that follow those, and remembers their Object IDs.
ReaderInStep ==
    /\ batch \in Seq(Rows) /\ Len(batch) <= position
    /\ \A i \in 1..position : file.rows[i] \in Rows
    /\ \A i \in DOMAIN batch : batch[i] = file.rows[Handed + i]
    /\ seen = {file.rows[i].object_id.value :
                 i \in {j \in 1..Handed : IsId(file.rows[j].object_id)}}

\* The store and the service count the same lines, until one is lost.
SpoolInStep ==
    /\ lines \in Seq(EvidenceLines)
    /\ Len(lines) <= Handed
    /\ pc \in Underway => Len(lines) = Handed /\ served = counts
    /\ \A o \in Outcomes : counts[o] = CountOf(lines, o)
    /\ Total(counts) = Len(lines)

\* The file is there from the preflight on, and the store only sees accepted ones.
FileInspected ==
    /\ pc \in Underway \ {"download"} => file \in Files
    /\ pc \in {"snapshot", "artifact", "read"} \cup Late \/ sent # {} =>
         file \in Files /\ ~ HeaderRefused(file.header)

\* Uploads are begun in order, each after the one before it is there.
SentInOrder ==
    /\ pc \in Early => sent = {} /\ position = 0
    /\ pc \in {"read", "sidecar"} => sent = {"artifact"} /\ bundle["artifact"] # NoObject
    /\ pc = "marker" => sent = {"artifact", "sidecar"} /\ bundle["sidecar"] # NoObject
    /\ pc \in {"receipt", "result"} => bundle["marker"] # NoObject
    /\ "sidecar" \in sent => bundle["artifact"] # NoObject
    /\ "marker" \in sent => bundle["sidecar"] # NoObject

\* No upload but the artifact's is begun before the reader has reached the end.
ReadToTheEnd ==
    pc \in Late \/ "sidecar" \in sent \/ "marker" \in sent =>
        /\ pc \notin Early \cup {"read"}
        /\ position = Len(file.rows) /\ Len(lines) = position

ObjectsAreBodies ==
    \A part \in Parts : bundle[part] # NoObject => part \in sent /\ bundle[part] = Body(part)

\* What the store has returned or raised, and what that says of the marker.
OutcomesInStep ==
    /\ pc \in Underway => error = "none" /\ result = NoObject
    /\ pc \in Underway \ {"result"} => stored = "none"
    /\ pc = "result" => stored = "receipt"
    /\ pc = "cleanup" /\ error = "none" => stored = "receipt"
    /\ pc = "cleanup" /\ error = "store" => stored = "store"
    /\ stored = "receipt" => bundle["marker"] # NoObject
    /\ "marker" \in sent /\ bundle["marker"] = NoObject => stored = "store"

IInv ==
    /\ TypeOK
    /\ ReaderInStep
    /\ SpoolInStep
    /\ EvidenceIsTheFiles
    /\ FileInspected
    /\ SentInOrder
    /\ ReadToTheEnd
    /\ ObjectsAreBodies
    /\ OutcomesInStep
    /\ ResultIsTheManifests
    /\ TypedFailureUncommitted
=============================================================================
