----------------------------- MODULE BronzeStore -----------------------------
(***************************************************************************)
(* MinioBronzeArtifactStore.store_bundle, called concurrently for one      *)
(* bundle prefix.  A call copies the acquisition file into a snapshot it   *)
(* hashes, probes the three keys, creates the artifact, consumes the       *)
(* record evidence and creates the sidecar, and creates the completion     *)
(* marker last.  The acquisition file belongs to somebody else and may     *)
(* change at any time.                                                     *)
(*                                                                         *)
(* Each create is put_object_if_absent, of which this module uses exactly  *)
(* the promise CreateOnce states: an upload that was begun may land any    *)
(* time the key is free, even after the call has been told it failed.      *)
(* A crash of a caller is a call that takes no further step.               *)
(***************************************************************************)
EXTENDS BronzeBundles

CONSTANT Edited   \* the calls whose acquisition file somebody may edit

VARIABLES
    local,      \* what each acquisition file holds, NoValue when there is none
    pc,         \* where each call is
    at,         \* the part each call is probing or writing
    snapshot,   \* the bytes each call hashed
    lines,      \* the evidence each call has spooled
    total,      \* total_records
    counts,     \* outcome_counts
    outcome,    \* what each call has returned or raised
    sent,       \* the uploads begun: pairs of a call and a part
    store       \* the objects under the prefix

spool == <<snapshot, lines, total, counts>>
vars  == <<local, pc, at, snapshot, lines, total, counts, outcome, sent, store>>

PCs == {"start", "snapshot", "probe", "put", "wait", "evidence", "done"}

Failures == {"not_found", "too_large", "integrity", "staging", "evidence_staging",
             "exists", "store", "serialization"}

TypeOK ==
    /\ local    \in [Calls -> Contents \cup {NoValue}]
    /\ pc       \in [Calls -> PCs]
    /\ at       \in [Calls -> Parts]
    /\ snapshot \in [Calls -> Contents \cup {NoValue}]
    /\ lines    \in [Calls -> Seq(Lines)] /\ \A w \in Calls : Len(lines[w]) <= MaxLines
    /\ total    \in [Calls -> Nat]
    /\ counts   \in [Calls -> [Outcomes -> Nat]]
    /\ outcome  \in [Calls -> Failures \cup {"none", "receipt"}]
    /\ sent     \subseteq Calls \X Parts
    /\ DOMAIN store = Keys
    /\ \A k \in Extensions : store[k] \in Objects(Contents) \cup {NoObject}
    /\ store["records.manifest.jsonl"] \in Objects(Seq(Lines)) \cup {NoObject}
    /\ store["_SUCCESS.json"] \in Objects(Manifests) \cup {NoObject}

Init ==
    /\ local    \in [Calls -> Contents \cup {NoValue}]
    /\ pc       = [w \in Calls |-> "start"]
    /\ at       = [w \in Calls |-> Artifact]
    /\ snapshot = [w \in Calls |-> NoValue]
    /\ lines    = [w \in Calls |-> <<>>]
    /\ total    = [w \in Calls |-> 0]
    /\ counts   = [w \in Calls |-> [o \in Outcomes |-> 0]]
    /\ outcome  = [w \in Calls |-> "none"]
    /\ sent     = {}
    /\ store    = [k \in Keys |-> NoObject]
-----------------------------------------------------------------------------
(* Raising and returning.                                                  *)

Finish(w, o) ==
    /\ pc' = [pc EXCEPT ![w] = "done"]
    /\ outcome' = [outcome EXCEPT ![w] = o]

Raise(w, error) ==
    /\ Finish(w, error)
    /\ UNCHANGED <<local, at, spool, sent, store>>

GoTo(w, point, part) ==
    /\ pc' = [pc EXCEPT ![w] = point]
    /\ at' = [at EXCEPT ![w] = part]
    /\ UNCHANGED outcome

\* A file that is edited while it is read yields any mixture.
ReadFrom(w) == IF w \in Edited THEN Contents ELSE {local[w]}

\* The completion manifest of a call.
Manifest(w) ==
    [version  |-> Version[w],
     artifact |-> [key |-> Extension[w], body |-> snapshot[w]],
     evidence |-> lines[w],
     total    |-> total[w],
     counts   |-> counts[w]]
-----------------------------------------------------------------------------
(* Taking the snapshot.                                                    *)

FileMissing(w) ==
    /\ pc[w] = "start"
    /\ local[w] = NoValue
    /\ Raise(w, "not_found")

FileFound(w) ==
    /\ pc[w] = "start"
    /\ local[w] # NoValue
    /\ GoTo(w, "snapshot", Artifact)
    /\ UNCHANGED <<local, spool, sent, store>>

\* Seeded fault: expected_sha256 is not compared.
ExpectedAny(w, content) == TRUE

Expected(w, content) == Checksum[w] \in {NoValue, content}

\* Read, count and hash the file; too long or not what the caller expected ends
\* the call before anything is uploaded.
TakeSnapshot(w) ==
    /\ pc[w] = "snapshot"
    /\ local[w] # NoValue
    /\ \E content \in ReadFrom(w) :
         /\ snapshot' = [snapshot EXCEPT ![w] = content]
         /\ IF content \in Oversized
              THEN Finish(w, "too_large") /\ UNCHANGED at
            ELSE IF ~ Expected(w, content)
              THEN Finish(w, "integrity") /\ UNCHANGED at
              ELSE GoTo(w, "probe", Artifact)
    /\ UNCHANGED <<local, lines, total, counts, sent, store>>

\* The file is gone when it is opened, or it or the temporary file cannot be
\* read, written or (before the upload) rewound: ArtifactStagingError.
StagingFails(w) ==
    /\ \/ pc[w] = "snapshot"
       \/ pc[w] = "put" /\ at[w] = Artifact
    /\ Raise(w, "staging")
-----------------------------------------------------------------------------
(* The advisory checks: one HEAD request per key.                          *)

ProbeFinds(w) ==
    /\ pc[w] = "probe"
    /\ store[Key(w, at[w])] # NoObject
    /\ Raise(w, "exists")

\* Seeded fault: the probes stop too early.
LastProbeEarly == Artifact

LastProbe == Marker

ProbeFindsNothing(w) ==
    /\ pc[w] = "probe"
    /\ store[Key(w, at[w])] = NoObject
    /\ IF at[w] = LastProbe
         THEN GoTo(w, "put", Artifact)
         ELSE GoTo(w, "probe", at[w] + 1)
    /\ UNCHANGED <<local, spool, sent, store>>

ProbeFails(w) ==
    /\ pc[w] = "probe"
    /\ Raise(w, "store")
-----------------------------------------------------------------------------
(* One conditional create, and what the call does with its result.         *)

\* Seeded fault: the artifact is uploaded from the file.
ArtifactBodyFromFile(w) == local[w]

\* The artifact is uploaded from the snapshot.
ArtifactBody(w) == snapshot[w]

\* The stream handed to put_object_if_absent for each part.
Body(w, part) ==
    CASE part = Artifact -> ArtifactBody(w)
      [] part = Evidence -> lines[w]
      [] part = Marker   -> Manifest(w)

Put(w) ==
    /\ pc[w] = "put"
    /\ sent' = sent \cup {<<w, at[w]>>}
    /\ GoTo(w, "wait", at[w])
    /\ UNCHANGED <<local, spool, store>>

\* Seeded fault: whatever is there is taken for this call's.
HoldsThisAny(w) == store[Key(w, at[w])] # NoObject

\* The key holds this payload.
HoldsThis(w) ==
    /\ store[Key(w, at[w])] # NoObject
    /\ store[Key(w, at[w])].body = Body(w, at[w])

\* Seeded fault: with the artifact uploaded the prefix is probed once more.
PutSucceedsProbesAgain(w) ==
    /\ pc[w] = "wait"
    /\ HoldsThis(w)
    /\ IF at[w] = Marker THEN Finish(w, "receipt") /\ UNCHANGED at
                         ELSE GoTo(w, "probe", Artifact)
    /\ UNCHANGED <<local, spool, sent, store>>

\* The next step of the protocol, the marker last.
PutSucceeds(w) ==
    /\ pc[w] = "wait"
    /\ HoldsThis(w)
    /\ CASE at[w] = Artifact -> GoTo(w, "evidence", Evidence)
         [] at[w] = Evidence -> GoTo(w, "put", Marker)
         [] at[w] = Marker   -> Finish(w, "receipt") /\ UNCHANGED at
    /\ UNCHANGED <<local, spool, sent, store>>

\* Somebody else's object: ObjectAlreadyExistsError.
PutCollides(w) ==
    /\ pc[w] = "wait"
    /\ store[Key(w, at[w])] # NoObject
    /\ store[Key(w, at[w])].by # w
    /\ Raise(w, "exists")

\* Seeded fault: the failure of the sidecar is swallowed.
PutErrorSwallowed(w) ==
    IF at[w] # Evidence THEN Raise(w, "store")
    ELSE GoTo(w, "put", Marker) /\ UNCHANGED <<local, spool, sent, store>>

\* Seeded fault: a failed part is put again, without end.
PutErrorRetried(w) ==
    GoTo(w, "put", at[w]) /\ UNCHANGED <<local, spool, sent, store>>

PutError(w) == Raise(w, "store")

\* ConditionalPutError: ObjectStoreError.
PutFails(w) ==
    /\ pc[w] = "wait"
    /\ PutError(w)

\* Seeded fault: the marker's stream is closed under the same handler.
SpooledAll == Parts

Spooled == {Artifact, Evidence}

\* Closing the temporary file of the artifact or the sidecar raises OSError, and
\* takes the place of whatever the probe or the upload came to.
CloseFails(w) ==
    /\ \/ pc[w] = "probe"
       \/ pc[w] = "wait" /\ at[w] \in Spooled
    /\ Raise(w, IF pc[w] = "wait" /\ at[w] # Artifact THEN "evidence_staging"
                                                     ELSE "staging")

\* The completion manifest itself does not fit in a single PUT.
ManifestTooLarge(w) ==
    /\ pc[w] = "put" /\ at[w] = Marker
    /\ Raise(w, "too_large")
-----------------------------------------------------------------------------
(* Consuming the evidence, one item at a time, into a spooled file.        *)

\* Seeded fault: the items are not validated.
ItemsAny(w) == Lines

Items(w) == {line \in Lines : line.version = Version[w]}

\* Seeded fault: the line that crosses the ceiling is spooled.
FitsOneMore(w) == Len(lines[w]) <= MaxLines

\* With one more line the sidecar fits in a single PUT.
Fits(w) == Len(lines[w]) < MaxLines

EvidenceItem(w) ==
    /\ pc[w] = "evidence"
    /\ Fits(w)
    /\ \E line \in Items(w) :
         /\ lines' = [lines EXCEPT ![w] = Append(@, line)]
         /\ counts' = [counts EXCEPT ![w][line.outcome] = @ + 1]
    /\ total' = [total EXCEPT ![w] = @ + 1]
    /\ UNCHANGED <<local, pc, at, snapshot, outcome, sent, store>>

EvidenceTooLarge(w) ==
    /\ pc[w] = "evidence"
    /\ ~ Fits(w)
    /\ Raise(w, "too_large")

\* An item of another source, run or version, one that does not serialize, or
\* any error of the iterable but an OSError: ManifestSerializationError.
EvidenceRefused(w) ==
    /\ pc[w] = "evidence"
    /\ Raise(w, "serialization")

EvidenceSpoolFails(w) ==
    /\ pc[w] = "evidence"
    /\ Raise(w, "evidence_staging")

EvidenceEnds(w) ==
    /\ pc[w] = "evidence"
    /\ GoTo(w, "put", Evidence)
    /\ UNCHANGED <<local, spool, sent, store>>
-----------------------------------------------------------------------------
(* The object store and the owner of the acquisition files (external).     *)

\* An upload takes effect.
Lands(w, part) ==
    /\ <<w, part>> \in sent
    /\ store[Key(w, part)] = NoObject
    /\ store' = [store EXCEPT ![Key(w, part)] = [body |-> Body(w, part), by |-> w]]
    /\ UNCHANGED <<local, pc, at, spool, outcome, sent>>

EditFile(w) ==
    /\ w \in Edited
    /\ \E c \in Contents \cup {NoValue} : local' = [local EXCEPT ![w] = c]
    /\ UNCHANGED <<pc, at, spool, outcome, sent, store>>
-----------------------------------------------------------------------------
Snapshot(w) ==
    FileMissing(w) \/ FileFound(w) \/ TakeSnapshot(w) \/ StagingFails(w)

Probe(w) == ProbeFinds(w) \/ ProbeFindsNothing(w) \/ ProbeFails(w)

PutPart(w) ==
    \/ Put(w) \/ ManifestTooLarge(w)
    \/ PutSucceeds(w) \/ PutCollides(w) \/ PutFails(w) \/ CloseFails(w)

WriteEvidence(w) ==
    \/ EvidenceItem(w)
    \/ EvidenceTooLarge(w)
    \/ EvidenceRefused(w)
    \/ EvidenceSpoolFails(w)
    \/ EvidenceEnds(w)

StoreBundle(w) == Snapshot(w) \/ Probe(w) \/ PutPart(w) \/ WriteEvidence(w)

Finished ==
    /\ \A w \in Calls : pc[w] = "done"
    /\ UNCHANGED vars

Next ==
    \/ \E w \in Calls : StoreBundle(w) \/ EditFile(w)
    \/ \E w \in Calls, part \in Parts : Lands(w, part)
    \/ Finished

Spec == Init /\ [][Next]_vars

\* A call is ordinary sequential code over bounded requests: it keeps moving.
FairSpec == Spec /\ \A w \in Calls : WF_vars(StoreBundle(w))
-----------------------------------------------------------------------------
(* Properties.                                                             *)

Success == store["_SUCCESS.json"]
Records == store["records.manifest.jsonl"]

\* What a key holds, NoValue when it holds nothing.
Held(k) == IF store[k] = NoObject THEN NoValue ELSE store[k].body

\* A prefix with a completion marker is a whole bundle: the artifact and the
\* sidecar the marker references are stored with the digests it gives, and its
\* counts are those of the stored sidecar.
CommittedBundleComplete ==
    Success # NoObject =>
        LET manifest == Success.body IN
        /\ Held(manifest.artifact.key) = manifest.artifact.body
        /\ Held("records.manifest.jsonl") = manifest.evidence
        /\ manifest.total = Len(manifest.evidence)
        /\ \A o \in Outcomes : manifest.counts[o] = CountOf(manifest.evidence, o)

\* A receipt is only returned for a committed bundle, and references what that
\* bundle holds, whichever call created its objects.
ReceiptMeansCommitted ==
    \A w \in Calls : outcome[w] = "receipt" =>
        /\ Held("_SUCCESS.json") = Manifest(w)
        /\ Held(Extension[w]) = snapshot[w]
        /\ Held("records.manifest.jsonl") = lines[w]

\* A call that raised anything but an object-store error did not commit, and no
\* upload of its marker can still do so behind its back.
OnlyStoreErrorsLeaveDoubt ==
    \A w \in Calls : outcome[w] \in Failures \ {"store"} =>
        IF Success = NoObject THEN <<w, Marker>> \notin sent ELSE Success.by # w

\* Calls never knock each other out of a prefix with ObjectAlreadyExistsError: when
\* one is refused, some call that holds an object of the prefix is not, whichever
\* artifact keys they have and in whatever order their uploads land.
CollisionsNotMutual ==
    (\E w \in Calls : outcome[w] = "exists") =>
        \E k \in Keys : store[k] # NoObject /\ outcome[store[k].by] # "exists"

\* Every artifact stored is one its creator hashed and verified, whatever has
\* become of the acquisition file since.
StoredArtifactsVerified ==
    \A k \in Extensions : store[k] # NoObject =>
        /\ store[k].body = snapshot[store[k].by]
        /\ Verified(store[k].by, store[k].body)

\* A call that starts on a committed prefix adds no object to it, not even under
\* an artifact key of its own.
LateCallsAddNothing ==
    \A w \in Calls :
        [](pc[w] = "start" /\ Success # NoObject
             => [](\A k \in Keys : store[k] # NoObject => store[k].by # w))

\* What the prefix and its calls amount to in the ledger: the bundle is read
\* through the references of the marker.
LedgerBundle ==
    IF Success = NoObject THEN NoObject
    ELSE [by       |-> Success.by,
          version  |-> Success.body.version,
          artifact |-> [key  |-> Success.body.artifact.key,
                        body |-> Held(Success.body.artifact.key)],
          evidence |-> Held("records.manifest.jsonl"),
          total    |-> Success.body.total,
          counts   |-> Success.body.counts]

LedgerReceipt ==
    [w \in Calls |->
        IF outcome[w] # "receipt" THEN NoValue
        ELSE [artifact |-> [key |-> Extension[w], body |-> snapshot[w]],
              evidence |-> lines[w]]]

LedgerFailure ==
    [w \in Calls |-> IF outcome[w] \in Failures THEN outcome[w] ELSE NoValue]

\* The prefix and the calls implement the ledger: one atomic, final commit.
Ledger == INSTANCE BronzeLedger WITH
    bundle  <- LedgerBundle,
    receipt <- LedgerReceipt,
    failure <- LedgerFailure
KeepsLedger == Ledger!Spec

\* Every call returns or raises.
EveryCallReturns == \A w \in Calls : <>(pc[w] = "done")

\* "The failed prefix is auditable and cannot be mistaken for a committed bundle"
\* (bronze-artifact-storage-design.md:205), which the code does not keep: the
\* marker may have been written by the call that reports its failure.
FailedRunUncommitted ==
    \A w \in Calls :
        outcome[w] \in Failures /\ Success # NoObject => Success.by # w
-----------------------------------------------------------------------------
(* The inductive invariant.                                                *)

Holds(k, body) == store[k] # NoObject /\ store[k].body = body

OutcomesMatchControl == \A w \in Calls : outcome[w] = "none" <=> pc[w] # "done"

\* What a call has spooled is its own, and is counted right.
SpoolCounted ==
    \A w \in Calls :
        /\ \A i \in DOMAIN lines[w] : lines[w][i].version = Version[w]
        /\ total[w] = Len(lines[w])
        /\ \A o \in Outcomes : counts[w][o] = CountOf(lines[w], o)

\* The parts are uploaded in order, each when the call is at it.
SentInOrder ==
    \A w \in Calls, part \in Parts : <<w, part>> \in sent =>
        /\ part <= at[w]
        /\ \/ pc[w] \in {"wait", "done"}
           \/ pc[w] = "evidence" /\ part = Artifact
           \/ pc[w] = "put" /\ part < at[w]

\* A call goes on, and uploads, only with bytes that passed its checks.
SnapshotVerified ==
    \A w \in Calls :
        pc[w] \in {"probe", "put", "wait", "evidence"} \/ (\E part \in Parts : <<w, part>> \in sent)
        => snapshot[w] \in Contents /\ Verified(w, snapshot[w])

\* Whether the call has got as far as writing the part, or tried to.
Reached(w, part) ==
    <<w, part>> \in sent \/ (pc[w] \in {"put", "wait"} /\ part <= at[w])

\* No part is written before the call has seen the ones before it stored.
EarlierPartsHeld ==
    \A w \in Calls :
        /\ pc[w] = "evidence" \/ Reached(w, Evidence) \/ Reached(w, Marker)
           => Holds(Extension[w], snapshot[w])
        /\ Reached(w, Marker) => Holds("records.manifest.jsonl", lines[w])

\* Every object is an upload of its creator, still as the creator has it.
ObjectsAreUploads ==
    \A k \in Keys : store[k] # NoObject =>
        \E part \in Parts : /\ k = Key(store[k].by, part)
                            /\ <<store[k].by, part>> \in sent
                            /\ store[k].body = Body(store[k].by, part)

\* A call that has its receipt saw its own bundle under all three keys.
ReceiptsHeld ==
    \A w \in Calls : outcome[w] = "receipt" =>
        /\ Holds("_SUCCESS.json", Manifest(w))
        /\ Holds(Extension[w], snapshot[w])
        /\ Holds("records.manifest.jsonl", lines[w])

\* What ObjectAlreadyExistsError blames, at the part the call is at, is another's.
BlamesForeign ==
    \A w \in Calls : outcome[w] = "exists" =>
        store[Key(w, at[w])] # NoObject /\ store[Key(w, at[w])].by # w

IInv ==
    /\ TypeOK
    /\ OutcomesMatchControl
    /\ SpoolCounted
    /\ SentInOrder
    /\ SnapshotVerified
    /\ EarlierPartsHeld
    /\ ObjectsAreUploads
    /\ ReceiptsHeld
    /\ OnlyStoreErrorsLeaveDoubt
    /\ BlamesForeign
=============================================================================
