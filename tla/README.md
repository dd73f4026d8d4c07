# A TLA+ verification of evidence-cartographer

The repository acquires museum snapshots, keeps each of them unchanged with the
evidence of its validation in an object store ("Bronze"), and never overwrites
anything there. What is hard about it is not the row rules but the commit
protocol: three objects written over an unreliable network, by callers that may
race, die or be told the wrong thing, must read as one bundle or as none. These
modules model that protocol and the acquisition before it, TLC checks them on
small instances, and TLAPS proves every invariant, action property and refinement the
passing runs check, for every instance. Liveness alone is left to TLC.

All paths below are relative to `src/src/evidence_cartographer/` unless they
start with `src/`.

## The system

| Component | State it keeps | Operations | Talks to |
|---|---|---|---|
| Conditional object client (`infrastructure/conditional_object_client.py`) | per call: attempt, stream position, `had_ambiguous_attempt` | `put_object_if_absent`, `stat_object` | S3/MinIO over urllib3: PUT with `If-None-Match: *`, HEAD |
| Bronze bundle store (`infrastructure/minio_bronze.py`, `application/bronze.py`) | per call: snapshot, spooled evidence, counts; the three objects of a prefix | `store_bundle`, `target_for` | the client (3 HEADs, 3 creates), the local file, the caller's evidence iterable |
| Object keys (`infrastructure/object_keys.py`) | none | `build_bronze_object_keys` | bundle store (`target_for` and `store_bundle` both call it) |
| Met downloader (`sources/met/download.py`) and HTTP client (`infrastructure/http.py`) | per call: attempt, redirects, digest; `MetObjects.csv.part`, `MetObjects.csv` | `download`, `download_if_changed`, `open` | the museum's server, the directory, the retry decider |
| Met CSV reader (`sources/met/csv.py`) | seen Object IDs, row numbers | `iter_evidence` | the local CSV, the row contract; consumed lazily by the bundle store |
| Met row contract and preflight (`sources/met/contract.py`) | none | `inspect`, `validate` | the reader and the service |
| Met ingestion service (`sources/met/service.py`) | outcome counts of one run | `run` | downloader, preflight, reader, bundle store |
| Snapshot cache of the live tests (`src/tests/live/conftest.py`) | cached file and its metadata | `live_met_snapshot` | downloader, file system, other sessions |
| Domain model, resolution, contracts (`domain`, `application`) | none | validators | everything |
| Orchestration, settings, logging, catalogue, dbt, infra | none | composition and configuration | |

Behaviours that are hard, and where they are: replies lost after an effect, and
effects that come late (client); a file edited while it is staged, advisory
probes gone stale, a bundle half written when its writer fails or dies, two
writers on one prefix (bundle store); truncated bodies, redirect loops, a process
killed with a partial file on disk (downloader); laziness across components, that
is, errors of the CSV reader that surface inside the bundle store (service); two
sessions without a lock (cache). `hazards` in `PROJECT.json` lists each at its
line, with the properties that cover it.

What makes each correct, in one sentence:

- client: a key is created at most once, and what a call returns is true of it;
- bundle store: a prefix with `_SUCCESS.json` is a whole bundle, a receipt
  references exactly that bundle, and no error hides a commit but one that says
  the object store failed;
- downloader: `MetObjects.csv` is only ever replaced by one whole body, and what
  a successful call describes is what is there;
- reader and contract: one evidence item per readable row, every repeated Object
  ID rejected wherever its first occurrence was;
- service: the counts it returns are those of the committed manifest;
- cache: a snapshot served from it is one the metadata describes.

## Modules

| Module | Models | Used by |
|---|---|---|
| `ConditionalObjects` | payloads, metadata and objects under one key | the next two |
| `CreateOnce` | the abstract promise of a conditional create | `ConditionalPut` (refines it), `BronzeStore` (uses it) |
| `ConditionalPut` | `put_object_if_absent`, the network and the object store | |
| `ConditionalPutProofs` | the theorems about it | |
| `MCConditionalPut` | payloads and stray objects for TLC | |
| `ObjectKeys` | prefix normalization, the UTC day and the keys of a bundle | `MCBronzeStore` |
| `ObjectKeysProofs` | the theorems about it | |
| `BronzeBundles` | keys, evidence lines and manifests of one prefix | the next two |
| `BronzeLedger` | the abstract promise of `store_bundle`: one atomic commit | `BronzeStore` and `MetIngestion` (refine it) |
| `BronzeStore` | `store_bundle`, called concurrently for one prefix | |
| `OutcomeCounts` | lemmas: counting a sequence's items of one outcome | the next, `MetIngestionProofs` |
| `BronzeStoreProofs` | the theorems about it | |
| `MCBronzeStore` | extensions, versions and checksums for TLC | |
| `MetDownload` | the downloader over the HTTP client, with kills and restarts | |
| `MetDownloadProofs` | the theorems about it | |
| `MetContract` | preflight, Object ID parsing and the row rules, as operators | `MetIngestion` |
| `MetIngestion` | one run of the service: download, preflight, and the reader inside the store's evidence loop | |
| `MetIngestionProofs` | the theorems about it | |
| `MCMetIngestion` | headers, rows and files for TLC | |
| `SnapshotCache` | the fixture of the live tests: sessions over one cache directory | |
| `SnapshotCacheProofs` | the theorems about it | |
| `MCSnapshotCache` | symmetry and view for TLC | |

### ConditionalPut

One action per step of the loop: `Begin` (the ceiling), `Send` (rewind and PUT),
`SendRaises` (an exception), one action per class of status, and one per result of
the HEAD. `wire` holds the PUTs the store has not decided; a PUT stays there after
its sender has given up on it, which is how an effect can come late. `StoreApplies`
creates the object and may still answer 500, 502, 503 or 504; `StoreRefuses`
answers anything but success; `RequestLost` drops it. A reply reaches a call only
while it waits for that very attempt.

An upload is a size and a digest. Signing, other headers and the wording of
diagnostics are left out. An exception before anything was sent (credentials,
region, signing) is `Send`, `RequestLost`, `SendRaises`. `data.tell` and
`data.seek` raising is left out: the streams are spooled files.

Assumptions about the object store, none of which the code can check: HEAD after
PUT is strongly consistent; a 4xx means the PUT had no effect; a body shorter than
its Content-Length is not stored; a PUT is not duplicated on its way; and nobody
deletes or overwrites under the prefix (other tools may create).

### ObjectKeys

Pure. A key is the sequence of the segments between its slashes, so `\o` is what
the f-string does and a slash hidden in a segment would show as two. `UtcDay`
floors the instant after the offset is taken off, as `astimezone(UTC)` and the
three date segments do. `MCBronzeStore` states three assumptions TLC evaluates: the
two calls it lets race, retrieved on different dates of different clocks, do derive
one prefix; normalization of every prefix of up to five segments strips the
slashes at the ends and nothing else; and the prefixes the tests want refused are.

### BronzeStore

`pc` follows the code: `FileFound` (is_file), `TakeSnapshot` (read, hash, size,
expected digest), three probes, then for each part `Put` and one of `PutSucceeds`,
`PutCollides`, `PutFails`, with the evidence loop between the first and the second.
`CloseFails` is the `OSError` a temporary file raises when its `with` block ends, in
place of whatever a probe or an upload in it has come to. `ManifestTooLarge` is the
store's own ceiling check where it can fail: at the artifact and the sidecar, `TakeSnapshot`
and `Fits` have been there before it.
A create is used here through the promise of `CreateOnce` and nothing else: begun
uploads are in `sent`, and `Lands` lets one take effect whenever the key is free,
whatever its caller has been told. That the real client keeps this promise is the
theorem `ImplementsCreateOnce`.

Bodies stand for their digests. Only the artifact's key depends on the call; the
two other keys are contended. `Version` stands for everything a manifest copies
from the artifact's description. A file somebody edits while it is read yields any
content. The evidence iterable is opaque: at each step it may yield an item of
either outcome, an unacceptable one, an error, or end. `MaxLines` is not only a
bound: it is the single-PUT ceiling counted in lines.
The bucket's Bronze prefix is written by nobody but `store_bundle`.

The ledger mapping reads the committed bundle *through the references of the
marker*: the artifact is what is stored under the key the marker names. A marker
over a missing or foreign artifact therefore maps to no legal commit.

### MetDownload

A file is the sequence of its chunks and a chunk is the number of the response
that served it, so a mixture of two responses would show. Content-Length may be
absent, invalid, right or wrong. Kill stops the process anywhere and Restart starts
a new call over the same directory. Deleting the partial file can fail, in which
case the code's own handler raises an `OSError` of no project type (`untyped`):
`NoPartialFileLeft` says that this is the only way to leave a partial file, and that
there always is one then.

### MetIngestion

The run is sequential, but its control is not: `store_bundle` pulls items out of
the service's counting generator, which pulls them out of the reader, which pulls
batches out of Polars. One action is one pull (`SpoolLine`, `LineTooLarge`,
`LineFails` share `Pull`): the reader remembers the Object ID, the service counts,
and only then does the store accept the item or not. The two ends are modelled in
detail by `MetDownload` and `BronzeStore` and reduced here to what the middle can
see: a whole file or an error, and a prefix without rivals (the run ID is in it)
whose uploads may take effect late.

Polars is external: rows in order, from 1 to `BatchSize` in a batch, and an
exception at any batch, at the latest at the one with a row it cannot segment. A
cell is reduced to what the contract distinguishes; an Object ID is a number in
some spelling, since `int()` makes " 007" and "7" one identifier. Provenance
fields that are only copied are left out. `stored` is what `store_bundle` returned or
raised, which the end of the temporary directory may hide from the caller: it is
what the ledger mapping reads, and what tells an untyped error over a commit from
one before it. As in `BronzeStore`, a temporary file that cannot be closed puts its
error in the place of the upload's or the reader's. `EvidenceOf` is the reference: what row i
must yield, from the whole file, with neither batches nor `seen_object_ids`.

### SnapshotCache

A session is the fixture: `ReadMetadata` and `Verify` look at the cache, the
downloader's actions follow, and `Describe` and `Publish` write and rename the
metadata. The directory is modelled with inodes, because that is where sessions
meet: `OpenPart` truncates the file of that name, which may be one another session
is writing; `ReadChunk` writes through the open file, wherever its name has gone;
`Replace` moves whatever has the name at that moment. An attempt may also fail after
that, when the response is closed (`AttemptFails` at "describe"): the next one asks
with the validators of the file it has replaced. `Stops` ends a session anywhere,
normally or not, and `Damage` befalls the directory while none runs. `served`, `alone`
and `wentBack` are history for the properties; `wentBack` says that the museum went
back, while the session ran, to the version the session had found in the cache, which
is when a 304 after such an attempt is about another file than the one that is there.
`SoloSnapshotIsTrue` makes that exception and no other, `NotModifiedReusesVerified`
makes none and is violated. `Undecodable` stands for every metadata file whose
reading raises something the fixture does not catch. `Inodes` is large enough that a
free one exists whenever a file is created (`CacheAssumption`).

Left out: what `MetDownload` covers (statuses other than success, 304 and failure,
redirects, bodies longer or shorter than declared that are accepted for want of a
Content-Length, failing cleanup). Both validators are one, of exactly one version: a
server whose ETag or date stands for two snapshots defeats any such cache. Reading
the metadata, hashing the file and `write_text` are one step each.

Overlapping sessions do get in each other's way: one may find the file replaced, or
moved while incomplete, and a session whose staged metadata another published ends
with an `OSError`. No document promises otherwise; what is checked for them is what
they hand out and keep, and for sessions that run alone, all of it.

## Runs

| Run | Question | Bounds |
|---|---|---|
| `put_distinct` | two callers, different payloads of equal length, foreign objects | 3 attempts (the code's), statuses 200, 403, 409, 412, 503 |
| `put_equal` | two callers of one payload at the ceiling, a third over it; the inductive invariant; liveness | 3 attempts, statuses 204, 403, 409, 412, 500 |
| `put_own_commit` | violated: a match need not be the call's own commit | 2 attempts |
| `bundle_contended` | all keys contended, one file edited, one checksum announced | 1 line |
| `bundle_late` | own artifact keys and versions; late callers; who is refused; liveness | 2 lines |
| `bundle_doubt` | violated: a failed run may be committed | 1 call |
| `download_crash` | the downloader with one kill | 3 attempts, 2 redirects, 2 chunks |
| `ingestion_rows` | a run over every file of a small alphabet; reader, contract, service and store together | 4 rows, batches of 2, 3 lines, 6 headers |
| `cache_shared` | sessions of the live cache, overlapping or not, with kills, updates and damage | 3 sessions, 2 at a time, 2 versions of 2 chunks, 2 attempts, 2 updates or damages together |
| `cache_reverted` | violated: a 304 may be about another file than the one that is there | 2 sessions, one at a time, 2 attempts, 2 updates |
| `cache_corrupt` | violated: corrupt metadata need not lead to a download | 1 session at a time, 1 damage |
| `ingestion_parse` | violated: a parse failure does not surface as one | 1 row |

Why the bounds are enough: every interaction of the client is between a call and one
rival object, and it takes two ambiguous attempts and a third that meets their outcome
to exercise the flag; two callers and a foreign tool with three attempts contain that.
One status stands for each class the code distinguishes (success, 412, 409, ambiguous,
terminal), with different representatives in different runs. Two calls of `store_bundle`
hold every mixture of one bundle's parts. Two chunks make a body that is short, exact,
or one over the ceiling. Four rows in batches of one or two put a duplicate in the batch
of its first occurrence, in the next and in the one after, and exceed the sidecar's
ceiling of three lines. Three sessions are one that fills the cache, one that is killed
while it replaces it, and one that finds what they left; or two that overlap and one
after them. Two updates are one away from the version in the cache and one back to it;
with two attempts, the first may fail after its rename and the second ask again. A wrong
file of the right length takes two versions and one damage, which two chunks make a
mixture, and the other event may be an update or a second damage. Sessions and versions
are symmetric, and the view forgets which inode is which, the bytes of inodes nobody can
reach, and what no later step or property looks at. The theorems remove all of these
bounds from everything but liveness. `put_equal` and `bundle_contended` also check, on
their instance, the inductive invariant (`IInv`) the proofs are built on.

Fairness: `FairSpec` asks that a call which can take a step eventually does. The
code is sequential between requests; urllib3's timeouts end every request, which
is the step `SendRaises`, always enabled while a call waits. No fairness is asked
of the network or the store: a PUT may be in flight for ever. In `MetDownload`
somebody restarts a killed process, at most `MaxKills` times.

Each property has a seeded fault, a definition just before the one it replaces,
that TLC finds: a stream not rewound, a retry without the conditional header, a
match on size alone, a swallowed error of the sidecar, and so on.

## Properties

Client: `SuccessMeansStored`, `CollisionIsForeign` and `SettledFailureLeavesNothing`
say what each result means; `NeverOverwritten` and `RequestsWhole` what no retry may
do; `KeepsPromise` that all of it together is create-once; `EveryCallReturns`.

Bundle store: `CommittedBundleComplete`, `ReceiptMeansCommitted`,
`OnlyStoreErrorsLeaveDoubt`, `CollisionsNotMutual`, `StoredArtifactsVerified`,
`LateCallsAddNothing`, `KeepsLedger`, `EveryCallReturns`. `CollisionsNotMutual` is about
the order of the writes: since all calls create the parts in one order and probe before
the first, calls that contend for the shared keys cannot all be refused for each
other's objects.

Downloader: `DownloadedIsWhole`, `NoPartialFileLeft`, `ReplacedOnlyWhole`,
`DownloadReturns`.

Ingestion: `EvidenceIsTheFiles` (the incremental reader computes the reference),
`RecordsDistinct`, `SidecarCoversFile` (a reader that fails never looks like one
that ends), `CommitCoversFile`, `ResultIsTheManifests`, `TypedFailureUncommitted`, and
`KeepsLedger`, the store's promise kept by the whole run.

Cache: `SoloSnapshotIsTrue`, `ValidatorsMatch`, `NeverStale`, `ReplacedWhole`. The last
three say of sessions that overlap what still holds for them.

## Where the code and its documents disagree

- `src/docs/superpowers/specs/2026-07-27-bronze-artifact-storage-design.md:169`: a
  matching HEAD "means the earlier attempt committed". With equal payloads it may
  be the commit of another caller, and both calls return success. What does hold
  is `SuccessMeansStored`.
- The same document at line 205, and `src/docs/architecture.md:31`: a failed run is
  uncommitted. If the marker's PUT takes effect and its reply and the HEAD after it
  are lost, or if it lands after the last attempt, `store_bundle` raises
  `ObjectStoreError` over a committed bundle. What does hold is
  `OnlyStoreErrorsLeaveDoubt`: no other error leaves that doubt.
- `src/docs/superpowers/specs/2026-07-27-met-snapshot-ingestion-design.md:273`:
  typed errors distinguish "CSV parse" from storage failures. `MetCsvParseError` is
  raised inside the store's evidence loop, which re-raises only four types of its
  own and turns everything else into `ManifestSerializationError`, a storage error
  (`infrastructure/minio_bronze.py:254`). The original is only its `__cause__`.
- The same document at line 311: "a missing, corrupt, or checksum-mismatched cache
  forces a full download." Metadata that is no UTF-8 raises `UnicodeDecodeError` in
  `read_text()`, which the fixture does not catch
  (`src/tests/live/conftest.py:65`), so the session ends until somebody deletes the
  file. The same holds of text on which `json.loads` raises a plain `ValueError` or a
  `RecursionError`. For a missing file, metadata that is no description, and a file that
  is not the one described, the claim holds: `SoloSnapshotIsTrue`.
- The same document at line 309: "HTTP 304 reuses the locally verified cached artifact".
  Closing the response may raise after the rename (`sources/met/download.py:202`);
  the attempt is then repeated with the validators of the file it has replaced (line
  137), and if the museum has gone back to that version, the fixture returns the old
  description over the new file. What does hold is `SoloSnapshotIsTrue`: it takes the
  museum to go back during the session, and the file is a whole one all the same.

## Proofs

`ConditionalPutProofs` proves, from `PayloadAssumption`, `StrayAssumption` and
`LoopAssumption` only, for any set of callers, payloads, attempts and statuses:
`TypeCorrect`, `SuccessIsTrue`, `CollisionIsTrue`, `RetriesAreWhole`,
`SettledFailureIsFinal`, `WriteOnce`, and the refinement `ImplementsCreateOnce`.

These rest on one inductive invariant, `IInv`. The properties alone are not
inductive: that a first 412 is somebody else's object follows only if nothing of
this call can have landed, which is not visible in the key. `AmbiguityTracked` is
the missing half: as long as `had_ambiguous_attempt` is unset, a call that has been
told the fate of its last attempt has nothing stored and nothing in flight.
`RepliesTrue` ties what a call was told to the store, `UploadsAccounted` what is in
flight to attempts made, `AttemptsLeft` the program point to the loop counter and
`ResultsMatchControl` results to program points. There is one lemma per action and
in it one step per conjunct; TLC checks the same invariant in `put_equal`.

`ObjectKeysProofs` proves that bundles with different prefixes, sources, days or runs
share no key (`BundlesApart`) and that the three keys of a bundle differ
(`PartsApart`): the end of a key has a fixed number of segments, so the key says
where its prefix ends. The prefixes are normalized ones; what normalization does is
checked by TLC only, since the first named segment is found by a minimum whose
existence needs induction.

`BronzeStoreProofs` proves, from `BundleAssumption` only, for any calls on one prefix,
contents, announced checksums, extensions, versions and ceiling, every property of the
bundle store but liveness: `TypeCorrect`, `CommitIsWhole`, `ReceiptIsOfCommit`,
`DoubtIsTheStores`, `CollisionIsTrue`, `ArtifactsVerified`, `LateCallsAreHarmless` and the
refinement `ImplementsLedger`. That a committed bundle is whole is not inductive: the
marker may land long after its call has raised. Two parts of `IInv` carry it.
`ObjectsAreUploads` says that whatever a key holds is what its creator still has under
that part, so an object that lands late is no other than the one begun;
`EarlierPartsHeld` says that a call which has reached a part, or has begun its upload, has
seen the parts before it stored *with its own bytes*, whoever created them. Since nothing
is ever overwritten, both survive everybody else's steps, and a marker that lands at any
time finds its bundle. `LateCallsAreHarmless` is a temporal theorem over a second
invariant: a call that starts on a committed prefix never gets past its last probe.
`CollisionIsTrue` looks at the highest part that is stored: its creator has gone at
least as far as that part (`SentInOrder`), and what it could be refused for would be
somebody else's object of that part or of a higher one (`BlamesForeign`).
For the refinement, each step is sorted into the ledger's commit, receipt, failure
or a stutter; a commit is the moment the marker lands, whoever still waits for it.

`MetDownloadProofs` proves, from `DownloadAssumption` only, for any limits and number of
kills: `TypeCorrect`, `DownloadIsWhole`, `NothingPartialLeft` and `OnlyWholeReplaces`. The
strengthening is `PartIsReceived`: between opening and renaming, the partial file is what
this response has delivered, and before and after there is none, however a killed call
left the directory; and `ResponsesCounted` bounds the ghost that names responses.

`SnapshotCacheProofs` proves, from `CacheAssumption` only, for any set of sessions,
versions, chunks and attempts: `TypeCorrect`, `SoloIsTrue`, `ValidatorsAreTrue`,
`NothingStale` and `OnlyWholeReplaces`. The invariant has two halves. `DownloadTrue` is
about a session's own memory and needs nothing of the directory, so it survives
sessions that overlap in any way, and gives the two theorems about them. `OwnsFiles` ties
a session's memory to the bytes on disk, and is claimed for a session nobody overlaps
only: with two it is false. `ReplacesTruly` carries it over the retry after the rename:
a file that has replaced the verified one is whole, and a 304 is true of it unless the
museum has gone back. `FilesApart` keeps a write through an open partial file from
reaching the target. A free inode exists because fewer are in use than there are
(`InodeFree`, a counting argument over `FiniteSetTheorems`).

`MetIngestionProofs` proves, from `ContractAssumption`, `IngestionAssumption` and
`NothingAssumption` only, for any files, batch size and ceiling: `TypeCorrect`,
`EvidenceIsReference`, `RecordsAreDistinct`, `SidecarCovers`, `CommitCovers`,
`ResultIsTrue`, `TypedFailuresAreTrue` and `ImplementsLedger`. `ReaderInStep` relates the
reader's state to the file: the batch is the rows that follow those handed over, and
`seen_object_ids` is exactly their identifiers, so the incremental judgement of a row is
the reference's. `SpoolInStep` says that service and store count the same lines until one
is lost; `ReadToTheEnd` that the sidecar is not begun before the last row, and
`ObjectsAreBodies` and `SentInOrder` carry this to uploads that land late. Distinct records need
no invariant of their own: they follow from the reference.

The assumptions are what the code and its environment give: finite limits that are
natural numbers, checksums of contents, rows that are rows, and a value for "nothing"
(`NoValue`, `NoObject`, `NoFile`, `None`) that is none of the things it stands for the
absence of. TLC evaluates each of them in the runs of its module.

Only model-checked: liveness (`EveryCallReturns` of the client and of the bundle store,
`DownloadReturns`), whose proofs need ENABLED, which the prover does not handle; the
absence of deadlock; the normalization of prefixes; and the five disagreements above,
which are counterexamples.

## Plan

Done: the client, the bundle store, the downloader, the ingestion run with the reader and
the contract, the object keys and the snapshot cache, each with its proofs. Next:

1. the downloader's failures by type: which error a sequence of responses ends in,
   as an abstract specification of `download` that `MetIngestion`'s first step is an
   instance of;
2. `BronzeStore` over calls of several prefixes, with `ObjectKeys` for its keys.

## Not modelled

Request signing, JSON formatting, logging and settings; the composition root, the
Prefect flow and deployment declarations; the source catalogue; dbt and
infrastructure files. They hold no state of their own. Of the domain model and the
resolution module, the entities the repository never builds: frozen values with
validators that look at one value each. Bucket versioning and object
lock are outside the repository.
