---------------------------- MODULE SnapshotCache ----------------------------
(***************************************************************************)
(* The persistent snapshot cache of the live tests: sessions that verify   *)
(* what they find in a directory, ask the museum whether it has changed,   *)
(* and replace the snapshot and then its metadata.  Sessions may be killed *)
(* anywhere, and nothing keeps two of them out of one directory.           *)
(*                                                                         *)
(* The downloader appears with the file operations it does, since rename   *)
(* and unlink act on names while an open file stays what it was: `dir`     *)
(* maps names to inodes and `data` inodes to bytes.  Its statuses,         *)
(* redirects and lengths are the business of MetDownload.  A snapshot of   *)
(* the museum is Chunks chunks of one version.                             *)
(***************************************************************************)
EXTENDS Naturals, Sequences, FiniteSets

CONSTANTS
    Sessions,
    Inodes,        \* enough of them for every open file
    Versions,      \* snapshots the museum may serve
    Chunks,        \* length of each of them
    MaxAttempts,   \* max_attempts of the downloader
    MaxStarts,     \* bound on sessions started
    MaxEvents,     \* bound on the museum's new snapshots and on what befalls the
                   \* directory between sessions, together
    None,          \* no file, inode or validator; a hole in a file; no description,
                   \* be it that there is no file or that its text is none
    Undecodable    \* a metadata file whose reading raises what is not caught

VARIABLES
    upstream,   \* the version the museum serves
    dir,        \* the inodes of MetObjects.csv and MetObjects.csv.part
    data,       \* the bytes of each inode
    metadata,   \* MetObjects.metadata.json
    staged,     \* MetObjects.metadata.json.part
    session,    \* the local state of each session
    budget      \* what is left of the two bounds

vars == <<upstream, dir, data, metadata, staged, session, budget>>

Names == {"target", "part"}

Whole(v) == [i \in 1..Chunks |-> v]

\* DownloadedMetSnapshot: the body stands for its size and SHA-256, etag for both
\* validators, which the server may leave out.
Descriptions == [etag : Versions \cup {None}, body : {Whole(v) : v \in Versions}]

Steps == {"check", "verify", "attempt", "request", "open", "body", "describe",
          "publish", "using"}
Ends  == {"idle", "acquisition_error", "decode_error", "rename_error"}

\* A session that is not running has no state, but for how it ended.
Rest(end) ==
    [pc       |-> end,
     cached   |-> None,    \* cached_snapshot, before and after it is verified
     attempt  |-> 0,       \* attempts of the downloader
     response |-> None,    \* the version being downloaded
     etag     |-> None,    \* the validator that came with it
     fd       |-> None,    \* the inode the downloader writes to
     received |-> <<>>,    \* the chunks it has hashed
     result   |-> None,    \* the snapshot the fixture has returned
     \* for the properties only:
     served   |-> {},      \* versions served meanwhile
     alone    |-> TRUE,    \* no other session ran meanwhile
     wentBack |-> FALSE]   \* the museum went back to the version of `cached`

Locals ==
    [pc : Steps \cup Ends, cached : Descriptions \cup {None},
     attempt : 0..MaxAttempts, response : Versions \cup {None},
     etag : Versions \cup {None}, fd : Inodes \cup {None},
     received : UNION {[1..n -> Versions] : n \in 0..Chunks},
     result : Descriptions \cup {None}, served : SUBSET Versions, alone : BOOLEAN,
     wentBack : BOOLEAN]

TypeOK ==
    /\ upstream \in Versions
    /\ dir      \in [Names -> Inodes \cup {None}]
    /\ data     \in [Inodes -> Seq(Versions \cup {None})]
    /\ metadata \in Descriptions \cup {Undecodable, None}
    /\ staged   \in Descriptions \cup {None}
    /\ session  \in [Sessions -> Locals]
    /\ budget   \in [starts : 0..MaxStarts, events : 0..MaxEvents]

ASSUME CacheAssumption ==
    /\ Chunks \in Nat \ {0} /\ MaxAttempts \in Nat \ {0}
    /\ MaxStarts \in Nat /\ MaxEvents \in Nat
    /\ None \notin Versions \cup Inodes \cup {Undecodable}
    /\ {None, Undecodable} \cap Descriptions = {}
    /\ IsFiniteSet(Sessions) /\ IsFiniteSet(Inodes)
    /\ Cardinality(Inodes) > Cardinality(Sessions) + 1

Init ==
    /\ upstream \in Versions
    /\ dir      = [n \in Names |-> None]
    /\ data     = [i \in Inodes |-> <<>>]
    /\ metadata = None
    /\ staged   = None
    /\ session  = [s \in Sessions |-> Rest("idle")]
    /\ budget   = [starts |-> MaxStarts, events |-> MaxEvents]

Running(s) == session[s].pc \in Steps

EndsAs(s, end) == session' = [session EXCEPT ![s] = Rest(end)]

\* The fixture has returned: only its result is left.
Returns(s, result) ==
    session' = [session EXCEPT ![s] = [Rest("using") EXCEPT
        !.result = result, !.served = session[s].served, !.alone = session[s].alone,
        !.wentBack = session[s].wentBack]]

\* What the session has found in the cache carries the validator of this version.
Holds(here, v) == here.cached # None /\ here.cached.etag = v

\* What a name holds.
Content(n) == IF dir[n] = None THEN <<>> ELSE data[dir[n]]
-----------------------------------------------------------------------------
(* The fixture: is there a verified snapshot?                              *)

Start(s) ==
    /\ ~ Running(s)
    /\ budget.starts > 0
    /\ budget' = [budget EXCEPT !.starts = @ - 1]
    /\ session' = [r \in Sessions |->
         IF r = s THEN [Rest("check") EXCEPT !.served = {upstream},
                                             !.alone = \A q \in Sessions : ~ Running(q)]
         ELSE IF Running(r) THEN [session[r] EXCEPT !.alone = FALSE]
         ELSE session[r]]
    /\ UNCHANGED <<upstream, dir, data, metadata, staged>>

\* One of the files is not there, or the metadata is no description.
NothingCached(s) ==
    /\ session[s].pc = "check"
    /\ dir["target"] = None \/ metadata = None
    /\ session' = [session EXCEPT ![s].pc = "attempt"]
    /\ UNCHANGED <<upstream, dir, data, metadata, staged, budget>>

\* The metadata is read as text first: a UnicodeDecodeError is none of the
\* exceptions that are caught, nor are the ValueError of a number too long and the
\* RecursionError of a nesting too deep.
MetadataUnreadable(s) ==
    /\ session[s].pc = "check"
    /\ dir["target"] # None /\ metadata = Undecodable
    /\ EndsAs(s, "decode_error")
    /\ UNCHANGED <<upstream, dir, data, metadata, staged, budget>>

ReadMetadata(s) ==
    /\ session[s].pc = "check"
    /\ dir["target"] # None /\ metadata \in Descriptions
    /\ session' = [session EXCEPT ![s].pc = "verify", ![s].cached = metadata]
    /\ UNCHANGED <<upstream, dir, data, metadata, staged, budget>>

\* Seeded fault: only the size is compared.
VerifiedBySize(body, description) == Len(body) = Len(description.body)

\* Size and SHA-256 of the file as it is now.
Verified(body, description) == body = description.body

Verify(s) ==
    /\ session[s].pc = "verify"
    /\ session' = [session EXCEPT
         ![s].pc = "attempt",
         ![s].cached = IF Verified(Content("target"), @) THEN @ ELSE None]
    /\ UNCHANGED <<upstream, dir, data, metadata, staged, budget>>
-----------------------------------------------------------------------------
(* The downloader.                                                         *)

Unlink(n) == dir' = [dir EXCEPT ![n] = None]

Attempt(s) ==
    /\ session[s].pc = "attempt"
    /\ Unlink("part")
    /\ session' = [session EXCEPT ![s].pc = "request", ![s].attempt = @ + 1]
    /\ UNCHANGED <<upstream, data, metadata, staged, budget>>

\* Seeded fault: one attempt too many.
AttemptsLeftOneMore(here) == here.attempt <= MaxAttempts

AttemptsLeft(here) == here.attempt < MaxAttempts

\* Seeded fault: without an answer, the cached copy will do.
GivesUpForCached(s) ==
    IF session[s].cached # None THEN Returns(s, session[s].cached)
                                ELSE EndsAs(s, "acquisition_error")

GivesUp(s) == EndsAs(s, "acquisition_error")

\* RetryLiveDownload retries every failure that is not permanent; only a status
\* is, before there is a body.  Closing the response may fail even when the target
\* is replaced already, and the attempt after it asks with the old validators.
AttemptFails(s) ==
    /\ session[s].pc \in {"request", "open", "body", "describe"}
    /\ Unlink("part")
    /\ \E permanent \in {FALSE, session[s].pc = "request"} :
       IF AttemptsLeft(session[s]) /\ ~ permanent
         THEN session' = [session EXCEPT ![s].pc = "attempt", ![s].response = None,
                                         ![s].etag = None, ![s].fd = None,
                                         ![s].received = <<>>]
         ELSE GivesUp(s)
    /\ UNCHANGED <<upstream, data, metadata, staged, budget>>

\* 304, to the validator of a verified copy: that copy is the result.
NotModified(s) ==
    /\ session[s].pc = "request"
    /\ Holds(session[s], upstream)
    /\ Returns(s, session[s].cached)
    /\ UNCHANGED <<upstream, dir, data, metadata, staged, budget>>

Responds(s) ==
    /\ session[s].pc = "request"
    /\ \E etag \in {upstream, None} :
         session' = [session EXCEPT ![s].pc = "open", ![s].response = upstream,
                                    ![s].etag = etag]
    /\ UNCHANGED <<upstream, dir, data, metadata, staged, budget>>

InodesInUse ==
    Inodes \cap ({dir[n] : n \in Names} \cup {session[r].fd : r \in Sessions})

\* open("wb") truncates the file of that name, or makes one.
OpenPart(s) ==
    /\ session[s].pc = "open"
    /\ LET inode == IF dir["part"] # None THEN dir["part"]
                    ELSE CHOOSE i \in Inodes : i \notin InodesInUse
       IN  /\ dir' = [dir EXCEPT !["part"] = inode]
           /\ data' = [data EXCEPT ![inode] = <<>>]
           /\ session' = [session EXCEPT ![s].pc = "body", ![s].fd = inode]
    /\ UNCHANGED <<upstream, metadata, staged, budget>>

\* A chunk is written where this session's file position is.
WriteAt(file, i, chunk) ==
    [j \in 1..(IF i > Len(file) THEN i ELSE Len(file)) |->
        IF j = i THEN chunk ELSE IF j <= Len(file) THEN file[j] ELSE None]

\* Seeded fault: a body that stops early is a whole one.
BodyStarted(here) == here.received # <<>>

\* The body ends where the response says, or the attempt fails.
BodyComplete(here) == Len(here.received) = Chunks

ReadChunk(s) ==
    /\ session[s].pc = "body"
    /\ ~ BodyComplete(session[s])
    /\ LET here == session[s] IN
       /\ data' = [data EXCEPT ![here.fd] =
                     WriteAt(@, Len(here.received) + 1, here.response)]
       /\ session' = [session EXCEPT ![s].received = Append(@, here.response)]
    /\ UNCHANGED <<upstream, dir, metadata, staged, budget>>

\* The body was complete: whatever has the name of the partial file replaces the
\* target.  If nothing has, the attempt fails.
Replace(s) ==
    /\ session[s].pc = "body"
    /\ BodyComplete(session[s])
    /\ dir["part"] # None
    /\ dir' = [dir EXCEPT !["target"] = dir["part"], !["part"] = None]
    /\ session' = [session EXCEPT ![s].pc = "describe", ![s].fd = None]
    /\ UNCHANGED <<upstream, data, metadata, staged, budget>>
-----------------------------------------------------------------------------
(* The fixture: describe the new snapshot.                                 *)

\* Seeded fault: a 200 without a validator inherits that of the cached copy.
DescriptionKeepsEtag(here) ==
    [etag |-> IF here.etag = None /\ here.cached # None THEN here.cached.etag ELSE here.etag,
     body |-> here.received]

Description(here) == [etag |-> here.etag, body |-> here.received]

Describe(s) ==
    /\ session[s].pc = "describe"
    /\ staged' = Description(session[s])
    /\ session' = [session EXCEPT ![s].pc = "publish", ![s].cached = None,
                                  ![s].wentBack = FALSE,
                                  ![s].result = Description(session[s])]
    /\ UNCHANGED <<upstream, dir, data, metadata, budget>>

Publish(s) ==
    /\ session[s].pc = "publish"
    /\ staged # None
    /\ metadata' = staged
    /\ staged' = None
    /\ Returns(s, session[s].result)
    /\ UNCHANGED <<upstream, dir, data, budget>>

\* Another session has renamed the staged metadata.
PublishFails(s) ==
    /\ session[s].pc = "publish"
    /\ staged = None
    /\ EndsAs(s, "rename_error")
    /\ UNCHANGED <<upstream, dir, data, metadata, staged, budget>>
-----------------------------------------------------------------------------
(* The world (external).                                                   *)

\* The session ends, or is killed.
Stops(s) ==
    /\ Running(s)
    /\ EndsAs(s, "idle")
    /\ UNCHANGED <<upstream, dir, data, metadata, staged, budget>>

MuseumUpdates ==
    /\ budget.events > 0
    /\ budget' = [budget EXCEPT !.events = @ - 1]
    /\ \E v \in Versions \ {upstream} :
         /\ upstream' = v
         /\ session' = [s \in Sessions |->
              IF Running(s)
                THEN [session[s] EXCEPT !.served = @ \cup {v},
                                        !.wentBack = @ \/ Holds(session[s], v)]
                ELSE session[s]]
    /\ UNCHANGED <<dir, data, metadata, staged>>

\* Somebody clears away a file, or the disk spoils one.
Damage ==
    /\ budget.events > 0
    /\ \A s \in Sessions : ~ Running(s)
    /\ budget' = [budget EXCEPT !.events = @ - 1]
    /\ \/ /\ \E m \in {Undecodable, None} : metadata' = m
          /\ UNCHANGED <<dir, data>>
       \/ Unlink("target") /\ UNCHANGED <<data, metadata>>
       \/ /\ dir["target"] # None
          /\ \E chunk \in Versions : data' = [data EXCEPT ![dir["target"]] =
                                                WriteAt(@, 1, chunk)]
          /\ UNCHANGED <<dir, metadata>>
    /\ UNCHANGED <<upstream, staged, session>>
-----------------------------------------------------------------------------
Session(s) ==
    \/ NothingCached(s) \/ MetadataUnreadable(s) \/ ReadMetadata(s) \/ Verify(s)
    \/ Attempt(s) \/ AttemptFails(s) \/ NotModified(s) \/ Responds(s)
    \/ OpenPart(s) \/ ReadChunk(s) \/ Replace(s)
    \/ Describe(s) \/ Publish(s) \/ PublishFails(s)

Next ==
    \/ \E s \in Sessions : Start(s) \/ Session(s) \/ Stops(s)
    \/ MuseumUpdates \/ Damage

Spec == Init /\ [][Next]_vars
-----------------------------------------------------------------------------
(* Properties.                                                             *)

\* The file and the description a session hands its tests agree.
PairAgrees(s) == Content("target") = session[s].result.body

\* A session nobody overlaps hands its tests a whole snapshot the museum served while
\* the session ran, whatever killed or overlapping sessions and damage left in the
\* directory; and it is the one described, unless the session was told that nothing
\* has changed after the museum had gone back to the version the session verified.
SoloSnapshotIsTrue ==
    \A s \in Sessions :
        session[s].pc = "using" /\ session[s].alone
        => /\ \E v \in session[s].served : Content("target") = Whole(v)
           /\ session[s].wentBack \/ PairAgrees(s)

\* A validator kept with a description is that of the bytes described: otherwise
\* the museum's 304 would vouch for other bytes.
ValidatorsMatch ==
    \A d \in {metadata, staged} \cap Descriptions :
        d.etag # None => d.body = Whole(d.etag)

\* What a session hands out, cached or not, is a snapshot the museum served while
\* the session ran.
NeverStale ==
    \A s \in Sessions :
        session[s].pc = "using"
        => \E v \in session[s].served : session[s].result.body = Whole(v)

\* While one session runs alone the target only changes from one whole snapshot to
\* another, so a session that fails or dies leaves the old one.
ReplacedWhole ==
    [][Content("target")' # Content("target")
         => \A s \in Sessions : Running(s) /\ session[s].alone
              => \E v \in Versions : Content("target")' = Whole(v)]_vars

\* The design says that a 304 reuses the locally verified cached artifact: a session
\* that nobody overlaps hands out a file that agrees with its description, always.
NotModifiedReusesVerified ==
    \A s \in Sessions : session[s].pc = "using" /\ session[s].alone => PairAgrees(s)

\* The design says that a corrupt cache forces a full download.
CorruptCacheIsReplaced ==
    \A s \in Sessions : session[s].pc # "decode_error"
-----------------------------------------------------------------------------
(* The inductive invariant.                                                *)

\* What may be kept of a snapshot: a validator that came with it is its own.
Genuine(d) == d \in Descriptions /\ (d.etag # None => d.body = Whole(d.etag))

\* What a session may hand out.
Served(here) == here.result \in Descriptions
                /\ \E v \in here.served : here.result.body = Whole(v)

\* A name is never one file with the other.
FilesApart == dir["part"] # None => dir["part"] # dir["target"]

\* What is kept is genuine.
KeptIsGenuine ==
    /\ metadata \in Descriptions => Genuine(metadata)
    /\ staged \in Descriptions => Genuine(staged)

\* Were the target of version v, a 304 would be true of it, or else the museum has
\* gone back to what the session found in the cache.
ReplacesTruly(here, v) ==
    Holds(here, upstream) => here.wentBack \/ here.cached.body = Whole(v)

\* What a session has read of the cache is genuine, what it has received is of one
\* version the museum served meanwhile, and it begins no attempt it has not left.
DownloadTrue(here) ==
    /\ here.pc \in Steps => upstream \in here.served
    /\ here.pc \in {"check", "verify", "attempt"} => here.attempt < MaxAttempts
    /\ here.cached # None => Genuine(here.cached)
    /\ here.pc = "check" => here.cached = None
    /\ here.pc = "verify" => here.cached # None
    /\ here.pc \in {"open", "body", "describe"} =>
         here.response \in here.served /\ here.etag \in {here.response, None}
    /\ here.pc \in {"open", "body", "describe"} => ReplacesTruly(here, here.response)
    /\ here.pc = "body" => here.fd \in Inodes
    /\ here.pc \notin {"body", "describe", "publish"} => here.received = <<>>
    /\ \A i \in DOMAIN here.received : here.received[i] = here.response
    /\ here.pc = "describe" => BodyComplete(here)
    /\ here.pc \in {"publish", "using"} => Served(here)

DownloadsTrue == \A s \in Sessions : DownloadTrue(session[s])

\* The directory of a session that has it to itself: the target is what it verified,
\* or what it received in an attempt that failed after the rename, and its partial
\* file is what it has received.
OwnsFiles(here) ==
    /\ here.pc \in {"attempt", "request", "open", "body"} /\ here.cached # None
       => \/ Content("target") = here.cached.body
          \/ \E v \in here.served : Content("target") = Whole(v) /\ ReplacesTruly(here, v)
    /\ here.pc = "body" => dir["part"] = here.fd /\ data[here.fd] = here.received
    /\ here.pc = "describe" => Content("target") = here.received
    /\ here.pc = "publish" => Content("target") = here.result.body
    /\ here.pc = "using" =>
         /\ \E v \in here.served : Content("target") = Whole(v)
         /\ here.wentBack \/ Content("target") = here.result.body

SoloOwnsFiles ==
    \A s \in Sessions : Running(s) /\ session[s].alone =>
        /\ \A r \in Sessions \ {s} : ~ Running(r)
        /\ OwnsFiles(session[s])

IInv == TypeOK /\ FilesApart /\ KeptIsGenuine /\ DownloadsTrue /\ SoloOwnsFiles
=============================================================================
