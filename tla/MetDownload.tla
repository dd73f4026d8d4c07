----------------------------- MODULE MetDownload -----------------------------
(***************************************************************************)
(* MetSnapshotDownloader over Urllib3StreamingHttpClient: a bounded loop   *)
(* of attempts, each a chain of redirects, a status, and a body streamed   *)
(* into MetObjects.csv.part, which replaces MetObjects.csv when its length *)
(* is what the server declared.  The process may be killed at any point    *)
(* and started again over the same directory.                              *)
(*                                                                         *)
(* A file is the sequence of its chunks, and a chunk the number of the     *)
(* response that served it, so files mixed from two responses show.        *)
(***************************************************************************)
EXTENDS Integers, Sequences

CONSTANTS
    MaxAttempts,    \* max_attempts
    MaxRedirects,   \* max_redirects of the HTTP client
    MaxSize,        \* MAX_ARTIFACT_SIZE_BYTES, in chunks
    Conditional,    \* whether validators of a cached copy are sent
    MaxKills,       \* bound on how often the process is killed
    NoFile          \* a path that does not exist

VARIABLES
    pc,         \* where the downloader is
    attempt,    \* attempts made by this call
    redirects,  \* redirects followed by this attempt
    serial,     \* responses opened so far, over all calls
    declared,   \* parsed Content-Length, Undeclared when there is none
    received,   \* the chunks read and hashed in this attempt
    failure,    \* why the attempt failed
    result,     \* what the call has returned or raised
    part,       \* MetObjects.csv.part
    target,     \* MetObjects.csv
    kills

call  == <<pc, attempt, redirects, declared, received, failure, result>>
files == <<part, target>>
vars  == <<call, serial, files, kills>>

Undeclared == -1

PCs == {"start", "attempt", "request", "status", "open", "body", "renamed",
        "failed", "done", "killed"}

\* DownloadIntegrityError, _RetryableHttpDownloadError (and, wrapped in one, any
\* other exception), HttpDownloadError, DownloadSizeLimitError.
Retryable == {"integrity", "retryable"}
Failures  == Retryable \cup {"terminal", "size_limit"}

Results == Failures \cup {"none", "downloaded", "not_modified", "untyped"}

Attempts == 1..((MaxKills + 1) * MaxAttempts)

TypeOK ==
    /\ pc        \in PCs
    /\ attempt   \in 0..MaxAttempts
    /\ redirects \in 0..MaxRedirects
    /\ serial    \in {0} \cup Attempts
    /\ declared  \in Nat \cup {Undeclared}
    /\ received  \in Seq(Attempts)
    /\ failure   \in Failures \cup {"none"}
    /\ result    \in Results
    /\ part      \in Seq(Attempts) \cup {NoFile}
    /\ target    \in Seq(Attempts) \cup {NoFile}
    /\ kills     \in 0..MaxKills

ASSUME DownloadAssumption ==
    /\ MaxAttempts \in Nat \ {0} /\ MaxRedirects \in Nat
    /\ MaxSize \in Nat /\ MaxKills \in Nat
    /\ Conditional \in BOOLEAN
    /\ NoFile \notin Seq(Attempts)

Init ==
    /\ pc        = "start"
    /\ attempt   = 0
    /\ redirects = 0
    /\ serial    = 0
    /\ declared  = Undeclared
    /\ received  = <<>>
    /\ failure   = "none"
    /\ result    = "none"
    /\ part      = NoFile
    /\ target    = NoFile
    /\ kills     = 0

\* One response served all of it.
OneResponse(file) == \A i, j \in DOMAIN file : file[i] = file[j]
-----------------------------------------------------------------------------
(* Steps shared by the attempts.                                           *)

Fails(kind) ==
    /\ pc' = "failed"
    /\ failure' = kind

AttemptFails(kind) ==
    /\ Fails(kind)
    /\ UNCHANGED <<attempt, redirects, serial, declared, received, result, files, kills>>

Moves(point) ==
    /\ pc' = point
    /\ UNCHANGED <<attempt, failure, result, kills>>

Ends(outcome) ==
    /\ pc' = "done"
    /\ result' = outcome
    /\ UNCHANGED <<attempt, redirects, serial, declared, received, failure, kills>>
-----------------------------------------------------------------------------
(* _run: the loop.                                                         *)

\* mkdir(exist_ok) raises, which it does only while the directory is not there:
\* HttpDownloadError before any attempt.
MkdirFails ==
    /\ pc = "start"
    /\ part = NoFile /\ target = NoFile
    /\ Ends("terminal")
    /\ UNCHANGED files

Begin ==
    /\ pc = "start"
    /\ Moves("attempt")
    /\ UNCHANGED <<redirects, serial, declared, received, files>>

\* A leftover of an earlier attempt, or of a call that was killed, goes first.
BeginAttempt ==
    /\ pc = "attempt"
    /\ pc' = "request"
    /\ attempt' = attempt + 1
    /\ redirects' = 0
    /\ serial' = serial + 1
    /\ received' = <<>>
    /\ declared' = Undeclared
    /\ part' = NoFile
    /\ UNCHANGED <<failure, result, target, kills>>

\* The unlink of an existing leftover is refused: any exception is retryable.
UnlinkFails ==
    /\ pc = "attempt"
    /\ part # NoFile
    /\ pc' = "failed"
    /\ attempt' = attempt + 1
    /\ failure' = "retryable"
    /\ UNCHANGED <<redirects, serial, declared, received, result, files, kills>>

\* Seeded fault: one attempt too many.
AttemptsLeftOneMore == attempt <= MaxAttempts

AttemptsLeft == attempt < MaxAttempts

\* The partial file goes; then the decider is asked, while attempts are left.
Retry ==
    /\ pc = "failed"
    /\ failure \in Retryable
    /\ AttemptsLeft
    /\ part' = NoFile
    /\ pc' = "attempt"
    /\ failure' = "none"
    /\ UNCHANGED <<attempt, redirects, serial, declared, received, result, target, kills>>

\* Seeded fault: a download over the ceiling is raised without cleaning up.
RemovePartUnlessTooLarge ==
    IF failure = "size_limit" THEN UNCHANGED part ELSE part' = NoFile

RemovePart == part' = NoFile

\* The failure is raised: terminal, out of attempts, or the decider says stop.
Raise ==
    /\ pc = "failed"
    /\ RemovePart
    /\ Ends(failure)
    /\ UNCHANGED target

\* The handler's own unlink is refused: its OSError escapes as it is.
CleanupFails ==
    /\ pc = "failed"
    /\ part # NoFile
    /\ Ends("untyped")
    /\ UNCHANGED files
-----------------------------------------------------------------------------
(* The HTTP client: redirects followed one by one.                         *)

\* Seeded fault: the count starts over instead of reaching its limit.
FollowedAnew == (redirects + 1) % MaxRedirects

Followed == redirects + 1

Redirected ==
    /\ pc = "request"
    /\ redirects < MaxRedirects
    /\ redirects' = Followed
    /\ Moves("request")
    /\ UNCHANGED <<serial, declared, received, files>>

\* One redirect too many, one without a location, a timeout or a reset.
RequestFails ==
    /\ pc = "request"
    /\ AttemptFails("retryable")

Responds ==
    /\ pc = "request"
    /\ Moves("status")
    /\ UNCHANGED <<redirects, serial, declared, received, files>>
-----------------------------------------------------------------------------
(* _attempt: the response.                                                 *)

\* 304, which answers a conditional request only.
NotModified ==
    /\ pc = "status"
    /\ Conditional
    /\ Ends("not_modified")
    /\ UNCHANGED files

RetryableStatus ==
    /\ pc = "status"
    /\ AttemptFails("retryable")

\* Any other status but 200, an unasked-for 304 included.
TerminalStatus ==
    /\ pc = "status"
    /\ AttemptFails("terminal")

\* A Content-Length that is not a non-negative integer.
InvalidLength ==
    /\ pc = "status"
    /\ AttemptFails("integrity")

\* A usable 200: its declared length is one the body may or may not keep.
Accepted ==
    /\ pc = "status"
    /\ \E n \in {Undeclared} \cup 0..(MaxSize + 1) : declared' = n
    /\ Moves("open")
    /\ UNCHANGED <<redirects, serial, received, files>>

\* Open the partial file, truncating it, and stream into it.
OpenPart ==
    /\ pc = "open"
    /\ part' = <<>>
    /\ Moves("body")
    /\ UNCHANGED <<redirects, serial, declared, received, target>>

\* A chunk is counted before it is written.
ReadChunk ==
    /\ pc = "body"
    /\ Len(received) < MaxSize
    /\ received' = Append(received, serial)
    /\ part' = Append(part, serial)
    /\ Moves("body")
    /\ UNCHANGED <<redirects, serial, declared, target>>

ReadPastCeiling ==
    /\ pc = "body"
    /\ Len(received) = MaxSize
    /\ AttemptFails("size_limit")

\* Reading, opening or writing raises.
StreamFails ==
    /\ pc \in {"open", "body"}
    /\ AttemptFails("retryable")

\* Seeded fault: a connection closed early passes for the end of the body.
LengthWrongIfEmpty == Len(received) = 0

LengthWrong ==
    Len(received) = 0 \/ (declared # Undeclared /\ Len(received) # declared)

\* Seeded fault: the file is moved in place before its length is checked.
IntegrityFailsRenamed ==
    /\ Fails("integrity")
    /\ target' = part /\ part' = NoFile
    /\ UNCHANGED <<attempt, redirects, serial, declared, received, result, kills>>

IntegrityFails == AttemptFails("integrity")

\* The body ends, early or not: an empty or a mismatched one is an integrity
\* failure, any other replaces the target.
BodyEnds ==
    /\ pc = "body"
    /\ IF LengthWrong
         THEN IntegrityFails
         ELSE /\ target' = part
              /\ part' = NoFile
              /\ Moves("renamed")
              /\ UNCHANGED <<redirects, serial, declared, received>>

ReturnDownloaded ==
    /\ pc = "renamed"
    /\ Ends("downloaded")
    /\ UNCHANGED files

\* Closing the response raises after the rename: retried like any exception.
CloseFails ==
    /\ pc = "renamed"
    /\ AttemptFails("retryable")
-----------------------------------------------------------------------------
(* The process (external).                                                 *)

Kill ==
    /\ pc \notin {"done", "killed"}
    /\ kills < MaxKills
    /\ kills' = kills + 1
    /\ pc' = "killed"
    /\ UNCHANGED <<attempt, redirects, serial, declared, received, failure, result, files>>

\* A new call over the directory as it was left.
Restart ==
    /\ pc = "killed"
    /\ pc' = "start"
    /\ attempt' = 0
    /\ failure' = "none"
    /\ UNCHANGED <<redirects, serial, declared, received, result, files, kills>>

Finished == pc = "done" /\ UNCHANGED vars
-----------------------------------------------------------------------------
Loop == MkdirFails \/ Begin \/ BeginAttempt \/ UnlinkFails \/ Retry \/ Raise
        \/ CleanupFails

Request == Redirected \/ RequestFails \/ Responds

Response ==
    \/ NotModified \/ RetryableStatus \/ TerminalStatus \/ InvalidLength
    \/ Accepted \/ OpenPart \/ ReadChunk \/ ReadPastCeiling \/ StreamFails
    \/ BodyEnds \/ ReturnDownloaded \/ CloseFails

Download == Loop \/ Request \/ Response

Next == Download \/ Kill \/ Restart \/ Finished

Spec == Init /\ [][Next]_vars

\* Every request and read is bounded by a timeout, and somebody restarts a
\* killed process.
FairSpec == Spec /\ WF_vars(Download) /\ WF_vars(Restart)
-----------------------------------------------------------------------------
(* Properties.                                                             *)

\* A successful call returns a whole file: the bytes of one response, all of them
\* those it hashed, as many as declared, at least one and no more than the ceiling.
TargetIsWhole ==
    /\ target = received
    /\ OneResponse(target)
    /\ Len(target) \in 1..MaxSize
    /\ declared \in {Undeclared, Len(target)}

DownloadedIsWhole == result = "downloaded" => TargetIsWhole

\* A call that is over leaves no partial file behind, not even that of a call killed
\* before it; one whose cleanup was refused does, and is the one that raises no
\* typed error.
NoPartialFileLeft == result # "none" => (part # NoFile <=> result = "untyped")

\* The target changes only as the last step of an attempt whose length was right.
ReplacedOnlyWhole ==
    [][target' # target =>
         /\ pc = "body" /\ target' = received
         /\ declared \in {Undeclared, Len(received)}]_vars

\* Every call returns or raises, however often it is redirected.
DownloadReturns == <>(pc = "done")
-----------------------------------------------------------------------------
(* The inductive invariant.                                                *)

Responding == {"request", "status", "open", "body", "renamed"}

\* A call that is killed has opened at most its share of the responses.
ResponsesCounted ==
    /\ pc # "killed" => serial <= kills * MaxAttempts + attempt
    /\ pc = "killed" => kills > 0 /\ serial <= kills * MaxAttempts
    /\ pc \in Responding => serial > 0

\* An attempt is only begun while there are some left.
AttemptsBounded == pc \in {"start", "attempt"} => attempt < MaxAttempts

\* Every failure is typed, and only a call that is over has a result.
FailuresTyped ==
    /\ pc = "failed" => failure \in Failures
    /\ result # "none" => pc = "done"

\* The partial file is that of the attempt under way: there is none before it is
\* opened and after it is renamed, and in between it is what has been received.
PartIsReceived ==
    /\ pc \in Responding \ {"body"} => part = NoFile
    /\ pc \in {"request", "status", "open"} => received = <<>>
    /\ pc = "body" => /\ part = received
                     /\ Len(received) <= MaxSize
                     /\ \A i \in DOMAIN received : received[i] = serial

IInv ==
    /\ TypeOK
    /\ ResponsesCounted
    /\ AttemptsBounded
    /\ FailuresTyped
    /\ PartIsReceived
    /\ pc = "renamed" => TargetIsWhole
    /\ DownloadedIsWhole
    /\ NoPartialFileLeft
=============================================================================
