-------------------------- MODULE MetDownloadProofs --------------------------
(***************************************************************************)
(* For any number of attempts, redirects and kills and any ceiling: the    *)
(* target is replaced by whole bodies only, a call that says it has        *)
(* downloaded describes what is there, and no call that returns or raises  *)
(* a typed error leaves a partial file.                                    *)
(*                                                                         *)
(* The argument is PartIsReceived: whatever an earlier attempt or a killed *)
(* call left in the partial file is gone before a response is opened.      *)
(***************************************************************************)
EXTENDS MetDownload, SequenceTheorems, TLAPS

\* The serial numbers left for one more attempt.
LEMMA AttemptsSuffice ==
  ASSUME TypeOK, ResponsesCounted, AttemptsBounded, pc = "attempt"
  PROVE  serial + 1 \in Attempts /\ serial + 1 <= kills * MaxAttempts + (attempt + 1)
<1>1. /\ serial \in Nat /\ kills \in Nat /\ attempt \in Nat /\ MaxAttempts \in Nat
      /\ MaxKills \in Nat /\ kills <= MaxKills
      /\ serial <= kills * MaxAttempts + attempt /\ attempt + 1 <= MaxAttempts
  BY DownloadAssumption DEF TypeOK, ResponsesCounted, AttemptsBounded, Attempts
<1>2. kills * MaxAttempts \in Nat /\ kills * MaxAttempts <= MaxKills * MaxAttempts
      /\ MaxKills * MaxAttempts \in Nat
      /\ (MaxKills + 1) * MaxAttempts = MaxKills * MaxAttempts + MaxAttempts
  BY <1>1
<1>3. serial + 1 <= (MaxKills + 1) * MaxAttempts BY <1>1, <1>2
<1> QED BY <1>1, <1>2, <1>3 DEF Attempts

\* An attempt may fail wherever a response is awaited or read.
LEMMA AttemptFailsKeeps ==
  ASSUME IInv, pc \in Responding, NEW kind \in Failures, AttemptFails(kind)
  PROVE  IInv'
<1>. USE DEF IInv, AttemptFails, Fails, files
<1>1. TypeOK' BY DEF TypeOK, PCs
<1>2. ResponsesCounted' BY DEF ResponsesCounted, Responding
<1>3. AttemptsBounded' /\ FailuresTyped' BY DEF AttemptsBounded, FailuresTyped, Responding
<1>4. PartIsReceived' BY DEF PartIsReceived, Responding
<1>5. (pc = "renamed" => TargetIsWhole)' BY DEF TargetIsWhole
<1>6. result' = "none" BY DEF FailuresTyped, Responding
<1>7. DownloadedIsWhole' /\ NoPartialFileLeft' BY <1>6 DEF DownloadedIsWhole, NoPartialFileLeft
<1> QED BY <1>1, <1>2, <1>3, <1>4, <1>5, <1>7

\* A call may end whenever what it says of the files is true.
LEMMA EndsKeeps ==
  ASSUME IInv, pc \notin {"done", "killed"}, NEW outcome \in Results \ {"none"}, Ends(outcome),
         UNCHANGED target, part' \in {part, NoFile},
         part' # NoFile <=> outcome = "untyped",
         outcome = "downloaded" => TargetIsWhole
  PROVE  IInv'
<1>. USE DEF IInv, Ends
<1>1. TypeOK' BY DEF TypeOK, PCs
<1>2. ResponsesCounted' BY DEF ResponsesCounted, Responding
<1>3. AttemptsBounded' /\ FailuresTyped' BY DEF AttemptsBounded, FailuresTyped, Results
<1>4. PartIsReceived' BY DEF PartIsReceived, Responding
<1>5. (pc = "renamed" => TargetIsWhole)' OBVIOUS
<1>6. DownloadedIsWhole' BY DEF DownloadedIsWhole, TargetIsWhole, OneResponse
<1>7. NoPartialFileLeft' BY DEF NoPartialFileLeft
<1> QED BY <1>1, <1>2, <1>3, <1>4, <1>5, <1>6, <1>7

\* A call may move on within an attempt.
LEMMA MovesKeeps ==
  ASSUME IInv, pc \in {"request", "status"}, NEW point \in {"request", "status", "open"},
         Moves(point), UNCHANGED <<serial, received, files>>,
         redirects' \in 0..MaxRedirects, declared' \in Nat \cup {Undeclared}
  PROVE  IInv'
<1>. USE DEF IInv, Moves, files
<1>1. TypeOK' BY DEF TypeOK, PCs
<1>2. ResponsesCounted' BY DEF ResponsesCounted, Responding
<1>3. AttemptsBounded' /\ FailuresTyped' BY DEF AttemptsBounded, FailuresTyped
<1>4. PartIsReceived' BY DEF PartIsReceived, Responding
<1>5. result' = "none" BY DEF FailuresTyped
<1>6. DownloadedIsWhole' /\ NoPartialFileLeft' BY <1>5 DEF DownloadedIsWhole, NoPartialFileLeft
<1> QED BY <1>1, <1>2, <1>3, <1>4, <1>6

\* The loop preserves the invariant.
LEMMA LoopKeeps == ASSUME IInv, Loop PROVE IInv'
<1>1. CASE MkdirFails
  BY <1>1, EndsKeeps DEF MkdirFails, files, Results, Failures
<1>2. CASE Begin
  <2>. USE <1>2 DEF IInv, Begin, Moves, files
  <2>1. TypeOK' BY DEF TypeOK, PCs
  <2>2. ResponsesCounted' /\ AttemptsBounded' /\ FailuresTyped'
    BY DEF ResponsesCounted, AttemptsBounded, FailuresTyped, Responding
  <2>3. PartIsReceived' BY DEF PartIsReceived, Responding
  <2>4. DownloadedIsWhole' /\ NoPartialFileLeft'
    BY DEF FailuresTyped, DownloadedIsWhole, NoPartialFileLeft
  <2> QED BY <2>1, <2>2, <2>3, <2>4
<1>3. CASE BeginAttempt
  <2>. USE <1>3 DEF IInv, BeginAttempt, files
  <2>1. /\ serial + 1 \in Attempts /\ serial + 1 <= kills * MaxAttempts + (attempt + 1)
        /\ attempt + 1 \in 0..MaxAttempts /\ 0 \in 0..MaxRedirects
    BY AttemptsSuffice, DownloadAssumption DEF AttemptsBounded, TypeOK
  <2>2. TypeOK' BY <2>1 DEF TypeOK, PCs
  <2>3. ResponsesCounted' BY <2>1 DEF ResponsesCounted, Responding, Attempts
  <2>4. AttemptsBounded' /\ FailuresTyped' BY DEF AttemptsBounded, FailuresTyped
  <2>5. PartIsReceived' BY DEF PartIsReceived, Responding
  <2>6. DownloadedIsWhole' /\ NoPartialFileLeft'
    BY DEF FailuresTyped, DownloadedIsWhole, NoPartialFileLeft
  <2> QED BY <2>2, <2>3, <2>4, <2>5, <2>6
<1>4. CASE UnlinkFails
  <2>. USE <1>4 DEF IInv, UnlinkFails, files
  <2>1. attempt + 1 \in 0..MaxAttempts /\ attempt \in Nat
    BY DownloadAssumption DEF AttemptsBounded, TypeOK
  <2>2. TypeOK' BY <2>1 DEF TypeOK, PCs, Failures, Retryable
  <2>3. ResponsesCounted'
    <3>1. serial <= kills * MaxAttempts + attempt /\ serial \in Nat /\ kills * MaxAttempts \in Nat
      BY DownloadAssumption DEF ResponsesCounted, TypeOK, Attempts
    <3> QED BY <2>1, <3>1 DEF ResponsesCounted, Responding
  <2>4. AttemptsBounded' /\ FailuresTyped'
    BY DEF AttemptsBounded, FailuresTyped, Failures, Retryable
  <2>5. PartIsReceived' BY DEF PartIsReceived, Responding
  <2>6. DownloadedIsWhole' /\ NoPartialFileLeft'
    BY DEF FailuresTyped, DownloadedIsWhole, NoPartialFileLeft
  <2> QED BY <2>2, <2>3, <2>4, <2>5, <2>6
<1>5. CASE Retry
  <2>. USE <1>5 DEF IInv, Retry, AttemptsLeft, files
  <2>1. TypeOK' BY DEF TypeOK, PCs
  <2>2. ResponsesCounted' BY DEF ResponsesCounted, Responding
  <2>3. AttemptsBounded' /\ FailuresTyped' BY DEF AttemptsBounded, FailuresTyped
  <2>4. PartIsReceived' BY DEF PartIsReceived, Responding
  <2>5. DownloadedIsWhole' /\ NoPartialFileLeft'
    BY DEF FailuresTyped, DownloadedIsWhole, NoPartialFileLeft
  <2> QED BY <2>1, <2>2, <2>3, <2>4, <2>5
<1>6. CASE Raise
  <2>1. failure \in Failures BY <1>6 DEF IInv, FailuresTyped, Raise
  <2> QED BY <1>6, <2>1, EndsKeeps DEF Raise, RemovePart, Results, Failures, Retryable
<1>7. CASE CleanupFails
  BY <1>7, EndsKeeps DEF CleanupFails, files, Results
<1> QED BY <1>1, <1>2, <1>3, <1>4, <1>5, <1>6, <1>7 DEF Loop

\* The HTTP client preserves it.
LEMMA RequestKeeps == ASSUME IInv, Request PROVE IInv'
<1>1. redirects \in 0..MaxRedirects /\ declared \in Nat \cup {Undeclared}
  BY DEF IInv, TypeOK
<1>2. CASE Redirected
  <2>1. redirects' \in 0..MaxRedirects
    BY <1>1, <1>2, DownloadAssumption DEF Redirected, Followed
  <2> QED BY <1>1, <1>2, <2>1, MovesKeeps DEF Redirected
<1>3. CASE RequestFails
  BY <1>3, AttemptFailsKeeps DEF RequestFails, Responding, Failures, Retryable
<1>4. CASE Responds BY <1>1, <1>4, MovesKeeps DEF Responds
<1> QED BY <1>2, <1>3, <1>4 DEF Request

\* OpenPart preserves it.
LEMMA OpenPartKeeps == ASSUME IInv, OpenPart PROVE IInv'
<1>. USE DEF IInv, OpenPart, Moves
<1>1. TypeOK' BY DEF TypeOK, PCs
<1>2. ResponsesCounted' /\ AttemptsBounded' /\ FailuresTyped'
  BY DEF ResponsesCounted, AttemptsBounded, FailuresTyped, Responding
<1>3. PartIsReceived' BY DownloadAssumption DEF PartIsReceived, Responding
<1>4. DownloadedIsWhole' /\ NoPartialFileLeft'
  BY DEF FailuresTyped, DownloadedIsWhole, NoPartialFileLeft
<1> QED BY <1>1, <1>2, <1>3, <1>4

\* ReadChunk preserves it: what is received is what is written.
LEMMA ReadChunkKeeps == ASSUME IInv, ReadChunk PROVE IInv'
<1>. USE DEF IInv, ReadChunk, Moves
<1>1. /\ received \in Seq(Attempts) /\ part = received /\ serial \in Attempts
      /\ Len(received) \in Nat /\ Len(received) < MaxSize
  BY DEF TypeOK, PartIsReceived, ResponsesCounted, Responding
<1>2. TypeOK' BY <1>1 DEF TypeOK, PCs
<1>3. ResponsesCounted' /\ AttemptsBounded' /\ FailuresTyped'
  BY DEF ResponsesCounted, AttemptsBounded, FailuresTyped, Responding
<1>4. PartIsReceived'
  <2>1. Len(received') <= MaxSize BY <1>1, DownloadAssumption
  <2>2. \A i \in DOMAIN received' : received'[i] = serial
    <3>1. \A i \in 1..Len(received) : received[i] = serial BY <1>1 DEF PartIsReceived
    <3> QED BY <1>1, <3>1
  <2> QED BY <1>1, <2>1, <2>2 DEF PartIsReceived, Responding
<1>5. DownloadedIsWhole' /\ NoPartialFileLeft'
  BY DEF FailuresTyped, DownloadedIsWhole, NoPartialFileLeft
<1> QED BY <1>2, <1>3, <1>4, <1>5

\* BodyEnds preserves it: only a body of the right length is renamed.
LEMMA BodyEndsKeeps == ASSUME IInv, BodyEnds PROVE IInv'
<1>1. CASE LengthWrong
  BY <1>1, AttemptFailsKeeps
  DEF BodyEnds, IntegrityFails, Responding, Failures, Retryable
<1>2. CASE ~ LengthWrong
  <2>. USE <1>2 DEF IInv, BodyEnds, Moves
  <2>1. /\ received \in Seq(Attempts) /\ part = received
        /\ target' = received /\ part' = NoFile /\ pc' = "renamed"
        /\ UNCHANGED <<received, declared, result>>
        /\ Len(received) \in Nat /\ Len(received) <= MaxSize /\ Len(received) # 0
        /\ declared \in {Undeclared, Len(received)}
    BY DEF TypeOK, PartIsReceived, LengthWrong
  <2>2. TypeOK' BY <2>1 DEF TypeOK, PCs
  <2>3. ResponsesCounted' /\ AttemptsBounded' /\ FailuresTyped'
    BY DEF ResponsesCounted, AttemptsBounded, FailuresTyped, Responding
  <2>4. PartIsReceived' BY <2>1 DEF PartIsReceived, Responding
  <2>5. TargetIsWhole'
    <3>1. OneResponse(received) BY <2>1 DEF PartIsReceived, OneResponse
    <3>2. Len(received) \in 1..MaxSize BY <2>1, DownloadAssumption
    <3> QED BY <2>1, <3>1, <3>2 DEF TargetIsWhole, OneResponse
  <2>6. DownloadedIsWhole' /\ NoPartialFileLeft'
    BY DEF FailuresTyped, DownloadedIsWhole, NoPartialFileLeft
  <2> QED BY <2>2, <2>3, <2>4, <2>5, <2>6
<1> QED BY <1>1, <1>2

\* The handling of a response preserves it.
LEMMA ResponseKeeps == ASSUME IInv, Response PROVE IInv'
<1>1. CASE NotModified
  <2>1. part = NoFile BY <1>1 DEF NotModified, IInv, PartIsReceived, Responding
  <2> QED BY <1>1, <2>1, EndsKeeps DEF NotModified, files, Results
<1>2. CASE RetryableStatus \/ TerminalStatus \/ InvalidLength
  BY <1>2, AttemptFailsKeeps
  DEF RetryableStatus, TerminalStatus, InvalidLength, Responding, Failures, Retryable
<1>3. CASE Accepted
  <2>1. redirects' \in 0..MaxRedirects /\ declared' \in Nat \cup {Undeclared}
    BY <1>3, DownloadAssumption DEF Accepted, IInv, TypeOK
  <2> QED BY <1>3, <2>1, MovesKeeps DEF Accepted
<1>4. CASE OpenPart BY <1>4, OpenPartKeeps
<1>5. CASE ReadChunk BY <1>5, ReadChunkKeeps
<1>6. CASE ReadPastCeiling \/ StreamFails \/ CloseFails
  BY <1>6, AttemptFailsKeeps
  DEF ReadPastCeiling, StreamFails, CloseFails, Responding, Failures, Retryable
<1>7. CASE BodyEnds BY <1>7, BodyEndsKeeps
<1>8. CASE ReturnDownloaded
  <2>1. part = NoFile /\ TargetIsWhole
    BY <1>8 DEF ReturnDownloaded, IInv, PartIsReceived, Responding
  <2> QED BY <1>8, <2>1, EndsKeeps DEF ReturnDownloaded, files, Results
<1> QED BY <1>1, <1>2, <1>3, <1>4, <1>5, <1>6, <1>7, <1>8 DEF Response

\* So do kills and restarts: a call that is killed leaves what it leaves.
LEMMA ProcessKeeps == ASSUME IInv, Kill \/ Restart PROVE IInv'
<1>. USE DEF IInv
<1>1. CASE Kill
  <2>. USE <1>1 DEF Kill, files
  <2>1. /\ serial \in Nat /\ kills \in Nat /\ attempt \in Nat /\ attempt <= MaxAttempts
        /\ serial <= kills * MaxAttempts + attempt
    BY DEF TypeOK, ResponsesCounted, Attempts
  <2>2. serial <= (kills + 1) * MaxAttempts
    <3>1. (kills + 1) * MaxAttempts = kills * MaxAttempts + MaxAttempts
          /\ kills * MaxAttempts \in Nat
      BY <2>1, DownloadAssumption
    <3> QED BY <2>1, <3>1, DownloadAssumption
  <2>3. TypeOK' BY <2>1, DownloadAssumption DEF TypeOK, PCs
  <2>4. ResponsesCounted' BY <2>1, <2>2 DEF ResponsesCounted, Responding
  <2>5. AttemptsBounded' /\ FailuresTyped' BY DEF AttemptsBounded, FailuresTyped
  <2>6. PartIsReceived' BY DEF PartIsReceived, Responding
  <2>7. DownloadedIsWhole' /\ NoPartialFileLeft'
    BY DEF FailuresTyped, DownloadedIsWhole, NoPartialFileLeft
  <2> QED BY <2>3, <2>4, <2>5, <2>6, <2>7
<1>2. CASE Restart
  <2>. USE <1>2 DEF Restart, files
  <2>1. 0 \in 0..MaxAttempts /\ 0 < MaxAttempts BY DownloadAssumption
  <2>2. TypeOK' BY <2>1 DEF TypeOK, PCs
  <2>3. ResponsesCounted'
    <3>1. kills * MaxAttempts \in Nat BY DownloadAssumption DEF TypeOK
    <3> QED BY <3>1 DEF ResponsesCounted, Responding
  <2>4. AttemptsBounded' /\ FailuresTyped' BY <2>1 DEF AttemptsBounded, FailuresTyped
  <2>5. PartIsReceived' BY DEF PartIsReceived, Responding
  <2>6. DownloadedIsWhole' /\ NoPartialFileLeft'
    BY DEF FailuresTyped, DownloadedIsWhole, NoPartialFileLeft
  <2> QED BY <2>2, <2>3, <2>4, <2>5, <2>6
<1> QED BY <1>1, <1>2

\* Every step preserves the invariant.
LEMMA NextKeeps == ASSUME IInv, [Next]_vars PROVE IInv'
<1>1. CASE UNCHANGED vars
  BY <1>1 DEF vars, call, files, IInv, TypeOK, ResponsesCounted, AttemptsBounded,
              FailuresTyped, PartIsReceived, TargetIsWhole, OneResponse,
              DownloadedIsWhole, NoPartialFileLeft
<1> QED BY <1>1, LoopKeeps, RequestKeeps, ResponseKeeps, ProcessKeeps
    DEF Next, Download, Finished

\* The inductive invariant holds in every reachable state.
THEOREM Invariant == Spec => []IInv
<1>1. Init => IInv
  <2>. SUFFICES ASSUME Init PROVE IInv OBVIOUS
  <2>. USE DEF Init
  <2>1. TypeOK
    <3>1. 0 \in 0..MaxAttempts /\ 0 \in 0..MaxRedirects /\ 0 \in 0..MaxKills
      BY DownloadAssumption
    <3>2. <<>> \in Seq(Attempts) BY EmptySeq
    <3> QED BY <3>1, <3>2 DEF TypeOK, PCs, Results
  <2>2. ResponsesCounted /\ AttemptsBounded /\ FailuresTyped
    BY DownloadAssumption DEF ResponsesCounted, AttemptsBounded, FailuresTyped, Responding
  <2>3. PartIsReceived /\ DownloadedIsWhole /\ NoPartialFileLeft
    BY DEF PartIsReceived, DownloadedIsWhole, NoPartialFileLeft, Responding
  <2> QED BY <2>1, <2>2, <2>3 DEF IInv
<1>2. IInv /\ [Next]_vars => IInv' BY NextKeeps
<1> QED BY <1>1, <1>2, PTL DEF Spec

\* In particular no call makes more than MaxAttempts attempts or follows more than
\* MaxRedirects redirects in one.
THEOREM TypeCorrect == Spec => []TypeOK
<1>1. IInv => TypeOK BY DEF IInv
<1> QED BY <1>1, Invariant, PTL

\* A call that returns describes the one whole body that is there.
THEOREM DownloadIsWhole == Spec => []DownloadedIsWhole
<1>1. IInv => DownloadedIsWhole BY DEF IInv
<1> QED BY <1>1, Invariant, PTL

\* A call that is over leaves a partial file only when it raises no typed error, and
\* then it does, whatever the calls killed before it left.
THEOREM NothingPartialLeft == Spec => []NoPartialFileLeft
<1>1. IInv => NoPartialFileLeft BY DEF IInv
<1> QED BY <1>1, Invariant, PTL

\* The target is only ever replaced by all that one attempt received, of the length
\* the server declared.
THEOREM OnlyWholeReplaces == Spec => ReplacedOnlyWhole
<1>. DEFINE Step == target' # target =>
                      /\ pc = "body" /\ target' = received
                      /\ declared \in {Undeclared, Len(received)}
<1>1. IInv /\ [Next]_vars => [Step]_vars
  <2>. SUFFICES ASSUME IInv, Next PROVE Step OBVIOUS
  <2>1. CASE BodyEnds
    <3>1. pc = "body" /\ part = received BY <2>1 DEF BodyEnds, IInv, PartIsReceived
    <3> QED BY <2>1, <3>1
        DEF BodyEnds, LengthWrong, IntegrityFails, AttemptFails, Fails, files
  <2>2. CASE Loop
    BY <2>2 DEF Loop, MkdirFails, Begin, BeginAttempt, UnlinkFails, Retry, Raise,
                CleanupFails, files
  <2>3. CASE Request \/ (Response /\ ~ BodyEnds)
    BY <2>3 DEF Request, Redirected, RequestFails, Responds, Response, NotModified,
                RetryableStatus, TerminalStatus, InvalidLength, Accepted, OpenPart,
                ReadChunk, ReadPastCeiling, StreamFails, ReturnDownloaded, CloseFails,
                AttemptFails, files
  <2>4. CASE Kill \/ Restart \/ Finished
    BY <2>4 DEF Kill, Restart, Finished, vars, files
  <2> QED BY <2>1, <2>2, <2>3, <2>4 DEF Next, Download
<1> QED BY <1>1, Invariant, PTL DEF Spec, ReplacedOnlyWhole

=============================================================================
