--------------------------- MODULE ConditionalPut ---------------------------
(***************************************************************************)
(* MinioConditionalObjectClient.put_object_if_absent, called concurrently  *)
(* by several writers for one object key, over a network that loses and    *)
(* delays requests and replies, and an object store that may apply a PUT   *)
(* and still answer with a server error.                                   *)
(*                                                                         *)
(* One call is a bounded loop: rewind the stream, send one conditional     *)
(* PUT, classify the reply, and when the outcome is not known ask the      *)
(* store with a HEAD request (reconciliation).  A crash of a caller is a   *)
(* writer that takes no further step.                                      *)
(***************************************************************************)
EXTENDS ConditionalObjects

CONSTANTS
    MaxAttempts,    \* MAX_CONDITIONAL_PUT_ATTEMPTS
    StoreStatuses   \* the HTTP statuses the store may answer a PUT with

VARIABLES
    pc,             \* where each call is in the loop
    attempt,        \* PUT requests each call has sent
    hadAmbiguous,   \* had_ambiguous_attempt
    position,       \* where each call's stream stands: "start" or "end"
    status,         \* status of the last reply, NoStatus after an exception
    result,         \* what each call has returned
    wire,           \* PUT requests the store has not decided yet
    object          \* what the key holds

client == <<pc, attempt, hadAmbiguous, position, result>>
vars   == <<pc, attempt, hadAmbiguous, position, status, result, wire, object>>

\* ConditionalPutDiagnostic.status_code is None when the request raised.
NoStatus == 0

SuccessStatuses   == {200, 204}
AmbiguousStatuses == {500, 502, 503, 504}
RetryableStatuses == {409} \cup AmbiguousStatuses

\* The statuses that settle that a PUT did not take effect.
SettledStatuses == StoreStatuses \ (SuccessStatuses \cup AmbiguousStatuses)

ASSUME LoopAssumption ==
    /\ MaxAttempts \in Nat \ {0}
    /\ StoreStatuses \subseteq 100..599

Requests == [writer : Writers, attempt : 1..MaxAttempts,
             from : {"start", "end"}, ifNoneMatch : BOOLEAN]

PCs == {"start", "send", "wait", "reconcile", "done"}

CallsTypeOK ==
    /\ pc           \in [Writers -> PCs]
    /\ attempt      \in [Writers -> 0..MaxAttempts]
    /\ hadAmbiguous \in [Writers -> BOOLEAN]
    /\ position     \in [Writers -> {"start", "end"}]
    /\ status       \in [Writers -> StoreStatuses \cup {NoStatus}]
    /\ result       \in [Writers -> {"none", "ok", "exists", "failed", "too_large"}]

StoreTypeOK ==
    /\ wire   \subseteq Requests
    /\ object \in Objects \cup {NoObject}

TypeOK == CallsTypeOK /\ StoreTypeOK

Init ==
    /\ pc           = [w \in Writers |-> "start"]
    /\ attempt      = [w \in Writers |-> 0]
    /\ hadAmbiguous = [w \in Writers |-> FALSE]
    /\ position     = [w \in Writers |-> "start"]
    /\ status       = [w \in Writers |-> NoStatus]
    /\ result       = [w \in Writers |-> "none"]
    /\ wire         = {}
    /\ object       = NoObject
-----------------------------------------------------------------------------
(* Seeded faults: each is a definition below with one plausible mistake.   *)

StartOfBodyNotRewound(w) == position[w]

SendOnceUnconditional(w) ==
    [writer |-> w, attempt |-> attempt[w] + 1, from |-> "start", ifNoneMatch |-> FALSE]

MatchesSizeOnly(w) ==
    /\ object.meta.size_bytes = Payload[w].size_bytes
    /\ object.meta.declared_size_bytes = Payload[w].size_bytes

SendAgainOneTooMany(w) ==
    IF attempt[w] <= MaxAttempts
      THEN pc' = [pc EXCEPT ![w] = "send"] /\ UNCHANGED result
      ELSE pc' = [pc EXCEPT ![w] = "done"] /\ result' = [result EXCEPT ![w] = "failed"]
-----------------------------------------------------------------------------
(* Steps shared by the branches of the loop.                               *)

Return(w, r) ==
    /\ pc' = [pc EXCEPT ![w] = "done"]
    /\ result' = [result EXCEPT ![w] = r]
    /\ UNCHANGED <<attempt, hadAmbiguous, position, status, wire, object>>

\* attempt + 1 < MAX_CONDITIONAL_PUT_ATTEMPTS: continue, otherwise raise
\* ConditionalPutError.
SendAgain(w) ==
    IF attempt[w] < MaxAttempts
      THEN pc' = [pc EXCEPT ![w] = "send"] /\ UNCHANGED result
      ELSE pc' = [pc EXCEPT ![w] = "done"] /\ result' = [result EXCEPT ![w] = "failed"]

\* data.seek(start_position): every attempt reads the stream from its start.
StartOfBody(w) == "start"

\* The request _send_once builds.
SendOnce(w) ==
    [writer |-> w, attempt |-> attempt[w] + 1, from |-> StartOfBody(w),
     ifNoneMatch |-> TRUE]

\* _reconcile_object: size, declared size and digest all agree.
Matches(w) ==
    /\ object.meta.size_bytes = Payload[w].size_bytes
    /\ object.meta.declared_size_bytes = Payload[w].size_bytes
    /\ object.meta.sha256 = Payload[w].sha256
-----------------------------------------------------------------------------
(* The call.                                                               *)

\* Seeded fault: the ceiling itself is refused.
BeginBelowCeiling(w) ==
    /\ pc[w] = "start"
    /\ IF Payload[w].size_bytes >= MaxPutSize
         THEN Return(w, "too_large")
         ELSE /\ pc' = [pc EXCEPT ![w] = "send"]
              /\ UNCHANGED <<attempt, hadAmbiguous, position, status, result, wire, object>>

\* The ceiling is checked before anything is read or sent.
Begin(w) ==
    /\ pc[w] = "start"
    /\ IF Payload[w].size_bytes > MaxPutSize
         THEN Return(w, "too_large")
         ELSE /\ pc' = [pc EXCEPT ![w] = "send"]
              /\ UNCHANGED <<attempt, hadAmbiguous, position, status, result, wire, object>>

\* Rewind and send; the body is read off the stream to its end.
Send(w) ==
    /\ pc[w] = "send"
    /\ pc' = [pc EXCEPT ![w] = "wait"]
    /\ wire' = wire \cup {SendOnce(w)}
    /\ attempt' = [attempt EXCEPT ![w] = @ + 1]
    /\ position' = [position EXCEPT ![w] = "end"]
    /\ status' = [status EXCEPT ![w] = NoStatus]
    /\ UNCHANGED <<hadAmbiguous, result, object>>

\* _send_once raises: a timeout, a reset, a reply that never arrives.  The
\* request itself may still be on its way to the store.
SendRaises(w) ==
    /\ pc[w] = "wait"
    /\ pc' = [pc EXCEPT ![w] = "reconcile"]
    /\ status' = [status EXCEPT ![w] = NoStatus]
    /\ UNCHANGED <<attempt, hadAmbiguous, position, result, wire, object>>

Replied(w, statuses) == pc[w] = "wait" /\ status[w] \in statuses

AcceptSuccess(w) ==
    /\ Replied(w, SuccessStatuses)
    /\ Return(w, "ok")

\* Seeded faults: 412 taken for an earlier success; a server error retried blindly.
FirstPreconditionFailedIsSuccess(w) ==
    /\ Replied(w, {412})
    /\ ~ hadAmbiguous[w]
    /\ Return(w, "ok")

ConflictReplyAnyServerError(w) ==
    /\ Replied(w, RetryableStatuses)
    /\ SendAgain(w)
    /\ UNCHANGED <<attempt, hadAmbiguous, position, status, wire, object>>

\* 412 with no ambiguous attempt behind it: somebody else holds the key.
FirstPreconditionFailed(w) ==
    /\ Replied(w, {412})
    /\ ~ hadAmbiguous[w]
    /\ Return(w, "exists")

\* 412 after an ambiguous attempt, or an ambiguous server error: ask the store.
UncertainReply(w) ==
    /\ \/ Replied(w, {412}) /\ hadAmbiguous[w]
       \/ Replied(w, AmbiguousStatuses)
    /\ pc' = [pc EXCEPT ![w] = "reconcile"]
    /\ UNCHANGED <<attempt, hadAmbiguous, position, status, result, wire, object>>

\* 409: retried as it is, and not recorded as ambiguous.
ConflictReply(w) ==
    /\ Replied(w, RetryableStatuses \ AmbiguousStatuses)
    /\ SendAgain(w)
    /\ UNCHANGED <<attempt, hadAmbiguous, position, status, wire, object>>

\* Any other status ends the call.
TerminalReply(w) ==
    /\ Replied(w, StoreStatuses \ (SuccessStatuses \cup {412} \cup RetryableStatuses))
    /\ Return(w, "failed")
-----------------------------------------------------------------------------
(* Reconciliation: one HEAD request, which may itself fail.                *)

ReconcileMatch(w) ==
    /\ pc[w] = "reconcile"
    /\ object # NoObject /\ Matches(w)
    /\ Return(w, "ok")

ReconcileConflict(w) ==
    /\ pc[w] = "reconcile"
    /\ object # NoObject /\ ~ Matches(w)
    /\ Return(w, "exists")

\* Seeded faults: absence is not remembered; any absence restarts the count.
ReconcileAbsentForgets(w) ==
    /\ pc[w] = "reconcile"
    /\ object = NoObject
    /\ SendAgain(w)
    /\ UNCHANGED <<attempt, hadAmbiguous, position, status, wire, object>>

ReconcileAbsentRestarts(w) ==
    /\ pc[w] = "reconcile"
    /\ object = NoObject
    /\ pc' = [pc EXCEPT ![w] = "start"]
    /\ attempt' = [attempt EXCEPT ![w] = 0]
    /\ UNCHANGED <<hadAmbiguous, position, status, result, wire, object>>

\* Nothing there (a MISSING_OBJECT_CODES error): remember that a request may be
\* outstanding and try again.  After a 412 the flag is already set.
ReconcileAbsent(w) ==
    /\ pc[w] = "reconcile"
    /\ object = NoObject
    /\ SendAgain(w)
    /\ hadAmbiguous' = [hadAmbiguous EXCEPT ![w] = @ \/ attempt[w] < MaxAttempts]
    /\ UNCHANGED <<attempt, position, status, wire, object>>

\* HEAD raises anything else: ConditionalPutError with a reconciliation_error.
ReconcileRaises(w) ==
    /\ pc[w] = "reconcile"
    /\ Return(w, "failed")
-----------------------------------------------------------------------------
(* The object store and the network (external).                            *)

\* A reply reaches the call only while it still waits for that request.
Reply(r, s) ==
    /\ wire' = wire \ {r}
    /\ status' = IF pc[r.writer] = "wait" /\ attempt[r.writer] = r.attempt
                   THEN [status EXCEPT ![r.writer] = s]
                   ELSE status

\* The store creates the object: If-None-Match lets it only when the key is
\* free.  The answer may still be a server error.  A body that does not fill
\* its Content-Length is never stored.
StoreApplies(r) ==
    /\ r.from = "start"
    /\ r.ifNoneMatch => object = NoObject
    /\ object' = Stored(r.writer)
    /\ \E s \in StoreStatuses \cap (SuccessStatuses \cup AmbiguousStatuses) : Reply(r, s)
    /\ UNCHANGED client

\* The store answers without applying the PUT; 412 only when the key is taken.
StoreRefuses(r) ==
    /\ \E s \in StoreStatuses \ SuccessStatuses :
         /\ s = 412 => r.ifNoneMatch /\ object # NoObject
         /\ Reply(r, s)
    /\ UNCHANGED <<client, object>>

\* The request never reaches the store.
RequestLost(r) ==
    /\ wire' = wire \ {r}
    /\ UNCHANGED <<client, status, object>>

\* Another tool puts an object under the key.
StrayAppears ==
    /\ object = NoObject
    /\ \E m \in Strays : object' = [meta |-> m, by |-> OtherTool]
    /\ UNCHANGED <<client, status, wire>>

\* Every call has returned and nothing is in flight.
Finished ==
    /\ \A w \in Writers : pc[w] = "done"
    /\ wire = {}
    /\ UNCHANGED vars
-----------------------------------------------------------------------------
HandleReply(w) ==
    \/ AcceptSuccess(w)
    \/ FirstPreconditionFailed(w)
    \/ UncertainReply(w)
    \/ ConflictReply(w)
    \/ TerminalReply(w)

Reconcile(w) ==
    \/ ReconcileMatch(w)
    \/ ReconcileConflict(w)
    \/ ReconcileAbsent(w)
    \/ ReconcileRaises(w)

Call(w) == Begin(w) \/ Send(w) \/ SendRaises(w) \/ HandleReply(w) \/ Reconcile(w)

Store(r) == StoreApplies(r) \/ StoreRefuses(r) \/ RequestLost(r)

Next ==
    \/ \E w \in Writers : Call(w)
    \/ \E r \in wire : Store(r)
    \/ StrayAppears
    \/ Finished

Spec == Init /\ [][Next]_vars

\* The SDK bounds every request by a timeout, so a waiting call always moves on.
FairSpec == Spec /\ \A w \in Writers : WF_vars(Call(w))
-----------------------------------------------------------------------------
(* Properties.                                                             *)

\* A call that returns normally left the key holding exactly its payload:
\* size, declared size and digest, whoever the creator was.
SuccessMeansStored ==
    \A w \in Writers :
        result[w] = "ok" => object # NoObject /\ object.meta = Expected(w)

\* ConditionalObjectExistsError is never raised against the call's own upload,
\* not even when an earlier attempt of it landed after the caller gave up on it.
CollisionIsForeign ==
    \A w \in Writers :
        result[w] = "exists" => object # NoObject /\ object.by # w

\* A ConditionalPutError with a settled status and no ambiguous attempt behind
\* it is final: nothing of this call is stored or can still be stored.
SettledFailureLeavesNothing ==
    \A w \in Writers :
        (result[w] = "failed" /\ status[w] \in SettledStatuses /\ ~ hadAmbiguous[w])
          => /\ object # NoObject => object.by # w
             /\ \A r \in wire : r.writer # w

\* Every request in flight, retries included, carries the payload from its first
\* byte and is conditional.
RequestsWhole == \A r \in wire : r.from = "start" /\ r.ifNoneMatch

\* An object once created under the key is never replaced or removed.
NeverOverwritten == [][object # NoObject => object' = object]_vars

\* The client and the store together implement create-once.
Promise == INSTANCE CreateOnce
KeepsPromise == Promise!Spec

\* Every call returns or raises: the retry loop is bounded.
EveryCallReturns == \A w \in Writers : <>(pc[w] = "done")

-----------------------------------------------------------------------------
(* The inductive invariant.                                                *)

Created(w)     == object # NoObject /\ object.by = w
Outstanding(w) == \E r \in wire : r.writer = w

\* What the store has told a waiting call is true, and settles its request.
RepliesTrue ==
    \A w \in Writers : pc[w] = "wait" =>
        /\ status[w] \in SuccessStatuses => object = Stored(w)
        /\ status[w] = 412 => object # NoObject
        /\ status[w] # NoStatus =>
             \A r \in wire : r.writer = w => r.attempt # attempt[w]

\* A call about to send has an attempt left.
AttemptsLeft ==
    \A w \in Writers : pc[w] \in {"start", "send"} => attempt[w] < MaxAttempts

\* The program point and the result of a call go together.
ResultsMatchControl ==
    \A w \in Writers :
        /\ pc[w] # "done" <=> result[w] = "none"
        /\ result[w] = "too_large" => TooLarge(w)
        /\ pc[w] \in {"send", "wait", "reconcile"} => ~ TooLarge(w)
        /\ result[w] = "failed" => ~ TooLarge(w)

\* Uploads are of payloads under the ceiling, from attempts already counted.
UploadsAccounted ==
    /\ \A r \in wire : r.attempt <= attempt[r.writer] /\ ~ TooLarge(r.writer)
    /\ \A w \in Writers : Created(w) => object.meta = Expected(w) /\ ~ TooLarge(w)

\* The call has been told of the fate of everything it sent.
Settled(w) ==
    \/ pc[w] \in {"start", "send"}
    \/ pc[w] = "wait" /\ status[w] \in SettledStatuses
    \/ result[w] = "too_large"
    \/ result[w] = "failed" /\ status[w] \in SettledStatuses

\* What a call knows while had_ambiguous_attempt is unset: once it is settled,
\* nothing of its own is in the store or on its way there.
Certain(w) ==
    /\ Settled(w) => ~ Created(w) /\ ~ Outstanding(w)
    /\ pc[w] = "wait" /\ status[w] = NoStatus => ~ Created(w)
    /\ pc[w] = "wait" => \A r \in wire : r.writer = w => r.attempt = attempt[w]
    /\ pc[w] = "reconcile" => status[w] \notin SettledStatuses

\* This is what lets a call take a 412 for somebody else's object.
AmbiguityTracked == \A w \in Writers : ~ hadAmbiguous[w] => Certain(w)

IInv ==
    /\ TypeOK
    /\ RequestsWhole
    /\ RepliesTrue
    /\ AttemptsLeft
    /\ ResultsMatchControl
    /\ UploadsAccounted
    /\ AmbiguityTracked
    /\ SuccessMeansStored
    /\ CollisionIsForeign

-----------------------------------------------------------------------------
(* What the design document says of a match, which the code does not keep. *)

\* "matching stored checksum and size means the earlier attempt committed"
\* (bronze-artifact-storage-design.md:169).
MatchMeansOwnCommit ==
    \A w \in Writers : result[w] = "ok" => object # NoObject /\ object.by = w
=============================================================================
