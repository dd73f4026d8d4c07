------------------------ MODULE ConditionalPutProofs ------------------------
(***************************************************************************)
(* For any set of callers, any payloads, any number of attempts and any    *)
(* statuses the store may answer with: IInv is inductive, the safety       *)
(* properties follow from it, and the calls implement CreateOnce.          *)
(*                                                                         *)
(* The heart of the argument is AmbiguityTracked.  A call may take a 412   *)
(* at its word only if none of its own uploads can have landed; the flag   *)
(* had_ambiguous_attempt is what it remembers of that, and the invariant   *)
(* says the flag is enough.  Each lemma <Action>Keeps shows one action     *)
(* preserves the invariant, conjunct by conjunct in the order of IInv.     *)
(***************************************************************************)
EXTENDS ConditionalPut, TLAPS

USE DEF PCs, NoStatus, SuccessStatuses, AmbiguousStatuses, RetryableStatuses,
        SettledStatuses

\* What an applied PUT leaves behind.
LEMMA StoredObject ==
  ASSUME NEW w \in Writers
  PROVE  /\ Stored(w) \in Objects
         /\ Stored(w) # NoObject
         /\ Stored(w).meta = Expected(w)
         /\ Stored(w).by = w
BY PayloadAssumption, StrayAssumption DEF Stored, Expected, Objects, Metadata

\* An object of another tool is nobody's upload.
LEMMA StrayObject ==
  ASSUME NEW m \in Strays, NEW o, o = [meta |-> m, by |-> OtherTool]
  PROVE  /\ o \in Objects
         /\ o # NoObject
         /\ o.by \notin Writers
BY StrayAssumption DEF Objects

\* Reconciliation compares every field of the metadata.
LEMMA MatchIsExpected ==
  ASSUME NEW w \in Writers, object \in Objects
  PROVE  Matches(w) <=> object.meta = Expected(w)
<1>1. object.meta \in Metadata BY DEF Objects
<1>2. object.meta = Expected(w) => Matches(w) BY DEF Matches, Expected
<1>3. Matches(w) => object.meta = Expected(w)
  BY <1>1
  DEF Matches, Expected, Metadata
<1> QED BY <1>2, <1>3

\* The sender and the attempt of a request in flight.
LEMMA RequestFields ==
  ASSUME NEW r \in Requests
  PROVE  /\ r.writer \in Writers
         /\ r.attempt \in 1..MaxAttempts
BY DEF Requests

\* At most one request of an attempt is ever in flight.
LEMMA OneRequestPerAttempt ==
  ASSUME IInv, NEW r \in wire, NEW q \in wire,
         q.writer = r.writer, q.attempt = r.attempt
  PROVE  q = r
<1>1. /\ q \in Requests /\ r \in Requests
      /\ q.from = r.from /\ q.ifNoneMatch = r.ifNoneMatch
  BY DEF IInv, TypeOK, StoreTypeOK, RequestsWhole, Requests
<1>2. /\ q = [writer |-> q.writer, attempt |-> q.attempt, from |-> q.from, ifNoneMatch |-> q.ifNoneMatch]
      /\ r = [writer |-> r.writer, attempt |-> r.attempt, from |-> r.from, ifNoneMatch |-> r.ifNoneMatch]
  BY <1>1 DEF Requests
<1> QED BY <1>1, <1>2

-----------------------------------------------------------------------------
(* The calls preserve the invariant.                                       *)

\* Begin preserves the invariant.
LEMMA BeginKeeps ==
  ASSUME IInv, NEW w \in Writers, Begin(w) PROVE IInv'
<1>. USE DEF IInv, TypeOK, CallsTypeOK, Begin, Return
<1>1. CallsTypeOK' BY LoopAssumption
<1>2. StoreTypeOK' BY DEF StoreTypeOK
<1>3. RequestsWhole' BY DEF RequestsWhole
<1>4. RepliesTrue' BY DEF RepliesTrue
<1>5. AttemptsLeft' BY LoopAssumption DEF AttemptsLeft
<1>6. ResultsMatchControl' BY DEF ResultsMatchControl, TooLarge
<1>7. UploadsAccounted' BY DEF UploadsAccounted, Created
<1>8. AmbiguityTracked'
  BY DEF AmbiguityTracked, Certain, Settled, Created, Outstanding
<1>9. SuccessMeansStored' BY DEF SuccessMeansStored
<1>10. CollisionIsForeign' BY DEF CollisionIsForeign
<1> QED BY <1>1, <1>2, <1>3, <1>4, <1>5, <1>6, <1>7, <1>8, <1>9, <1>10

\* Send preserves the invariant.
LEMMA SendKeeps ==
  ASSUME IInv, NEW w \in Writers, Send(w) PROVE IInv'
<1>. USE DEF IInv, TypeOK, CallsTypeOK, Send
<1>. DEFINE new == SendOnce(w)
<1>a. /\ new.writer = w /\ new.attempt = attempt[w] + 1
      /\ new.from = "start" /\ new.ifNoneMatch = TRUE
  BY DEF SendOnce, StartOfBody
<1>b. wire' = wire \cup {new} OBVIOUS
<1>c. attempt[w] \in 0..MaxAttempts /\ attempt[w] + 1 \in 1..MaxAttempts
  BY LoopAssumption DEF AttemptsLeft
<1>d. new \in Requests BY <1>c DEF Requests, SendOnce, StartOfBody
<1>. HIDE DEF new
<1>1. CallsTypeOK' BY LoopAssumption, <1>c
<1>2. StoreTypeOK' BY <1>b, <1>d DEF StoreTypeOK
<1>3. RequestsWhole' BY <1>a, <1>b DEF RequestsWhole
<1>4. RepliesTrue' BY <1>a, <1>b, <1>c DEF RepliesTrue
<1>5. AttemptsLeft' BY LoopAssumption DEF AttemptsLeft
<1>6. ResultsMatchControl' BY DEF ResultsMatchControl, TooLarge
<1>7. UploadsAccounted'
  BY <1>a, <1>b, <1>c
  DEF StoreTypeOK, Requests, UploadsAccounted, Created, ResultsMatchControl
<1>8. AmbiguityTracked'
  <2>. SUFFICES ASSUME NEW v \in Writers, ~ hadAmbiguous'[v] PROVE Certain(v)'
    BY DEF AmbiguityTracked
  <2>1. Certain(v)
    BY DEF AmbiguityTracked
  <2>2. CASE v # w
    BY <1>a, <1>b, <2>1, <2>2 DEF Certain, Settled, Created, Outstanding
  <2>3. CASE v = w
    <3>1. ~ Created(w) /\ ~ Outstanding(w)
      BY <2>1, <2>3 DEF Certain, Settled
    <3>2. pc'[w] = "wait" /\ result[w] = "none" /\ result'[w] = "none" /\ status'[w] = 0
          /\ attempt'[w] = attempt[w] + 1 /\ object' = object
      BY DEF ResultsMatchControl
    <3>3. ~ Settled(w)'
      BY <3>2, LoopAssumption DEF Settled
    <3> QED
      BY <1>a, <1>b, <2>3, <3>1, <3>2, <3>3
      DEF Certain, Created, Outstanding
  <2> QED BY <2>2, <2>3
<1>9. SuccessMeansStored' BY DEF SuccessMeansStored
<1>10. CollisionIsForeign' BY DEF CollisionIsForeign
<1> QED BY <1>1, <1>2, <1>3, <1>4, <1>5, <1>6, <1>7, <1>8, <1>9, <1>10

\* SendRaises preserves the invariant.
LEMMA SendRaisesKeeps ==
  ASSUME IInv, NEW w \in Writers, SendRaises(w) PROVE IInv'
<1>. USE DEF IInv, TypeOK, CallsTypeOK, SendRaises
<1>1. CallsTypeOK' BY LoopAssumption
<1>2. StoreTypeOK' BY DEF StoreTypeOK
<1>3. RequestsWhole' BY DEF RequestsWhole
<1>4. RepliesTrue' BY DEF RepliesTrue
<1>5. AttemptsLeft' BY LoopAssumption DEF AttemptsLeft
<1>6. ResultsMatchControl' BY DEF ResultsMatchControl, TooLarge
<1>7. UploadsAccounted' BY DEF UploadsAccounted, Created
<1>8. AmbiguityTracked'
  <2>. SUFFICES ASSUME NEW v \in Writers, ~ hadAmbiguous'[v] PROVE Certain(v)'
    BY DEF AmbiguityTracked
  <2>1. Certain(v)
    BY DEF AmbiguityTracked
  <2>2. CASE v # w
    BY <2>1, <2>2 DEF Certain, Settled, Created, Outstanding
  <2>3. CASE v = w
    BY <2>3, LoopAssumption DEF ResultsMatchControl, Certain, Settled
  <2> QED BY <2>2, <2>3
<1>9. SuccessMeansStored' BY DEF SuccessMeansStored
<1>10. CollisionIsForeign' BY DEF CollisionIsForeign
<1> QED BY <1>1, <1>2, <1>3, <1>4, <1>5, <1>6, <1>7, <1>8, <1>9, <1>10

\* AcceptSuccess preserves the invariant.
LEMMA AcceptSuccessKeeps ==
  ASSUME IInv, NEW w \in Writers, AcceptSuccess(w) PROVE IInv'
<1>. USE DEF IInv, TypeOK, CallsTypeOK, AcceptSuccess, Replied, Return
<1>1. CallsTypeOK' BY LoopAssumption
<1>2. StoreTypeOK' BY DEF StoreTypeOK
<1>3. RequestsWhole' BY DEF RequestsWhole
<1>4. RepliesTrue' BY DEF RepliesTrue
<1>5. AttemptsLeft' BY LoopAssumption DEF AttemptsLeft
<1>6. ResultsMatchControl' BY DEF ResultsMatchControl, TooLarge
<1>7. UploadsAccounted' BY DEF UploadsAccounted, Created
<1>8. AmbiguityTracked'
  BY DEF AmbiguityTracked, Certain, Settled, Created, Outstanding
<1>9. SuccessMeansStored' BY StoredObject DEF SuccessMeansStored, RepliesTrue
<1>10. CollisionIsForeign' BY DEF CollisionIsForeign
<1> QED BY <1>1, <1>2, <1>3, <1>4, <1>5, <1>6, <1>7, <1>8, <1>9, <1>10

\* FirstPreconditionFailed preserves the invariant.
LEMMA FirstPreconditionFailedKeeps ==
  ASSUME IInv, NEW w \in Writers, FirstPreconditionFailed(w) PROVE IInv'
<1>. USE DEF IInv, TypeOK, CallsTypeOK, FirstPreconditionFailed, Replied, Return
<1>1. CallsTypeOK' BY LoopAssumption
<1>2. StoreTypeOK' BY DEF StoreTypeOK
<1>3. RequestsWhole' BY DEF RequestsWhole
<1>4. RepliesTrue' BY DEF RepliesTrue
<1>5. AttemptsLeft' BY LoopAssumption DEF AttemptsLeft
<1>6. ResultsMatchControl' BY DEF ResultsMatchControl, TooLarge
<1>7. UploadsAccounted' BY DEF UploadsAccounted, Created
<1>8. AmbiguityTracked'
  BY DEF AmbiguityTracked, Certain, Settled, Created, Outstanding
<1>9. SuccessMeansStored' BY DEF SuccessMeansStored
<1>10. CollisionIsForeign'
  BY DEF CollisionIsForeign, RepliesTrue, AmbiguityTracked, Certain, Settled,
          Created
<1> QED BY <1>1, <1>2, <1>3, <1>4, <1>5, <1>6, <1>7, <1>8, <1>9, <1>10

\* UncertainReply preserves the invariant.
LEMMA UncertainReplyKeeps ==
  ASSUME IInv, NEW w \in Writers, UncertainReply(w) PROVE IInv'
<1>. USE DEF IInv, TypeOK, CallsTypeOK, UncertainReply, Replied
<1>1. CallsTypeOK' BY LoopAssumption
<1>2. StoreTypeOK' BY DEF StoreTypeOK
<1>3. RequestsWhole' BY DEF RequestsWhole
<1>4. RepliesTrue' BY DEF RepliesTrue
<1>5. AttemptsLeft' BY LoopAssumption DEF AttemptsLeft
<1>6. ResultsMatchControl' BY DEF ResultsMatchControl, TooLarge
<1>7. UploadsAccounted' BY DEF UploadsAccounted, Created
<1>8. AmbiguityTracked'
  BY DEF AmbiguityTracked, Certain, Settled, Created, Outstanding
<1>9. SuccessMeansStored' BY DEF SuccessMeansStored
<1>10. CollisionIsForeign' BY DEF CollisionIsForeign
<1> QED BY <1>1, <1>2, <1>3, <1>4, <1>5, <1>6, <1>7, <1>8, <1>9, <1>10

\* ConflictReply preserves the invariant.
LEMMA ConflictReplyKeeps ==
  ASSUME IInv, NEW w \in Writers, ConflictReply(w) PROVE IInv'
<1>. USE DEF IInv, TypeOK, CallsTypeOK, ConflictReply, Replied, SendAgain
<1>1. CallsTypeOK' BY LoopAssumption
<1>2. StoreTypeOK' BY DEF StoreTypeOK
<1>3. RequestsWhole' BY DEF RequestsWhole
<1>4. RepliesTrue' BY DEF RepliesTrue
<1>5. AttemptsLeft' BY LoopAssumption DEF AttemptsLeft
<1>6. ResultsMatchControl' BY DEF ResultsMatchControl, TooLarge
<1>7. UploadsAccounted' BY DEF UploadsAccounted, Created
<1>8. AmbiguityTracked'
  BY DEF AmbiguityTracked, Certain, Settled, Created, Outstanding
<1>9. SuccessMeansStored' BY DEF SuccessMeansStored
<1>10. CollisionIsForeign' BY DEF CollisionIsForeign
<1> QED BY <1>1, <1>2, <1>3, <1>4, <1>5, <1>6, <1>7, <1>8, <1>9, <1>10

\* TerminalReply preserves the invariant.
LEMMA TerminalReplyKeeps ==
  ASSUME IInv, NEW w \in Writers, TerminalReply(w) PROVE IInv'
<1>. USE DEF IInv, TypeOK, CallsTypeOK, TerminalReply, Replied, Return
<1>1. CallsTypeOK' BY LoopAssumption
<1>2. StoreTypeOK' BY DEF StoreTypeOK
<1>3. RequestsWhole' BY DEF RequestsWhole
<1>4. RepliesTrue' BY DEF RepliesTrue
<1>5. AttemptsLeft' BY LoopAssumption DEF AttemptsLeft
<1>6. ResultsMatchControl' BY DEF ResultsMatchControl, TooLarge
<1>7. UploadsAccounted' BY DEF UploadsAccounted, Created
<1>8. AmbiguityTracked'
  BY DEF AmbiguityTracked, Certain, Settled, Created, Outstanding
<1>9. SuccessMeansStored' BY DEF SuccessMeansStored
<1>10. CollisionIsForeign' BY DEF CollisionIsForeign
<1> QED BY <1>1, <1>2, <1>3, <1>4, <1>5, <1>6, <1>7, <1>8, <1>9, <1>10

\* ReconcileMatch preserves the invariant.
LEMMA ReconcileMatchKeeps ==
  ASSUME IInv, NEW w \in Writers, ReconcileMatch(w) PROVE IInv'
<1>. USE DEF IInv, TypeOK, CallsTypeOK, ReconcileMatch, Return
<1>1. CallsTypeOK' BY LoopAssumption
<1>2. StoreTypeOK' BY DEF StoreTypeOK
<1>3. RequestsWhole' BY DEF RequestsWhole
<1>4. RepliesTrue' BY DEF RepliesTrue
<1>5. AttemptsLeft' BY LoopAssumption DEF AttemptsLeft
<1>6. ResultsMatchControl' BY DEF ResultsMatchControl, TooLarge
<1>7. UploadsAccounted' BY DEF UploadsAccounted, Created
<1>8. AmbiguityTracked'
  BY DEF AmbiguityTracked, Certain, Settled, Created, Outstanding
<1>9. SuccessMeansStored'
  BY MatchIsExpected
  DEF SuccessMeansStored, StoreTypeOK
<1>10. CollisionIsForeign' BY DEF CollisionIsForeign
<1> QED BY <1>1, <1>2, <1>3, <1>4, <1>5, <1>6, <1>7, <1>8, <1>9, <1>10

\* ReconcileConflict preserves the invariant.
LEMMA ReconcileConflictKeeps ==
  ASSUME IInv, NEW w \in Writers, ReconcileConflict(w) PROVE IInv'
<1>. USE DEF IInv, TypeOK, CallsTypeOK, ReconcileConflict, Return
<1>1. CallsTypeOK' BY LoopAssumption
<1>2. StoreTypeOK' BY DEF StoreTypeOK
<1>3. RequestsWhole' BY DEF RequestsWhole
<1>4. RepliesTrue' BY DEF RepliesTrue
<1>5. AttemptsLeft' BY LoopAssumption DEF AttemptsLeft
<1>6. ResultsMatchControl' BY DEF ResultsMatchControl, TooLarge
<1>7. UploadsAccounted' BY DEF UploadsAccounted, Created
<1>8. AmbiguityTracked'
  BY DEF AmbiguityTracked, Certain, Settled, Created, Outstanding
<1>9. SuccessMeansStored' BY DEF SuccessMeansStored
<1>10. CollisionIsForeign'
  BY MatchIsExpected
  DEF CollisionIsForeign, StoreTypeOK, UploadsAccounted, Created
<1> QED BY <1>1, <1>2, <1>3, <1>4, <1>5, <1>6, <1>7, <1>8, <1>9, <1>10

\* ReconcileAbsent preserves the invariant.
LEMMA ReconcileAbsentKeeps ==
  ASSUME IInv, NEW w \in Writers, ReconcileAbsent(w) PROVE IInv'
<1>. USE DEF IInv, TypeOK, CallsTypeOK, ReconcileAbsent, SendAgain
<1>1. CallsTypeOK' BY LoopAssumption
<1>2. StoreTypeOK' BY DEF StoreTypeOK
<1>3. RequestsWhole' BY DEF RequestsWhole
<1>4. RepliesTrue' BY DEF RepliesTrue
<1>5. AttemptsLeft' BY LoopAssumption DEF AttemptsLeft
<1>6. ResultsMatchControl' BY DEF ResultsMatchControl, TooLarge
<1>7. UploadsAccounted' BY DEF UploadsAccounted, Created
<1>8. AmbiguityTracked'
  <2>. SUFFICES ASSUME NEW v \in Writers, ~ hadAmbiguous'[v] PROVE Certain(v)'
    BY DEF AmbiguityTracked
  <2>1. Certain(v)
    BY DEF AmbiguityTracked
  <2>2. CASE v # w
    BY <2>1, <2>2 DEF Certain, Settled, Created, Outstanding
  <2>3. CASE v = w
    <3>1. ~ (attempt[w] < MaxAttempts)
      BY <2>3
    <3> QED BY <2>1, <2>3, <3>1 DEF Certain, Settled, Created, Outstanding
  <2> QED BY <2>2, <2>3
<1>9. SuccessMeansStored' BY DEF SuccessMeansStored
<1>10. CollisionIsForeign' BY DEF CollisionIsForeign
<1> QED BY <1>1, <1>2, <1>3, <1>4, <1>5, <1>6, <1>7, <1>8, <1>9, <1>10

\* ReconcileRaises preserves the invariant.
LEMMA ReconcileRaisesKeeps ==
  ASSUME IInv, NEW w \in Writers, ReconcileRaises(w) PROVE IInv'
<1>. USE DEF IInv, TypeOK, CallsTypeOK, ReconcileRaises, Return
<1>1. CallsTypeOK' BY LoopAssumption
<1>2. StoreTypeOK' BY DEF StoreTypeOK
<1>3. RequestsWhole' BY DEF RequestsWhole
<1>4. RepliesTrue' BY DEF RepliesTrue
<1>5. AttemptsLeft' BY LoopAssumption DEF AttemptsLeft
<1>6. ResultsMatchControl' BY DEF ResultsMatchControl, TooLarge
<1>7. UploadsAccounted' BY DEF UploadsAccounted, Created
<1>8. AmbiguityTracked'
  BY DEF AmbiguityTracked, Certain, Settled, Created, Outstanding
<1>9. SuccessMeansStored' BY DEF SuccessMeansStored
<1>10. CollisionIsForeign' BY DEF CollisionIsForeign
<1> QED BY <1>1, <1>2, <1>3, <1>4, <1>5, <1>6, <1>7, <1>8, <1>9, <1>10

-----------------------------------------------------------------------------
(* The store, the network and other tools preserve the invariant.          *)

\* StoreApplies preserves the invariant.
LEMMA StoreAppliesKeeps ==
  ASSUME IInv, NEW r \in wire, StoreApplies(r) PROVE IInv'
<1>. USE DEF IInv, TypeOK, CallsTypeOK, StoreApplies, client, Reply
<1>0. r \in Requests /\ r.writer \in Writers BY RequestFields DEF StoreTypeOK
<1>m. wire' \subseteq wire OBVIOUS
<1>n. object = NoObject BY DEF RequestsWhole
<1>s. /\ object' = Stored(r.writer) /\ object' \in Objects /\ object' # NoObject
      /\ object'.meta = Expected(r.writer) /\ object'.by = r.writer
  BY <1>0, StoredObject
<1>u. \A q \in wire' : ~ (q.writer = r.writer /\ q.attempt = r.attempt)
  BY <1>m, OneRequestPerAttempt
<1>1. CallsTypeOK' BY LoopAssumption, <1>0
<1>2. StoreTypeOK' BY <1>m, <1>s DEF StoreTypeOK
<1>3. RequestsWhole' BY DEF RequestsWhole
<1>4. RepliesTrue'
  <2>. SUFFICES ASSUME NEW v \in Writers, pc'[v] = "wait"
                PROVE  (/\ status[v] \in SuccessStatuses => object = Stored(v)
                        /\ status[v] = 412 => object # NoObject
                        /\ status[v] # NoStatus =>
                             \A q \in wire : q.writer = v => q.attempt # attempt[v])'
    BY DEF RepliesTrue
  <2>1. CASE v = r.writer /\ attempt[v] = r.attempt
    BY <1>0, <1>u, <1>s, <2>1 DEF UploadsAccounted
  <2>2. CASE ~ (v = r.writer /\ attempt[v] = r.attempt)
    <3>1. status'[v] = status[v]
      BY <1>0, <2>2
    <3> QED BY <1>m, <1>n, <1>s, <3>1, StoredObject DEF RepliesTrue
  <2> QED BY <2>1, <2>2
<1>5. AttemptsLeft' BY LoopAssumption DEF AttemptsLeft
<1>6. ResultsMatchControl' BY DEF ResultsMatchControl, TooLarge
<1>7. UploadsAccounted'
  BY <1>0, <1>m, RequestFields, <1>n, <1>s
  DEF UploadsAccounted, Created
<1>8. AmbiguityTracked'
  BY <1>0, <1>m, RequestFields, <1>n, <1>s
  DEF AmbiguityTracked, Certain, Settled, Created, Outstanding, StoreTypeOK,
          RepliesTrue
<1>9. SuccessMeansStored' BY <1>0, <1>n, <1>s DEF SuccessMeansStored
<1>10. CollisionIsForeign' BY <1>0, <1>n, <1>s DEF CollisionIsForeign
<1> QED BY <1>1, <1>2, <1>3, <1>4, <1>5, <1>6, <1>7, <1>8, <1>9, <1>10

\* StoreRefuses preserves the invariant.
LEMMA StoreRefusesKeeps ==
  ASSUME IInv, NEW r \in wire, StoreRefuses(r) PROVE IInv'
<1>. USE DEF IInv, TypeOK, CallsTypeOK, StoreRefuses, client, Reply
<1>0. r \in Requests /\ r.writer \in Writers BY RequestFields DEF StoreTypeOK
<1>m. wire' \subseteq wire OBVIOUS
<1>u. \A q \in wire' : ~ (q.writer = r.writer /\ q.attempt = r.attempt)
  BY <1>m, OneRequestPerAttempt
<1>1. CallsTypeOK' BY LoopAssumption, <1>0
<1>2. StoreTypeOK' BY DEF StoreTypeOK
<1>3. RequestsWhole' BY DEF RequestsWhole
<1>4. RepliesTrue'
  <2>. SUFFICES ASSUME NEW v \in Writers, pc'[v] = "wait"
                PROVE  (/\ status[v] \in SuccessStatuses => object = Stored(v)
                        /\ status[v] = 412 => object # NoObject
                        /\ status[v] # NoStatus =>
                             \A q \in wire : q.writer = v => q.attempt # attempt[v])'
    BY DEF RepliesTrue
  <2>1. CASE v = r.writer /\ attempt[v] = r.attempt
    BY <1>0, <1>u, <1>m, <2>1 DEF UploadsAccounted
  <2>2. CASE ~ (v = r.writer /\ attempt[v] = r.attempt)
    <3>1. status'[v] = status[v]
      BY <1>0, <2>2
    <3> QED BY <1>m, <3>1 DEF RepliesTrue
  <2> QED BY <2>1, <2>2
<1>5. AttemptsLeft' BY LoopAssumption DEF AttemptsLeft
<1>6. ResultsMatchControl' BY DEF ResultsMatchControl, TooLarge
<1>7. UploadsAccounted'
  BY <1>0, <1>m, RequestFields
  DEF UploadsAccounted, Created
<1>8. AmbiguityTracked'
  <2>. SUFFICES ASSUME NEW v \in Writers, ~ hadAmbiguous'[v] PROVE Certain(v)'
    BY DEF AmbiguityTracked
  <2>1. Certain(v)
    BY DEF AmbiguityTracked
  <2>2. CASE v = r.writer /\ pc[v] = "wait" /\ attempt[v] = r.attempt
    <3>1. status[v] = NoStatus /\ ~ Created(v)
      BY <1>0, <2>1, <2>2 DEF RepliesTrue, Certain
    <3>2. ~ Created(v)' /\ ~ Outstanding(v)'
      BY <1>0, <1>m, <1>u, <2>1, <2>2, <3>1 DEF Certain, Created, Outstanding
    <3> QED BY <3>2, <1>m, <2>1, <2>2 DEF Certain
  <2>3. CASE ~ (v = r.writer /\ pc[v] = "wait" /\ attempt[v] = r.attempt)
    <3>1. status'[v] = status[v]
      BY <1>0, <2>3
    <3> QED BY <1>m, <2>1, <3>1 DEF Certain, Settled, Created, Outstanding
  <2> QED BY <2>2, <2>3
<1>9. SuccessMeansStored' BY DEF SuccessMeansStored
<1>10. CollisionIsForeign' BY DEF CollisionIsForeign
<1> QED BY <1>1, <1>2, <1>3, <1>4, <1>5, <1>6, <1>7, <1>8, <1>9, <1>10

\* RequestLost preserves the invariant.
LEMMA RequestLostKeeps ==
  ASSUME IInv, NEW r \in wire, RequestLost(r) PROVE IInv'
<1>. USE DEF IInv, TypeOK, CallsTypeOK, RequestLost, client
<1>1. CallsTypeOK' BY LoopAssumption
<1>2. StoreTypeOK' BY DEF StoreTypeOK
<1>3. RequestsWhole' BY DEF RequestsWhole
<1>4. RepliesTrue' BY DEF RepliesTrue
<1>5. AttemptsLeft' BY LoopAssumption DEF AttemptsLeft
<1>6. ResultsMatchControl' BY DEF ResultsMatchControl, TooLarge
<1>7. UploadsAccounted' BY DEF UploadsAccounted, Created
<1>8. AmbiguityTracked'
  BY DEF AmbiguityTracked, Certain, Settled, Created, Outstanding
<1>9. SuccessMeansStored' BY DEF SuccessMeansStored
<1>10. CollisionIsForeign' BY DEF CollisionIsForeign
<1> QED BY <1>1, <1>2, <1>3, <1>4, <1>5, <1>6, <1>7, <1>8, <1>9, <1>10

\* StrayAppears preserves the invariant.
LEMMA StrayAppearsKeeps ==
  ASSUME IInv, StrayAppears PROVE IInv'
<1>. USE DEF IInv, TypeOK, CallsTypeOK, StrayAppears, client
<1>s. object = NoObject /\ object' \in Objects /\ object' # NoObject /\ object'.by \notin Writers
  BY StrayObject
<1>1. CallsTypeOK' BY LoopAssumption
<1>2. StoreTypeOK' BY <1>s DEF StoreTypeOK
<1>3. RequestsWhole' BY DEF RequestsWhole
<1>4. RepliesTrue' BY <1>s, StoredObject DEF RepliesTrue
<1>5. AttemptsLeft' BY LoopAssumption DEF AttemptsLeft
<1>6. ResultsMatchControl' BY DEF ResultsMatchControl, TooLarge
<1>7. UploadsAccounted' BY <1>s DEF UploadsAccounted, Created
<1>8. AmbiguityTracked'
  BY <1>s
  DEF AmbiguityTracked, Certain, Settled, Created, Outstanding
<1>9. SuccessMeansStored' BY <1>s DEF SuccessMeansStored
<1>10. CollisionIsForeign' BY <1>s DEF CollisionIsForeign
<1> QED BY <1>1, <1>2, <1>3, <1>4, <1>5, <1>6, <1>7, <1>8, <1>9, <1>10

-----------------------------------------------------------------------------
(* The invariant.                                                          *)

\* The invariant holds before any call begins.
LEMMA InitEstablishes ==
  ASSUME Init PROVE IInv
<1>1. CallsTypeOK BY LoopAssumption DEF Init, CallsTypeOK
<1>2. StoreTypeOK BY DEF Init, StoreTypeOK
<1>3. RequestsWhole /\ RepliesTrue /\ SuccessMeansStored /\ CollisionIsForeign
  BY DEF Init, RequestsWhole, RepliesTrue, SuccessMeansStored,
          CollisionIsForeign
<1>4. AttemptsLeft BY LoopAssumption DEF Init, AttemptsLeft
<1>5. ResultsMatchControl BY DEF Init, ResultsMatchControl
<1>6. UploadsAccounted BY DEF Init, UploadsAccounted, Created
<1>7. AmbiguityTracked
  BY DEF Init, AmbiguityTracked, Certain, Settled, Created, Outstanding
<1> QED BY <1>1, <1>2, <1>3, <1>4, <1>5, <1>6, <1>7 DEF IInv, TypeOK

\* A step that changes nothing preserves it.
LEMMA StutterKeeps ==
  ASSUME IInv, UNCHANGED vars PROVE IInv'
<1>1. CallsTypeOK' /\ StoreTypeOK'
  BY DEF IInv, TypeOK, CallsTypeOK, StoreTypeOK, vars
<1>2. RequestsWhole' /\ RepliesTrue' /\ AttemptsLeft' /\ SuccessMeansStored' /\ CollisionIsForeign'
  BY DEF IInv, RequestsWhole, RepliesTrue, AttemptsLeft, SuccessMeansStored,
          CollisionIsForeign, vars
<1>3. ResultsMatchControl' BY DEF IInv, ResultsMatchControl, vars
<1>4. UploadsAccounted' BY DEF IInv, UploadsAccounted, Created, vars
<1>5. AmbiguityTracked'
  BY DEF IInv, AmbiguityTracked, Certain, Settled, Created, Outstanding, vars
<1> QED BY <1>1, <1>2, <1>3, <1>4, <1>5 DEF IInv, TypeOK

\* Every step of the system preserves it.
LEMMA NextKeeps ==
  ASSUME IInv, [Next]_vars PROVE IInv'
<1>1. ASSUME NEW w \in Writers, Call(w) PROVE IInv'
  <2>1. CASE Begin(w) BY <2>1, BeginKeeps
  <2>2. CASE Send(w) BY <2>2, SendKeeps
  <2>3. CASE SendRaises(w) BY <2>3, SendRaisesKeeps
  <2>4. CASE HandleReply(w)
    BY <2>4, AcceptSuccessKeeps, FirstPreconditionFailedKeeps,
       UncertainReplyKeeps,
       ConflictReplyKeeps, TerminalReplyKeeps DEF HandleReply
  <2>5. CASE Reconcile(w)
    BY <2>5, ReconcileMatchKeeps, ReconcileConflictKeeps, ReconcileAbsentKeeps,
       ReconcileRaisesKeeps DEF Reconcile
  <2> QED BY <1>1, <2>1, <2>2, <2>3, <2>4, <2>5 DEF Call
<1>2. ASSUME NEW r \in wire, Store(r) PROVE IInv'
  BY <1>2, StoreAppliesKeeps, StoreRefusesKeeps, RequestLostKeeps DEF Store
<1>3. CASE StrayAppears BY <1>3, StrayAppearsKeeps
<1>4. CASE Finished BY <1>4, StutterKeeps DEF Finished
<1>5. CASE UNCHANGED vars BY <1>5, StutterKeeps
<1> QED BY <1>1, <1>2, <1>3, <1>4, <1>5 DEF Next

\* The inductive invariant holds in every reachable state.
THEOREM Invariant == Spec => []IInv
<1>1. Init => IInv BY InitEstablishes
<1>2. IInv /\ [Next]_vars => IInv' BY NextKeeps
<1> QED BY <1>1, <1>2, PTL DEF Spec

\* The state of every call and of the store keeps its type; in particular no
\* call ever sends more than MaxAttempts requests.
THEOREM TypeCorrect == Spec => []TypeOK
<1>1. IInv => TypeOK BY DEF IInv
<1> QED BY <1>1, Invariant, PTL

\* For any number of callers, attempts and payloads: a call that returns
\* normally left exactly its payload under the key.
THEOREM SuccessIsTrue == Spec => []SuccessMeansStored
<1>1. IInv => SuccessMeansStored BY DEF IInv
<1> QED BY <1>1, Invariant, PTL

\* A collision is only ever reported against somebody else's object.
THEOREM CollisionIsTrue == Spec => []CollisionIsForeign
<1>1. IInv => CollisionIsForeign BY DEF IInv
<1> QED BY <1>1, Invariant, PTL

\* Every retry sends the whole payload, conditionally.
THEOREM RetriesAreWhole == Spec => []RequestsWhole
<1>1. IInv => RequestsWhole BY DEF IInv
<1> QED BY <1>1, Invariant, PTL

\* A call that failed on a settled status leaves nothing behind.
THEOREM SettledFailureIsFinal == Spec => []SettledFailureLeavesNothing
<1>1. IInv => SettledFailureLeavesNothing
  BY DEF IInv, AmbiguityTracked, Certain, Settled, Created, Outstanding,
         SettledFailureLeavesNothing
<1> QED BY <1>1, Invariant, PTL

-----------------------------------------------------------------------------
(* Steps on the key.                                                       *)

\* No step of a call touches the key: only uploads that land do.
LEMMA CallLeavesObject ==
  ASSUME NEW w \in Writers, Call(w) PROVE object' = object
BY DEF Call, Begin, Send, SendRaises, HandleReply, AcceptSuccess,
       FirstPreconditionFailed, UncertainReply, ConflictReply, TerminalReply,
       Reconcile, ReconcileMatch, ReconcileConflict, ReconcileAbsent,
       ReconcileRaises, Return

\* If-None-Match keeps every landing upload off an occupied key.
LEMMA OccupiedKeyStays ==
  ASSUME IInv, [Next]_vars PROVE object # NoObject => object' = object
<1>1. ASSUME NEW r \in wire, Store(r) PROVE object # NoObject => object' = object
  BY <1>1
  DEF IInv, RequestsWhole, Store, StoreApplies, StoreRefuses, RequestLost,
          client
<1> QED BY <1>1, CallLeavesObject DEF Next, StrayAppears, Finished, vars

\* No step of any call or of the store replaces or removes an object.
THEOREM WriteOnce == Spec => NeverOverwritten
<1>1. IInv /\ [Next]_vars => [object # NoObject => object' = object]_vars
  BY OccupiedKeyStays
<1> QED BY <1>1, Invariant, PTL DEF Spec, NeverOverwritten

-----------------------------------------------------------------------------
(* The calls and the store implement create-once.                          *)

\* A call's step is an abstract return or a stutter.
LEMMA CallKeepsPromise ==
  ASSUME IInv, NEW w \in Writers, Call(w)
  PROVE  [Promise!Next]_<<object, result>>
<1>0. object' = object BY CallLeavesObject
<1>1. CASE UNCHANGED result BY <1>0, <1>1
<1>2. ASSUME NEW r, result' = [result EXCEPT ![w] = r], pc[w] # "done",
             \/ r = "ok" /\ object # NoObject /\ object.meta = Expected(w)
             \/ r = "exists" /\ object # NoObject /\ object.by # w
             \/ r = "failed" /\ ~ TooLarge(w)
             \/ r = "too_large" /\ TooLarge(w)
      PROVE  Promise!Next
  <2>1. result[w] = "none" BY <1>2 DEF IInv, ResultsMatchControl
  <2> QED BY <1>0, <1>2, <2>1 DEF Promise!Next, Promise!ReturnOk,
       Promise!ReturnExists, Promise!ReturnFailed, Promise!ReturnTooLarge, Promise!Return,
       Promise!Expected, Promise!TooLarge, Expected, TooLarge
<1>3. /\ result'[w] = "ok" => object # NoObject /\ object.meta = Expected(w)
      /\ result'[w] = "exists" => object # NoObject /\ object.by # w
      /\ result'[w] = "failed" => ~ TooLarge(w)
      /\ result'[w] = "too_large" => TooLarge(w)
  <2>1. IInv' BY NextKeeps DEF Next
  <2> QED BY <1>0, <2>1 DEF IInv, SuccessMeansStored, CollisionIsForeign,
                            ResultsMatchControl, TooLarge
<1>4. \/ UNCHANGED result
      \/ /\ pc[w] # "done"
         /\ \E r \in {"ok", "exists", "failed", "too_large"} :
              result' = [result EXCEPT ![w] = r]
  BY DEF Call, Begin, Send, SendRaises, HandleReply, AcceptSuccess,
         FirstPreconditionFailed, UncertainReply, ConflictReply, TerminalReply,
         Reconcile, ReconcileMatch, ReconcileConflict, ReconcileAbsent,
         ReconcileRaises, Return, SendAgain, Replied
<1>5. ASSUME NEW r, result' = [result EXCEPT ![w] = r] PROVE result'[w] = r
  BY <1>5 DEF IInv, TypeOK, CallsTypeOK
<1> QED BY <1>1, <1>2, <1>3, <1>4, <1>5

\* An upload that lands is an abstract creation; losing or refusing one stutters.
LEMMA StoreKeepsPromise ==
  ASSUME IInv, NEW r \in wire, Store(r)
  PROVE  [Promise!Next]_<<object, result>>
<1>0. r.writer \in Writers BY RequestFields DEF IInv, TypeOK, StoreTypeOK
<1>1. CASE StoreApplies(r)
  <2>1. object = NoObject BY <1>1 DEF IInv, RequestsWhole, StoreApplies
  <2>2. ~ TooLarge(r.writer) BY DEF IInv, UploadsAccounted
  <2>3. result[r.writer] \in {"none", "failed"}
    BY <1>0, <2>1, <2>2 DEF IInv, TypeOK, CallsTypeOK, SuccessMeansStored,
                            CollisionIsForeign, ResultsMatchControl
  <2>4. object' = Stored(r.writer) /\ UNCHANGED result
    BY <1>1 DEF StoreApplies, client
  <2> QED BY <1>0, <2>1, <2>2, <2>3, <2>4
     DEF Promise!Next, Promise!Create, Promise!Stored, Promise!Expected,
         Promise!TooLarge, Stored, Expected, TooLarge
<1>2. CASE StoreRefuses(r) \/ RequestLost(r)
  BY <1>2 DEF StoreRefuses, RequestLost, client
<1> QED BY <1>1, <1>2 DEF Store

\* Every behaviour of the calls, the network and the store is one of the
\* create-once specification: at most one creation, and every result true.
THEOREM ImplementsCreateOnce == Spec => KeepsPromise
<1>1. Init => Promise!Init BY DEF Init, Promise!Init
<1>2. IInv /\ [Next]_vars => [Promise!Next]_<<object, result>>
  <2> SUFFICES ASSUME IInv, [Next]_vars PROVE [Promise!Next]_<<object, result>>
    OBVIOUS
  <2>1. ASSUME NEW w \in Writers, Call(w) PROVE [Promise!Next]_<<object, result>>
    BY <2>1, CallKeepsPromise
  <2>2. ASSUME NEW r \in wire, Store(r) PROVE [Promise!Next]_<<object, result>>
    BY <2>2, StoreKeepsPromise
  <2>3. CASE StrayAppears
    BY <2>3 DEF StrayAppears, client, Promise!Next, Promise!Create
  <2>4. CASE Finished \/ UNCHANGED vars
    BY <2>4 DEF Finished, vars
  <2> QED BY <2>1, <2>2, <2>3, <2>4 DEF Next
<1> QED BY <1>1, <1>2, Invariant, PTL DEF Spec, KeepsPromise, Promise!Spec
=============================================================================
