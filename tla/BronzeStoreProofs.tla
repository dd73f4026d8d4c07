-------------------------- MODULE BronzeStoreProofs --------------------------
(***************************************************************************)
(* For any calls, artifacts, versions and lengths of evidence: IInv is     *)
(* inductive, the safety properties follow from it, and concurrent calls   *)
(* of store_bundle implement BronzeLedger.                                 *)
(*                                                                         *)
(* The heart of the argument is EarlierPartsHeld: a call that has begun    *)
(* its marker has seen, under the two other keys, exactly what the marker  *)
(* says; and ObjectsAreUploads: what is stored is still what its creator   *)
(* has in hand, since a call that has begun to upload a part no longer     *)
(* changes what the part is made of.                                       *)
(***************************************************************************)
EXTENDS BronzeStore, OutcomeCounts

\* The keys of a call, and that no two parts share one.
LEMMA KeyFacts ==
  /\ \A w \in Calls, part \in Parts : Key(w, part) \in Keys
  /\ \A w \in Calls : /\ Key(w, Artifact) = Extension[w]
                      /\ Key(w, Evidence) = "records.manifest.jsonl"
                      /\ Key(w, Marker) = "_SUCCESS.json"
                      /\ Extension[w] \in Extensions
                      /\ Extension[w] \notin {"records.manifest.jsonl", "_SUCCESS.json"}
  /\ Parts = {Artifact, Evidence, Marker}
  /\ Keys = Extensions \cup {"records.manifest.jsonl", "_SUCCESS.json"}
BY BundleAssumption DEF Key, Keys, Extensions, Parts, Artifact, Evidence, Marker

\* The streams of a call.
LEMMA BodyFacts ==
  ASSUME NEW w \in Calls
  PROVE  /\ Body(w, Artifact) = snapshot[w]
         /\ Body(w, Evidence) = lines[w]
         /\ Body(w, Marker) = Manifest(w)
BY DEF Body, ArtifactBody, Artifact, Evidence, Marker

\* What an upload leaves behind is an object, of the type its key has.
LEMMA UploadIsObject ==
  ASSUME TypeOK, SnapshotVerified, NEW w \in Calls, NEW part \in Parts,
         <<w, part>> \in sent, NEW object, object = [body |-> Body(w, part), by |-> w]
  PROVE  /\ object # NoObject
         /\ part = Artifact => object \in Objects(Contents)
         /\ part = Evidence => object \in Objects(Seq(Lines))
         /\ part = Marker   => object \in Objects(Manifests)
<1>1. snapshot[w] \in Contents BY DEF SnapshotVerified
<1>2. lines[w] \in Seq(Lines) BY DEF TypeOK
<1>3. Manifest(w) \in Manifests
  BY <1>1, <1>2 DEF Manifest, Manifests, TypeOK, Versions, Extensions
<1>4. CASE part = Artifact
  BY <1>1, <1>4, BodyFacts, BundleAssumption DEF Objects, Artifact, Evidence, Marker
<1>5. CASE part = Evidence
  BY <1>2, <1>5, BodyFacts, BundleAssumption DEF Objects, Artifact, Evidence, Marker
<1>6. CASE part = Marker
  BY <1>3, <1>6, BodyFacts, BundleAssumption DEF Objects, Artifact, Evidence, Marker
<1> QED BY <1>4, <1>5, <1>6, KeyFacts

\* The lemmas about counts apply.
LEMMA CountOfIsCounted == \A s, o : CountOf(s, o) = Counted(s, o)
BY DEF CountOf, Counted

-----------------------------------------------------------------------------
(* The calls preserve the invariant.                                       *)

\* The properties of the objects are kept by a step of w that leaves the store, the
\* other calls and what w has begun to upload as they are.
LEMMA ObjectsStay ==
  ASSUME IInv, UNCHANGED store, sent \subseteq sent',
         \A v \in Calls, part \in Parts : <<v, part>> \in sent => Body(v, part)' = Body(v, part)
  PROVE  ObjectsAreUploads'
<1>1. ASSUME NEW k \in Keys, store[k] # NoObject PROVE store[k].by \in Calls
  BY <1>1, KeyFacts DEF IInv, TypeOK, Objects
<1>2. SUFFICES ASSUME NEW k \in Keys, store[k] # NoObject
               PROVE  \E part \in Parts : /\ k = Key(store[k].by, part)
                                         /\ <<store[k].by, part>> \in sent'
                                         /\ store[k].body = Body(store[k].by, part)'
  BY DEF ObjectsAreUploads, Key
<1> QED BY <1>1, <1>2 DEF IInv, ObjectsAreUploads

\* A call raises: it must not have committed, unless it says the store failed, and
\* must name somebody else's object for a collision.
LEMMA RaiseKeeps ==
  ASSUME IInv, NEW w \in Calls, NEW error \in Failures, pc[w] # "done", Raise(w, error),
         error # "store" =>
           IF Success = NoObject THEN <<w, Marker>> \notin sent ELSE Success.by # w,
         error = "exists" =>
           store[Key(w, at[w])] # NoObject /\ store[Key(w, at[w])].by # w
  PROVE  IInv'
<1>. USE DEF IInv, Raise, Finish, spool
<1>0. /\ \A v \in Calls, part \in Parts : Body(v, part)' = Body(v, part)
      /\ \A v \in Calls : Manifest(v)' = Manifest(v)
      /\ \A k, body : Holds(k, body)' <=> Holds(k, body)
  BY DEF Body, ArtifactBody, Manifest, Holds
<1>1. TypeOK' BY DEF TypeOK, PCs
<1>2. OutcomesMatchControl' BY DEF TypeOK, OutcomesMatchControl, Failures
<1>3. SpoolCounted' BY DEF SpoolCounted
<1>4. SentInOrder' BY DEF TypeOK, SentInOrder
<1>5. SnapshotVerified' BY DEF TypeOK, SnapshotVerified
<1>6. EarlierPartsHeld' BY <1>0 DEF TypeOK, EarlierPartsHeld, Reached
<1>7. ObjectsAreUploads' BY <1>0, ObjectsStay
<1>8. ReceiptsHeld' BY <1>0 DEF TypeOK, ReceiptsHeld, Failures
<1>9. OnlyStoreErrorsLeaveDoubt' BY DEF TypeOK, OnlyStoreErrorsLeaveDoubt, Success
<1>10. BlamesForeign'
  BY DEF TypeOK, BlamesForeign, Key
<1> QED BY <1>1, <1>2, <1>3, <1>4, <1>5, <1>6, <1>7, <1>8, <1>9, <1>10

\* A call goes on: to a point its uploads, its snapshot and what it has seen allow.
LEMMA MoveKeeps ==
  ASSUME IInv, NEW w \in Calls, NEW point \in PCs, NEW part \in Parts,
         pc[w] # "done", point # "done", GoTo(w, point, part),
         UNCHANGED <<local, spool, sent, store>>,
         \A q \in Parts : <<w, q>> \in sent =>
           \/ point = "evidence" /\ q = Artifact
           \/ point = "put" /\ q < part
           \/ point = "wait" /\ q <= part,
         \A q \in Parts : <<w, q>> \in sent => q <= part,
         point \in {"probe", "put", "wait", "evidence"}
           => snapshot[w] \in Contents /\ Verified(w, snapshot[w]),
         point = "evidence" \/ (point \in {"put", "wait"} /\ Evidence <= part)
           => Holds(Extension[w], snapshot[w]),
         point \in {"put", "wait"} /\ Marker <= part
           => Holds("records.manifest.jsonl", lines[w])
  PROVE  IInv'
<1>. USE DEF IInv, GoTo, spool
<1>0. /\ \A v \in Calls, q \in Parts : Body(v, q)' = Body(v, q)
      /\ \A v \in Calls : Manifest(v)' = Manifest(v)
      /\ \A k, body : Holds(k, body)' <=> Holds(k, body)
  BY DEF Body, ArtifactBody, Manifest, Holds
<1>1. TypeOK' BY DEF TypeOK
<1>2. OutcomesMatchControl' BY DEF TypeOK, OutcomesMatchControl
<1>3. SpoolCounted' BY DEF SpoolCounted
<1>4. SentInOrder' BY DEF TypeOK, SentInOrder
<1>5. SnapshotVerified' BY DEF TypeOK, SnapshotVerified
<1>6. EarlierPartsHeld'
  <2>1. pc'[w] = point /\ at'[w] = part BY DEF TypeOK
  <2>2. ASSUME NEW v \in Calls, v # w PROVE pc'[v] = pc[v] /\ at'[v] = at[v]
    BY <2>2 DEF TypeOK
  <2>3. Marker <= part => Evidence <= part BY DEF Parts, Evidence, Marker
  <2>. SUFFICES ASSUME NEW v \in Calls
       PROVE  /\ pc'[v] = "evidence" \/ Reached(v, Evidence)' \/ Reached(v, Marker)'
                   => Holds(Extension[v], snapshot[v])
              /\ Reached(v, Marker)' => Holds("records.manifest.jsonl", lines[v])
    BY <1>0 DEF EarlierPartsHeld
  <2>4. CASE v = w BY <2>1, <2>3, <2>4 DEF EarlierPartsHeld, Reached
  <2>5. CASE v # w BY <2>2, <2>5 DEF EarlierPartsHeld, Reached
  <2> QED BY <2>4, <2>5
<1>7. ObjectsAreUploads' BY <1>0, ObjectsStay
<1>8. ReceiptsHeld' BY <1>0 DEF TypeOK, ReceiptsHeld
<1>9. OnlyStoreErrorsLeaveDoubt' BY DEF TypeOK, OnlyStoreErrorsLeaveDoubt, Success
<1>10. BlamesForeign'
  <2>1. outcome[w] # "exists" BY DEF OutcomesMatchControl
  <2> QED BY <2>1 DEF TypeOK, BlamesForeign, Key
<1> QED BY <1>1, <1>2, <1>3, <1>4, <1>5, <1>6, <1>7, <1>8, <1>9, <1>10

\* What a call finds stored as its own creation, it has uploaded.
LEMMA OwnObjectsSent ==
  ASSUME IInv, NEW w \in Calls, NEW part \in Parts,
         store[Key(w, part)] # NoObject, store[Key(w, part)].by = w
  PROVE  <<w, part>> \in sent /\ store[Key(w, part)].body = Body(w, part)
<1>1. PICK q \in Parts : /\ Key(w, part) = Key(w, q)
                         /\ <<w, q>> \in sent
                         /\ store[Key(w, part)].body = Body(w, q)
  BY KeyFacts DEF IInv, ObjectsAreUploads
<1>2. q = part BY <1>1, KeyFacts
<1> QED BY <1>1, <1>2

\* A call that has not begun its marker has not committed and will not.
LEMMA UnsentUncommitted ==
  ASSUME IInv, NEW w \in Calls, <<w, Marker>> \notin sent
  PROVE  IF Success = NoObject THEN <<w, Marker>> \notin sent ELSE Success.by # w
BY OwnObjectsSent, KeyFacts DEF Success

\* It begins the marker last.
LEMMA MarkerUnsent ==
  ASSUME IInv, NEW w \in Calls, pc[w] # "done", ~ (pc[w] = "wait" /\ at[w] = Marker)
  PROVE  <<w, Marker>> \notin sent
<1>1. at[w] \in 1..3 BY DEF IInv, TypeOK, Parts
<1>2. <<w, Marker>> \in sent =>
        \/ pc[w] = "evidence" /\ Marker = Artifact
        \/ pc[w] = "put" /\ Marker < at[w]
        \/ pc[w] = "wait" /\ Marker <= at[w]
  BY KeyFacts DEF IInv, SentInOrder
<1>3. Marker = 3 /\ Artifact = 1 BY DEF Marker, Artifact
<1> QED BY <1>1, <1>2, <1>3

\* FileMissing preserves the invariant.
LEMMA FileMissingKeeps ==
  ASSUME IInv, NEW w \in Calls, FileMissing(w) PROVE IInv'
<1>1. <<w, Marker>> \notin sent BY MarkerUnsent DEF FileMissing
<1> QED BY <1>1, UnsentUncommitted, RaiseKeeps DEF FileMissing, Failures

\* FileFound preserves the invariant.
LEMMA FileFoundKeeps ==
  ASSUME IInv, NEW w \in Calls, FileFound(w) PROVE IInv'
<1>1. \A q \in Parts : <<w, q>> \notin sent
  BY DEF FileFound, IInv, SentInOrder
<1> QED BY <1>1, KeyFacts, MoveKeeps DEF FileFound, PCs

\* TakeSnapshot preserves the invariant: a content that fails a check ends the call.
LEMMA TakeSnapshotKeeps ==
  ASSUME IInv, NEW w \in Calls, TakeSnapshot(w) PROVE IInv'
<1>. USE DEF IInv, TakeSnapshot
<1>1. PICK content \in ReadFrom(w) :
        /\ snapshot' = [snapshot EXCEPT ![w] = content]
        /\ \/ Finish(w, "too_large") /\ UNCHANGED at
           \/ Finish(w, "integrity") /\ UNCHANGED at
           \/ GoTo(w, "probe", Artifact) /\ Verified(w, content)
  <2>1. PICK content \in ReadFrom(w) :
        /\ snapshot' = [snapshot EXCEPT ![w] = content]
        /\ IF content \in Oversized
              THEN Finish(w, "too_large") /\ UNCHANGED at
            ELSE IF ~ Expected(w, content)
              THEN Finish(w, "integrity") /\ UNCHANGED at
              ELSE GoTo(w, "probe", Artifact)
    OBVIOUS
  <2> QED BY <2>1 DEF Expected, Verified
<1>2. content \in Contents BY DEF TypeOK, ReadFrom
<1>3. \A part \in Parts : <<w, part>> \notin sent BY DEF SentInOrder
<1>4. pc[w] = "snapshot" /\ outcome[w] = "none" BY DEF OutcomesMatchControl
<1>5. /\ \A v \in Calls : v # w => /\ pc'[v] = pc[v] /\ at'[v] = at[v]
                                  /\ snapshot'[v] = snapshot[v]
                                  /\ outcome'[v] = outcome[v]
      /\ snapshot'[w] = content
      /\ \/ pc'[w] = "done" /\ outcome'[w] \in {"too_large", "integrity"}
         \/ pc'[w] = "probe" /\ outcome'[w] = "none" /\ Verified(w, content)
      /\ UNCHANGED <<lines, total, counts, sent, store>>
  BY <1>1, <1>4 DEF TypeOK, Finish, GoTo
<1>6. /\ \A v \in Calls, part \in Parts : <<v, part>> \in sent => Body(v, part)' = Body(v, part)
      /\ \A v \in Calls : v # w => Manifest(v)' = Manifest(v)
      /\ \A k, body : Holds(k, body)' <=> Holds(k, body)
  BY <1>3, <1>5 DEF Body, ArtifactBody, Manifest, Holds
<1>11. TypeOK' BY <1>1, <1>2, KeyFacts DEF TypeOK, Finish, GoTo, PCs, Failures
<1>12. OutcomesMatchControl' BY <1>4, <1>5 DEF OutcomesMatchControl
<1>13. SpoolCounted' BY <1>5 DEF SpoolCounted
<1>14. SentInOrder' BY <1>3, <1>5 DEF SentInOrder
<1>15. SnapshotVerified' BY <1>2, <1>3, <1>5 DEF SnapshotVerified
<1>16. EarlierPartsHeld' BY <1>3, <1>5, <1>6, KeyFacts DEF EarlierPartsHeld, Reached
<1>17. ObjectsAreUploads' BY <1>5, <1>6, ObjectsStay
<1>18. ReceiptsHeld' BY <1>5, <1>6 DEF ReceiptsHeld
<1>19. OnlyStoreErrorsLeaveDoubt'
  <2>1. IF Success = NoObject THEN <<w, Marker>> \notin sent ELSE Success.by # w
    BY <1>3, KeyFacts, UnsentUncommitted
  <2> QED BY <1>5, <2>1 DEF OnlyStoreErrorsLeaveDoubt, Success
<1>20. BlamesForeign'
  <2>1. outcome'[w] # "exists" BY <1>5
  <2>2. \A v \in Calls : outcome'[v] = "exists" => outcome[v] = "exists" /\ v # w
    BY <1>5, <2>1
  <2> QED BY <1>5, <2>2 DEF BlamesForeign, Key
<1> QED BY <1>11, <1>12, <1>13, <1>14, <1>15, <1>16, <1>17, <1>18, <1>19, <1>20

\* StagingFails preserves the invariant.
LEMMA StagingFailsKeeps ==
  ASSUME IInv, NEW w \in Calls, StagingFails(w) PROVE IInv'
<1>1. <<w, Marker>> \notin sent BY MarkerUnsent DEF StagingFails
<1> QED BY <1>1, UnsentUncommitted, RaiseKeeps DEF StagingFails, Failures

\* ProbeFinds preserves the invariant: nothing of the call is stored yet.
LEMMA ProbeFindsKeeps ==
  ASSUME IInv, NEW w \in Calls, ProbeFinds(w) PROVE IInv'
<1>1. <<w, Marker>> \notin sent BY MarkerUnsent DEF ProbeFinds
<1>2. at[w] \in Parts /\ <<w, at[w]>> \notin sent
  BY DEF ProbeFinds, IInv, TypeOK, SentInOrder
<1>3. store[Key(w, at[w])].by # w BY <1>2, OwnObjectsSent DEF ProbeFinds
<1> QED BY <1>1, <1>2, <1>3, UnsentUncommitted, RaiseKeeps DEF ProbeFinds, Failures

\* ProbeFindsNothing preserves the invariant.
LEMMA ProbeFindsNothingKeeps ==
  ASSUME IInv, NEW w \in Calls, ProbeFindsNothing(w) PROVE IInv'
<1>1. \A q \in Parts : <<w, q>> \notin sent
  BY DEF ProbeFindsNothing, IInv, SentInOrder
<1>2. snapshot[w] \in Contents /\ Verified(w, snapshot[w])
  BY DEF ProbeFindsNothing, IInv, SnapshotVerified
<1>3. PICK point \in {"put", "probe"}, part \in Parts :
        /\ GoTo(w, point, part)
        /\ point = "put" => part = Artifact
  <2>1. at[w] = LastProbe => GoTo(w, "put", Artifact) BY DEF ProbeFindsNothing
  <2>2. at[w] # LastProbe => GoTo(w, "probe", at[w] + 1) BY DEF ProbeFindsNothing
  <2>3. at[w] # LastProbe => at[w] + 1 \in Parts
    <3>1. at[w] \in 1..3 BY DEF IInv, TypeOK, Parts
    <3> QED BY <3>1 DEF LastProbe, Parts, Marker
  <2> QED BY <2>1, <2>2, <2>3, KeyFacts
<1>4. ~ (Evidence <= Artifact) /\ ~ (Marker <= Artifact) BY DEF Artifact, Evidence, Marker
<1>5. point \in PCs /\ point # "done" /\ point \notin {"evidence", "wait"} BY DEF PCs
<1>6. /\ ~ (point = "evidence" \/ (point \in {"put", "wait"} /\ Evidence <= part))
      /\ ~ (point \in {"put", "wait"} /\ Marker <= part)
  BY <1>3, <1>4, <1>5
<1>7. UNCHANGED <<local, spool, sent, store>> /\ pc[w] # "done" BY DEF ProbeFindsNothing
<1> QED BY <1>1, <1>2, <1>3, <1>5, <1>6, <1>7, MoveKeeps

\* ProbeFails preserves the invariant.
LEMMA ProbeFailsKeeps ==
  ASSUME IInv, NEW w \in Calls, ProbeFails(w) PROVE IInv'
BY RaiseKeeps DEF ProbeFails, Failures

\* Put preserves the invariant: the part begun is the one the call is at.
LEMMA PutKeeps ==
  ASSUME IInv, NEW w \in Calls, Put(w) PROVE IInv'
<1>. USE DEF IInv, Put, GoTo, spool
<1>0. /\ \A v \in Calls, q \in Parts : Body(v, q)' = Body(v, q)
      /\ \A v \in Calls : Manifest(v)' = Manifest(v)
      /\ \A k, body : Holds(k, body)' <=> Holds(k, body)
  BY DEF Body, ArtifactBody, Manifest, Holds
<1>1. pc[w] = "put" /\ at[w] \in 1..3 /\ at[w] \in Parts BY DEF TypeOK, Parts
<1>2. /\ pc'[w] = "wait" /\ at'[w] = at[w]
      /\ \A v \in Calls : v # w => pc'[v] = pc[v] /\ at'[v] = at[v]
      /\ UNCHANGED <<local, snapshot, lines, total, counts, outcome, store>>
      /\ sent' = sent \cup {<<w, at[w]>>}
  BY DEF TypeOK
<1>3. \A v \in Calls, q \in Parts :
        <<v, q>> \in sent' <=> <<v, q>> \in sent \/ (v = w /\ q = at[w])
  BY <1>2
<1>11. TypeOK' BY <1>1, <1>2 DEF TypeOK, PCs
<1>12. OutcomesMatchControl' BY <1>1, <1>2 DEF OutcomesMatchControl
<1>13. SpoolCounted' BY <1>2 DEF SpoolCounted
<1>14. SentInOrder'
  <2>1. ASSUME NEW q \in Parts, <<w, q>> \in sent' PROVE q <= at[w]
    <3>1. <<w, q>> \in sent \/ q = at[w] BY <1>3, <2>1
    <3>2. <<w, q>> \in sent => q <= at[w] BY DEF SentInOrder
    <3> QED BY <1>1, <3>1, <3>2
  <2> QED BY <1>2, <1>3, <2>1 DEF SentInOrder
<1>15. SnapshotVerified' BY <1>1, <1>2, <1>3 DEF SnapshotVerified
<1>16. EarlierPartsHeld'
  <2>1. \A v \in Calls, q \in Parts : Reached(v, q)' <=> Reached(v, q)
    BY <1>1, <1>2, <1>3 DEF Reached
  <2> QED BY <1>0, <1>1, <1>2, <2>1, KeyFacts DEF EarlierPartsHeld
<1>17. ObjectsAreUploads' BY <1>0, <1>2, ObjectsStay
<1>18. ReceiptsHeld' BY <1>0, <1>2 DEF ReceiptsHeld
<1>19. OnlyStoreErrorsLeaveDoubt'
  <2>1. outcome[w] = "none" BY <1>1 DEF OutcomesMatchControl
  <2> QED BY <1>2, <1>3, <2>1, KeyFacts DEF OnlyStoreErrorsLeaveDoubt, Success, Failures
<1>20. BlamesForeign'
  <2>1. \A v \in Calls : at'[v] = at[v] BY <1>2
  <2> QED BY <1>2, <2>1 DEF BlamesForeign, Key
<1> QED BY <1>11, <1>12, <1>13, <1>14, <1>15, <1>16, <1>17, <1>18, <1>19, <1>20

\* The receipt: the call has seen all three objects.
LEMMA ReceiptKeeps ==
  ASSUME IInv, NEW w \in Calls, pc[w] = "wait", at[w] = Marker, HoldsThis(w),
         Finish(w, "receipt"), UNCHANGED <<local, at, spool, sent, store>>
  PROVE  IInv'
<1>. USE DEF IInv, Finish, spool
<1>0. /\ \A v \in Calls, q \in Parts : Body(v, q)' = Body(v, q)
      /\ \A v \in Calls : Manifest(v)' = Manifest(v)
      /\ \A k, body : Holds(k, body)' <=> Holds(k, body)
  BY DEF Body, ArtifactBody, Manifest, Holds
<1>1. /\ Holds("_SUCCESS.json", Manifest(w))
      /\ Holds(Extension[w], snapshot[w])
      /\ Holds("records.manifest.jsonl", lines[w])
  <2>1. Holds("_SUCCESS.json", Manifest(w))
    BY KeyFacts, BodyFacts DEF Holds, HoldsThis
  <2>2. Reached(w, Marker) BY DEF Reached, Marker
  <2> QED BY <2>1, <2>2 DEF EarlierPartsHeld
<1>2. /\ \A v \in Calls : v # w => pc'[v] = pc[v] /\ outcome'[v] = outcome[v]
      /\ pc'[w] = "done" /\ outcome'[w] = "receipt"
      /\ UNCHANGED <<local, at, snapshot, lines, total, counts, sent, store>>
  BY DEF TypeOK
<1>11. TypeOK' BY DEF TypeOK, PCs
<1>12. OutcomesMatchControl' BY <1>2 DEF OutcomesMatchControl
<1>13. SpoolCounted' BY <1>2 DEF SpoolCounted
<1>14. SentInOrder' BY <1>2 DEF SentInOrder
<1>15. SnapshotVerified' BY <1>2 DEF SnapshotVerified
<1>16. EarlierPartsHeld' BY <1>0, <1>2 DEF EarlierPartsHeld, Reached
<1>17. ObjectsAreUploads' BY <1>0, <1>2, ObjectsStay
<1>18. ReceiptsHeld' BY <1>0, <1>1, <1>2 DEF ReceiptsHeld
<1>19. OnlyStoreErrorsLeaveDoubt' BY <1>2 DEF OnlyStoreErrorsLeaveDoubt, Success, Failures
<1>20. BlamesForeign' BY <1>2 DEF BlamesForeign, Key
<1> QED BY <1>11, <1>12, <1>13, <1>14, <1>15, <1>16, <1>17, <1>18, <1>19, <1>20

\* PutSucceeds preserves the invariant.
LEMMA PutSucceedsKeeps ==
  ASSUME IInv, NEW w \in Calls, PutSucceeds(w) PROVE IInv'
<1>1. /\ pc[w] = "wait" /\ HoldsThis(w) /\ at[w] \in 1..3 /\ at[w] \in Parts
      /\ UNCHANGED <<local, spool, sent, store>>
  BY DEF PutSucceeds, IInv, TypeOK, Parts
<1>2. snapshot[w] \in Contents /\ Verified(w, snapshot[w])
  BY <1>1 DEF IInv, SnapshotVerified
<1>3. \A q \in Parts : <<w, q>> \in sent => q <= at[w]
  BY <1>1 DEF IInv, SentInOrder
<1>4. CASE at[w] = Artifact
  <2>1. GoTo(w, "evidence", Evidence)
    BY <1>1, <1>4 DEF PutSucceeds, Artifact, Evidence, Marker
  <2>2. Holds(Extension[w], snapshot[w])
    BY <1>1, <1>4, KeyFacts, BodyFacts DEF HoldsThis, Holds
  <2>3. /\ \A q \in Parts : <<w, q>> \in sent => q = Artifact
        /\ Artifact <= Evidence
    BY <1>3, <1>4 DEF Parts, Artifact, Evidence
  <2> QED BY <1>1, <1>2, <2>1, <2>2, <2>3, KeyFacts, MoveKeeps DEF PCs
<1>5. CASE at[w] = Evidence
  <2>1. GoTo(w, "put", Marker)
    BY <1>1, <1>5 DEF PutSucceeds, Artifact, Evidence, Marker
  <2>2. Holds("records.manifest.jsonl", lines[w])
    BY <1>1, <1>5, KeyFacts, BodyFacts DEF HoldsThis, Holds
  <2>3. Holds(Extension[w], snapshot[w])
    <3>1. Reached(w, Evidence) BY <1>1, <1>5 DEF Reached
    <3> QED BY <3>1 DEF IInv, EarlierPartsHeld
  <2>4. \A q \in Parts : <<w, q>> \in sent => q < Marker /\ q <= Marker
    BY <1>3, <1>5 DEF Parts, Evidence, Marker
  <2> QED BY <1>1, <1>2, <2>1, <2>2, <2>3, <2>4, KeyFacts, MoveKeeps DEF PCs
<1>6. CASE at[w] = Marker
  <2>1. Finish(w, "receipt") /\ UNCHANGED at
    BY <1>1, <1>6 DEF PutSucceeds, Artifact, Evidence, Marker
  <2> QED BY <1>1, <1>6, <2>1, ReceiptKeeps
<1> QED BY <1>1, <1>4, <1>5, <1>6, KeyFacts

\* PutCollides preserves the invariant: whoever holds the marker, it is not w.
LEMMA PutCollidesKeeps ==
  ASSUME IInv, NEW w \in Calls, PutCollides(w) PROVE IInv'
<1>1. at[w] \in Parts BY DEF IInv, TypeOK
<1>2. /\ pc[w] = "wait" /\ store[Key(w, at[w])] # NoObject
      /\ store[Key(w, at[w])].by # w /\ Raise(w, "exists")
  BY DEF PutCollides
<1>3. IF Success = NoObject THEN <<w, Marker>> \notin sent ELSE Success.by # w
  <2>1. CASE at[w] = Marker BY <1>2, <2>1, KeyFacts DEF Success
  <2>2. CASE at[w] # Marker BY <1>2, <2>2, MarkerUnsent, UnsentUncommitted
  <2> QED BY <2>1, <2>2
<1> QED BY <1>1, <1>2, <1>3, RaiseKeeps DEF Failures

\* PutFails preserves the invariant.
LEMMA PutFailsKeeps ==
  ASSUME IInv, NEW w \in Calls, PutFails(w) PROVE IInv'
BY RaiseKeeps DEF PutFails, PutError, Failures

\* CloseFails preserves the invariant: it comes before the marker.
LEMMA CloseFailsKeeps ==
  ASSUME IInv, NEW w \in Calls, CloseFails(w) PROVE IInv'
<1>1. pc[w] = "wait" => at[w] # Marker
  BY DEF CloseFails, Spooled, Artifact, Evidence, Marker
<1>2. <<w, Marker>> \notin sent BY <1>1, MarkerUnsent DEF CloseFails
<1>3. PICK error \in {"staging", "evidence_staging"} : Raise(w, error)
  BY DEF CloseFails
<1> QED BY <1>2, <1>3, UnsentUncommitted, RaiseKeeps DEF CloseFails, Failures

\* ManifestTooLarge preserves the invariant: the marker is not sent yet.
LEMMA ManifestTooLargeKeeps ==
  ASSUME IInv, NEW w \in Calls, ManifestTooLarge(w) PROVE IInv'
<1>1. <<w, Marker>> \notin sent BY MarkerUnsent DEF ManifestTooLarge
<1> QED BY <1>1, UnsentUncommitted, RaiseKeeps DEF ManifestTooLarge, Failures

\* EvidenceItem preserves the invariant: nothing made of the lines is uploaded yet.
LEMMA EvidenceItemKeeps ==
  ASSUME IInv, NEW w \in Calls, EvidenceItem(w) PROVE IInv'
<1>. USE DEF IInv, EvidenceItem, Fits
<1>1. /\ pc[w] = "evidence" /\ lines[w] \in Seq(Lines) /\ Len(lines[w]) \in Nat
      /\ total[w] \in Nat /\ counts[w] \in [Outcomes -> Nat]
  BY DEF TypeOK
<1>2. PICK line \in Items(w) :
        /\ lines' = [lines EXCEPT ![w] = Append(@, line)]
        /\ counts' = [counts EXCEPT ![w][line.outcome] = @ + 1]
  OBVIOUS
<1>3. line \in Lines /\ line.version = Version[w] /\ line.outcome \in Outcomes
  BY DEF Items, Lines
<1>4. /\ \A v \in Calls : v # w => /\ lines'[v] = lines[v] /\ total'[v] = total[v]
                                  /\ counts'[v] = counts[v]
      /\ lines'[w] = Append(lines[w], line)
      /\ total'[w] = total[w] + 1
      /\ counts'[w] = [counts[w] EXCEPT ![line.outcome] = @ + 1]
      /\ UNCHANGED <<local, pc, at, snapshot, outcome, sent, store>>
  BY <1>2 DEF TypeOK
<1>5. \A q \in Parts : <<w, q>> \in sent => q = Artifact BY <1>1 DEF SentInOrder
<1>6. /\ \A v \in Calls, q \in Parts : <<v, q>> \in sent => Body(v, q)' = Body(v, q)
      /\ \A v \in Calls : v # w => Manifest(v)' = Manifest(v)
      /\ \A k, body : Holds(k, body)' <=> Holds(k, body)
  <2>1. \A v \in Calls : v # w => Manifest(v)' = Manifest(v) BY <1>4 DEF Manifest
  <2>2. \A v \in Calls, q \in Parts : v # w => Body(v, q)' = Body(v, q)
    BY <1>4, <2>1 DEF Body, ArtifactBody
  <2>3. Body(w, Artifact)' = Body(w, Artifact)
    BY <1>4 DEF Body, ArtifactBody, Artifact
  <2> QED BY <1>4, <1>5, <2>1, <2>2, <2>3 DEF Holds
<1>11. TypeOK'
  <2>1. lines' \in [Calls -> Seq(Lines)] BY <1>1, <1>2, <1>3 DEF TypeOK
  <2>2. total' \in [Calls -> Nat] BY DEF TypeOK
  <2>3. counts' \in [Calls -> [Outcomes -> Nat]] BY <1>1, <1>2, <1>3 DEF TypeOK
  <2>4. Len(lines'[w]) <= MaxLines BY <1>1, <1>3, <1>4, BundleAssumption
  <2> QED BY <1>4, <2>1, <2>2, <2>3, <2>4 DEF TypeOK
<1>12. OutcomesMatchControl' BY <1>4 DEF OutcomesMatchControl
<1>13. SpoolCounted'
  <2>1. Len(lines'[w]) = Len(lines[w]) + 1 BY <1>1, <1>3, <1>4
  <2>2. total'[w] = Len(lines'[w]) BY <1>1, <1>4, <2>1 DEF SpoolCounted
  <2>3. \A i \in DOMAIN lines'[w] : lines'[w][i].version = Version[w]
    <3>1. \A i \in DOMAIN lines[w] : lines[w][i].version = Version[w] BY DEF SpoolCounted
    <3> QED BY <1>1, <1>3, <1>4, <3>1
  <2>4. \A o \in Outcomes : counts'[w][o] = CountOf(lines'[w], o)
    <3>. SUFFICES ASSUME NEW o \in Outcomes PROVE counts'[w][o] = CountOf(lines'[w], o)
      OBVIOUS
    <3>1. counts[w][o] = CountOf(lines[w], o) BY DEF SpoolCounted
    <3>2. counts'[w][o] = IF line.outcome = o THEN counts[w][o] + 1 ELSE counts[w][o]
      BY <1>1, <1>4
    <3> QED BY <1>1, <1>3, <1>4, <3>1, <3>2, CountOfIsCounted, CountedAppend
  <2>5. \A v \in Calls : v # w =>
          /\ \A i \in DOMAIN lines'[v] : lines'[v][i].version = Version[v]
          /\ total'[v] = Len(lines'[v])
          /\ \A o \in Outcomes : counts'[v][o] = CountOf(lines'[v], o)
    BY <1>4 DEF SpoolCounted
  <2> QED BY <2>2, <2>3, <2>4, <2>5 DEF SpoolCounted
<1>14. SentInOrder' BY <1>4 DEF SentInOrder
<1>15. SnapshotVerified' BY <1>4 DEF SnapshotVerified
<1>16. EarlierPartsHeld'
  <2>1. ~ Reached(w, Marker)' /\ \A v \in Calls, q \in Parts : Reached(v, q)' <=> Reached(v, q)
    BY <1>1, <1>4, <1>5, KeyFacts DEF Reached, Artifact, Marker
  <2> QED BY <1>4, <1>6, <2>1, KeyFacts DEF EarlierPartsHeld
<1>17. ObjectsAreUploads' BY <1>4, <1>6, ObjectsStay
<1>18. ReceiptsHeld'
  <2>1. outcome[w] # "receipt" BY <1>1 DEF OutcomesMatchControl
  <2> QED BY <1>4, <1>6, <2>1 DEF ReceiptsHeld
<1>19. OnlyStoreErrorsLeaveDoubt' BY <1>4 DEF OnlyStoreErrorsLeaveDoubt, Success
<1>20. BlamesForeign' BY <1>4 DEF BlamesForeign, Key
<1> QED BY <1>11, <1>12, <1>13, <1>14, <1>15, <1>16, <1>17, <1>18, <1>19, <1>20

\* The failures of the evidence preserve the invariant.
LEMMA EvidenceFailsKeeps ==
  ASSUME IInv, NEW w \in Calls,
         EvidenceTooLarge(w) \/ EvidenceRefused(w) \/ EvidenceSpoolFails(w)
  PROVE  IInv'
<1>1. PICK error \in {"too_large", "serialization", "evidence_staging"} :
        pc[w] = "evidence" /\ Raise(w, error)
  BY DEF EvidenceTooLarge, EvidenceRefused, EvidenceSpoolFails
<1>2. <<w, Marker>> \notin sent BY <1>1, MarkerUnsent
<1> QED BY <1>1, <1>2, UnsentUncommitted, RaiseKeeps DEF Failures

\* EvidenceEnds preserves the invariant.
LEMMA EvidenceEndsKeeps ==
  ASSUME IInv, NEW w \in Calls, EvidenceEnds(w) PROVE IInv'
<1>1. \A q \in Parts : <<w, q>> \in sent => q < Evidence /\ q <= Evidence
  BY DEF EvidenceEnds, IInv, SentInOrder, Artifact, Evidence
<1>2. snapshot[w] \in Contents /\ Verified(w, snapshot[w]) /\ Holds(Extension[w], snapshot[w])
  BY DEF EvidenceEnds, IInv, SnapshotVerified, EarlierPartsHeld
<1>3. ~ Marker <= Evidence BY DEF Evidence, Marker
<1> QED BY <1>1, <1>2, <1>3, KeyFacts, MoveKeeps DEF EvidenceEnds, PCs

-----------------------------------------------------------------------------
(* The world preserves the invariant.                                      *)

\* A key that holds something is not touched by an upload that lands.
LEMMA LandsLeavesOthers ==
  ASSUME IInv, NEW w \in Calls, NEW part \in Parts, Lands(w, part)
  PROVE  /\ Key(w, part) \in Keys
         /\ store'[Key(w, part)] = [body |-> Body(w, part), by |-> w]
         /\ \A k \in Keys : k # Key(w, part) => store'[k] = store[k]
         /\ \A k \in Keys : store[k] # NoObject => store'[k] = store[k]
         /\ store'[Key(w, part)] # NoObject
BY KeyFacts, UploadIsObject DEF IInv, TypeOK, Lands

\* An upload that lands preserves the invariant.
LEMMA LandsKeeps ==
  ASSUME IInv, NEW w \in Calls, NEW part \in Parts, Lands(w, part)
  PROVE  IInv'
<1>. USE DEF IInv, spool
<1>1. /\ <<w, part>> \in sent /\ store[Key(w, part)] = NoObject
      /\ UNCHANGED <<local, pc, at, snapshot, lines, total, counts, outcome, sent>>
  BY DEF Lands
<1>. DEFINE new == [body |-> Body(w, part), by |-> w]
<1>2. /\ Key(w, part) \in Keys /\ store'[Key(w, part)] = new
      /\ \A k \in Keys : k # Key(w, part) => store'[k] = store[k]
      /\ \A k \in Keys : store[k] # NoObject => store'[k] = store[k]
      /\ new # NoObject
  BY LandsLeavesOthers, UploadIsObject
<1>3. /\ \A v \in Calls, q \in Parts : Body(v, q)' = Body(v, q)
      /\ \A v \in Calls : Manifest(v)' = Manifest(v)
  BY <1>1 DEF Body, ArtifactBody, Manifest
<1>4. new.by = w /\ new.body = Body(w, part) OBVIOUS
<1>5. \A body : \A k \in Keys : Holds(k, body) => Holds(k, body)'
  BY <1>2 DEF Holds
<1>11. TypeOK'
  <2>1. DOMAIN store' = Keys BY DEF Lands, TypeOK
  <2>2. /\ part = Artifact => new \in Objects(Contents)
        /\ part = Evidence => new \in Objects(Seq(Lines))
        /\ part = Marker   => new \in Objects(Manifests)
    BY <1>1, UploadIsObject
  <2>. HIDE DEF new
  <2>3. /\ part = Artifact => Key(w, part) \in Extensions
        /\ part = Evidence => Key(w, part) = "records.manifest.jsonl"
        /\ part = Marker => Key(w, part) = "_SUCCESS.json"
        /\ part \in {Artifact, Evidence, Marker}
        /\ Extensions \cap {"records.manifest.jsonl", "_SUCCESS.json"} = {}
    BY KeyFacts, BundleAssumption
  <2>4. ASSUME NEW k \in Extensions
        PROVE  store'[k] \in Objects(Contents) \cup {NoObject}
    <3>1. k \in Keys /\ store[k] \in Objects(Contents) \cup {NoObject}
      BY KeyFacts DEF TypeOK
    <3>2. CASE k = Key(w, part) BY <1>2, <2>2, <2>3, <3>2
    <3>3. CASE k # Key(w, part) BY <1>2, <3>1, <3>3
    <3> QED BY <3>2, <3>3
  <2>5. store'["records.manifest.jsonl"] \in Objects(Seq(Lines)) \cup {NoObject}
    <3>1. CASE part = Evidence BY <1>2, <2>2, <2>3, <3>1
    <3>2. CASE part # Evidence
      <4>1. store'["records.manifest.jsonl"] = store["records.manifest.jsonl"]
        BY <1>2, <2>3, <3>2, KeyFacts
      <4> QED BY <4>1 DEF TypeOK
    <3> QED BY <3>1, <3>2
  <2>6. store'["_SUCCESS.json"] \in Objects(Manifests) \cup {NoObject}
    <3>1. CASE part = Marker BY <1>2, <2>2, <2>3, <3>1
    <3>2. CASE part # Marker
      <4>1. store'["_SUCCESS.json"] = store["_SUCCESS.json"]
        BY <1>2, <2>3, <3>2, KeyFacts
      <4> QED BY <4>1 DEF TypeOK
    <3> QED BY <3>1, <3>2
  <2> QED BY <1>1, <2>1, <2>4, <2>5, <2>6 DEF TypeOK
<1>12. OutcomesMatchControl' BY <1>1 DEF OutcomesMatchControl
<1>13. SpoolCounted' BY <1>1 DEF SpoolCounted
<1>14. SentInOrder' BY <1>1 DEF SentInOrder
<1>15. SnapshotVerified' BY <1>1 DEF SnapshotVerified
<1>16. EarlierPartsHeld'
  <2>1. \A v \in Calls, q \in Parts : Reached(v, q)' <=> Reached(v, q) BY <1>1 DEF Reached
  <2> QED BY <1>1, <1>5, <2>1, KeyFacts DEF EarlierPartsHeld
<1>17. ObjectsAreUploads'
  <2>. SUFFICES ASSUME NEW k \in Keys, store'[k] # NoObject
                PROVE  \E q \in Parts : /\ k = Key(store'[k].by, q)
                                       /\ <<store'[k].by, q>> \in sent'
                                       /\ store'[k].body = Body(store[k].by, q)'
    BY DEF ObjectsAreUploads, Key
  <2>. HIDE DEF new
  <2>1. CASE k = Key(w, part)
    <3>1. store'[k].by = w /\ store'[k].body = Body(w, part)' BY <1>2, <1>3, <1>4, <2>1
    <3> QED BY <1>1, <2>1, <3>1
  <2>2. CASE k # Key(w, part)
    <3>1. store'[k] = store[k] /\ store[k] # NoObject BY <1>2, <2>2
    <3>2. store[k].by \in Calls BY <3>1, KeyFacts DEF TypeOK, Objects
    <3>3. PICK q \in Parts : /\ k = Key(store[k].by, q)
                             /\ <<store[k].by, q>> \in sent
                             /\ store[k].body = Body(store[k].by, q)
      BY <3>1 DEF ObjectsAreUploads
    <3> QED BY <1>1, <1>3, <3>1, <3>2, <3>3
  <2> QED BY <2>1, <2>2
<1>18. ReceiptsHeld'
  BY <1>1, <1>3, <1>5, KeyFacts DEF ReceiptsHeld
<1>19. OnlyStoreErrorsLeaveDoubt'
  <2>. HIDE DEF new
  <2>1. CASE Success = NoObject /\ part = Marker
    BY <1>1, <1>2, <1>4, <2>1, KeyFacts DEF OnlyStoreErrorsLeaveDoubt, Success
  <2>2. CASE Success # NoObject \/ part # Marker
    <3>1. Success' = Success BY <1>2, <2>2, KeyFacts DEF Success
    <3> QED BY <1>1, <3>1 DEF OnlyStoreErrorsLeaveDoubt
  <2> QED BY <2>1, <2>2
<1>20. BlamesForeign'
  BY <1>1, <1>2, KeyFacts DEF BlamesForeign, TypeOK, Key
<1> QED BY <1>11, <1>12, <1>13, <1>14, <1>15, <1>16, <1>17, <1>18, <1>19, <1>20

\* So does whoever edits an acquisition file: nothing stored was read from it since.
LEMMA EditFileKeeps ==
  ASSUME IInv, NEW w \in Calls, EditFile(w) PROVE IInv'
<1>. USE DEF IInv, spool
<1>1. UNCHANGED <<pc, at, snapshot, lines, total, counts, outcome, sent, store>>
  BY DEF EditFile
<1>2. /\ \A v \in Calls, q \in Parts : Body(v, q)' = Body(v, q)
      /\ \A v \in Calls : Manifest(v)' = Manifest(v)
      /\ \A k, body : Holds(k, body)' <=> Holds(k, body)
  BY <1>1 DEF Body, ArtifactBody, Manifest, Holds
<1>11. TypeOK' BY DEF TypeOK, EditFile
<1>12. OutcomesMatchControl' BY <1>1 DEF OutcomesMatchControl
<1>13. SpoolCounted' BY <1>1 DEF SpoolCounted
<1>14. SentInOrder' BY <1>1 DEF SentInOrder
<1>15. SnapshotVerified' BY <1>1 DEF SnapshotVerified
<1>16. EarlierPartsHeld' BY <1>1, <1>2 DEF EarlierPartsHeld, Reached
<1>17. ObjectsAreUploads' BY <1>1, <1>2, ObjectsStay
<1>18. ReceiptsHeld' BY <1>1, <1>2 DEF ReceiptsHeld
<1>19. OnlyStoreErrorsLeaveDoubt' BY <1>1 DEF OnlyStoreErrorsLeaveDoubt, Success
<1>20. BlamesForeign' BY <1>1 DEF BlamesForeign, Key
<1> QED BY <1>11, <1>12, <1>13, <1>14, <1>15, <1>16, <1>17, <1>18, <1>19, <1>20

\* A step that changes nothing preserves the invariant.
LEMMA StutterKeeps ==
  ASSUME IInv, UNCHANGED vars PROVE IInv'
<1>. USE DEF IInv, vars, spool
<1>1. /\ \A v \in Calls, q \in Parts : Body(v, q)' = Body(v, q)
      /\ \A v \in Calls : Manifest(v)' = Manifest(v)
      /\ \A k, body : Holds(k, body)' <=> Holds(k, body)
  BY DEF Body, ArtifactBody, Manifest, Holds
<1>2. TypeOK' BY DEF TypeOK
<1>3. OutcomesMatchControl' /\ SpoolCounted' /\ SentInOrder' /\ SnapshotVerified'
  BY DEF OutcomesMatchControl, SpoolCounted, SentInOrder, SnapshotVerified
<1>4. EarlierPartsHeld' BY <1>1 DEF EarlierPartsHeld, Reached
<1>5. ObjectsAreUploads' BY <1>1, ObjectsStay
<1>6. ReceiptsHeld' BY <1>1 DEF ReceiptsHeld
<1>7. OnlyStoreErrorsLeaveDoubt' BY DEF OnlyStoreErrorsLeaveDoubt, Success
<1>8. BlamesForeign' BY DEF BlamesForeign, Key
<1> QED BY <1>2, <1>3, <1>4, <1>5, <1>6, <1>7, <1>8

\* The invariant holds initially.
LEMMA InitEstablishes == ASSUME Init PROVE IInv
<1>. USE DEF Init
<1>1. TypeOK BY KeyFacts, BundleAssumption DEF TypeOK, PCs
<1>2. OutcomesMatchControl BY DEF OutcomesMatchControl
<1>3. SpoolCounted BY CountOfIsCounted, CountedEmpty, BundleAssumption DEF SpoolCounted
<1>4. SentInOrder /\ SnapshotVerified /\ EarlierPartsHeld
  BY DEF SentInOrder, SnapshotVerified, EarlierPartsHeld, Reached
<1>5. ObjectsAreUploads BY DEF ObjectsAreUploads
<1>6. ReceiptsHeld /\ OnlyStoreErrorsLeaveDoubt /\ BlamesForeign
  BY DEF ReceiptsHeld, OnlyStoreErrorsLeaveDoubt, BlamesForeign, Failures
<1> QED BY <1>1, <1>2, <1>3, <1>4, <1>5, <1>6 DEF IInv

\* Every step of the system preserves it.
LEMMA NextKeeps ==
  ASSUME IInv, [Next]_vars PROVE IInv'
<1>1. ASSUME NEW w \in Calls, StoreBundle(w) PROVE IInv'
  <2>1. CASE Snapshot(w)
    BY <2>1, FileMissingKeeps, FileFoundKeeps, TakeSnapshotKeeps, StagingFailsKeeps
    DEF Snapshot
  <2>2. CASE Probe(w)
    BY <2>2, ProbeFindsKeeps, ProbeFindsNothingKeeps, ProbeFailsKeeps DEF Probe
  <2>3. CASE PutPart(w)
    BY <2>3, PutKeeps, PutSucceedsKeeps, PutCollidesKeeps, PutFailsKeeps, CloseFailsKeeps,
       ManifestTooLargeKeeps
    DEF PutPart
  <2>4. CASE WriteEvidence(w)
    BY <2>4, EvidenceItemKeeps, EvidenceFailsKeeps, EvidenceEndsKeeps DEF WriteEvidence
  <2> QED BY <1>1, <2>1, <2>2, <2>3, <2>4 DEF StoreBundle
<1>2. ASSUME NEW w \in Calls, EditFile(w) PROVE IInv' BY <1>2, EditFileKeeps
<1>3. ASSUME NEW w \in Calls, NEW part \in Parts, Lands(w, part) PROVE IInv'
  BY <1>3, LandsKeeps
<1>4. CASE Finished BY <1>4, StutterKeeps DEF Finished
<1>5. CASE UNCHANGED vars BY <1>5, StutterKeeps
<1> QED BY <1>1, <1>2, <1>3, <1>4, <1>5 DEF Next

\* The inductive invariant holds in every reachable state.
THEOREM Invariant == Spec => []IInv
<1>1. Init => IInv BY InitEstablishes
<1>2. IInv /\ [Next]_vars => IInv' BY NextKeeps
<1> QED BY <1>1, <1>2, PTL DEF Spec

\* The state of every call and every object keeps its type.
THEOREM TypeCorrect == Spec => []TypeOK
<1>1. IInv => TypeOK BY DEF IInv
<1> QED BY <1>1, Invariant, PTL

-----------------------------------------------------------------------------
(* The safety properties.                                                  *)

\* A marker says what its creator has, and the creator has seen it stored.
LEMMA MarkerIsManifest ==
  ASSUME IInv, Success # NoObject, NEW v, v = Success.by
  PROVE  /\ v \in Calls
         /\ <<v, Marker>> \in sent
         /\ Success.body = Manifest(v)
         /\ snapshot[v] \in Contents /\ Verified(v, snapshot[v])
         /\ Held(Extension[v]) = snapshot[v] /\ store[Extension[v]] # NoObject
         /\ Held("records.manifest.jsonl") = lines[v]
         /\ store["records.manifest.jsonl"] # NoObject
<1>1. v \in Calls BY KeyFacts DEF IInv, TypeOK, Objects, Success
<1>2. <<v, Marker>> \in sent /\ Success.body = Body(v, Marker)
  BY <1>1, OwnObjectsSent, KeyFacts DEF Success
<1>3. Success.body = Manifest(v) BY <1>1, <1>2, BodyFacts
<1>4. snapshot[v] \in Contents /\ Verified(v, snapshot[v])
  BY <1>1, <1>2, KeyFacts DEF IInv, SnapshotVerified
<1>5. Holds(Extension[v], snapshot[v]) /\ Holds("records.manifest.jsonl", lines[v])
  BY <1>1, <1>2 DEF IInv, EarlierPartsHeld, Reached
<1> QED BY <1>1, <1>2, <1>3, <1>4, <1>5 DEF Holds, Held

\* For any number of concurrent calls: a prefix with a completion marker is whole.
THEOREM CommitIsWhole == Spec => []CommittedBundleComplete
<1>1. IInv => CommittedBundleComplete
  <2>. SUFFICES ASSUME IInv, Success # NoObject
       PROVE  LET manifest == Success.body IN
              /\ Held(manifest.artifact.key) = manifest.artifact.body
              /\ Held("records.manifest.jsonl") = manifest.evidence
              /\ manifest.total = Len(manifest.evidence)
              /\ \A o \in Outcomes : manifest.counts[o] = CountOf(manifest.evidence, o)
    BY DEF CommittedBundleComplete
  <2>. DEFINE v == Success.by
  <2>1. /\ v \in Calls /\ Success.body = Manifest(v)
        /\ Held(Extension[v]) = snapshot[v] /\ Held("records.manifest.jsonl") = lines[v]
    BY MarkerIsManifest
  <2>2. /\ total[v] = Len(lines[v])
        /\ \A o \in Outcomes : counts[v][o] = CountOf(lines[v], o)
    BY <2>1 DEF IInv, SpoolCounted
  <2>. HIDE DEF v
  <2> QED BY <2>1, <2>2 DEF Manifest
<1> QED BY <1>1, Invariant, PTL

\* A receipt is of a committed bundle, and references what that bundle holds.
THEOREM ReceiptIsOfCommit == Spec => []ReceiptMeansCommitted
<1>1. IInv => ReceiptMeansCommitted
  BY DEF IInv, ReceiptsHeld, ReceiptMeansCommitted, Holds, Held
<1> QED BY <1>1, Invariant, PTL

\* Only ObjectStoreError can hide a commit, made or still to come.
THEOREM DoubtIsTheStores == Spec => []OnlyStoreErrorsLeaveDoubt
<1>1. IInv => OnlyStoreErrorsLeaveDoubt BY DEF IInv
<1> QED BY <1>1, Invariant, PTL

\* Whoever holds the highest part that is stored was not refused: what it was refused
\* for would be another's, of that part or of a higher one.
LEMMA HighestNotRefused ==
  ASSUME IInv, NEW k \in Keys, store[k] # NoObject, NEW part \in Parts,
         k = Key(store[k].by, part),
         \A v \in Calls, q \in Parts : q > part => store[Key(v, q)] = NoObject
  PROVE  outcome[store[k].by] # "exists"
<1>. DEFINE v == store[k].by
<1>1. v \in Calls BY KeyFacts DEF IInv, TypeOK, Objects
<1>2. <<v, part>> \in sent BY <1>1, OwnObjectsSent
<1>3. part <= at[v] /\ at[v] \in Parts BY <1>1, <1>2 DEF IInv, SentInOrder, TypeOK
<1>. HIDE DEF v
<1>4. CASE at[v] = part BY <1>1, <1>4 DEF IInv, BlamesForeign, v
<1>5. CASE at[v] > part BY <1>1, <1>3, <1>5 DEF IInv, BlamesForeign, v
<1> QED BY <1>3, <1>4, <1>5 DEF Parts, v

\* However many calls race: of those that hold something of a prefix, one is not told
\* that it is taken.
THEOREM CollisionIsTrue == Spec => []CollisionsNotMutual
<1>1. IInv => CollisionsNotMutual
  <2>. SUFFICES ASSUME IInv, NEW w \in Calls, outcome[w] = "exists"
                PROVE  \E k \in Keys : store[k] # NoObject /\ outcome[store[k].by] # "exists"
    BY DEF CollisionsNotMutual
  <2>1. PICK k \in Keys, part \in Parts :
          /\ store[k] # NoObject /\ k = Key(store[k].by, part)
          /\ \A v \in Calls, q \in Parts : q > part => store[Key(v, q)] = NoObject
    <3>1. \A v \in Calls : /\ Key(v, Marker) = "_SUCCESS.json"
                          /\ Key(v, Evidence) = "records.manifest.jsonl"
      BY KeyFacts
    <3>2. \A q \in Parts :
            /\ ~ (q > Marker)
            /\ (q > Evidence => q = Marker)
            /\ (q > Artifact => q \in {Evidence, Marker})
      BY DEF Parts, Artifact, Evidence, Marker
    <3>3. \A k \in Keys : store[k] # NoObject =>
            \E q \in Parts : k = Key(store[k].by, q) /\ store[k].by \in Calls
      <4>1. \A k \in Keys : store[k] # NoObject => store[k].by \in Calls
        BY KeyFacts DEF IInv, TypeOK, Objects
      <4>2. ObjectsAreUploads BY DEF IInv
      <4> QED BY <4>1, <4>2 DEF ObjectsAreUploads
    <3>4. CASE Success # NoObject
      <4>1. "_SUCCESS.json" \in Keys /\ Success.by \in Calls
        BY <3>3, <3>4, KeyFacts DEF Success
      <4>2. "_SUCCESS.json" = Key(Success.by, Marker) BY <3>1, <4>1
      <4>3. \A v \in Calls, q \in Parts : q > Marker => store[Key(v, q)] = NoObject
        BY <3>2
      <4> QED BY <3>4, <4>1, <4>2, <4>3, KeyFacts DEF Success
    <3>5. CASE Success = NoObject /\ Records # NoObject
      <4>1. "records.manifest.jsonl" \in Keys /\ Records.by \in Calls
        BY <3>3, <3>5, KeyFacts DEF Records
      <4>2. "records.manifest.jsonl" = Key(Records.by, Evidence) BY <3>1, <4>1
      <4>3. \A v \in Calls, q \in Parts : q > Evidence => store[Key(v, q)] = NoObject
        BY <3>1, <3>2, <3>5 DEF Success
      <4> QED BY <3>5, <4>1, <4>2, <4>3, KeyFacts DEF Records
    <3>6. CASE Success = NoObject /\ Records = NoObject
      <4>1. at[w] \in Parts /\ store[Key(w, at[w])] # NoObject
        BY DEF IInv, BlamesForeign, TypeOK
      <4>2. at[w] = Artifact BY <3>1, <3>6, <4>1, KeyFacts DEF Success, Records
      <4>3. PICK key \in Keys : key = Key(w, Artifact) /\ store[key] # NoObject
        BY <4>1, <4>2, KeyFacts
      <4>4. PICK q \in Parts : key = Key(store[key].by, q) /\ store[key].by \in Calls
        BY <3>3, <4>3
      <4>5. q = Artifact BY <3>1, <3>6, <4>3, <4>4, KeyFacts DEF Success, Records
      <4>6. \A v \in Calls, r \in Parts : r > Artifact => store[Key(v, r)] = NoObject
        BY <3>1, <3>2, <3>6 DEF Success, Records
      <4> QED BY <4>3, <4>4, <4>5, <4>6, KeyFacts
    <3> QED BY <3>4, <3>5, <3>6
  <2> QED BY <2>1, HighestNotRefused
<1> QED BY <1>1, Invariant, PTL

\* What is stored as an artifact passed the checks of the call that stored it.
THEOREM ArtifactsVerified == Spec => []StoredArtifactsVerified
<1>1. IInv => StoredArtifactsVerified
  <2>. SUFFICES ASSUME IInv, NEW k \in Extensions, store[k] # NoObject
       PROVE  /\ store[k].body = snapshot[store[k].by]
              /\ Verified(store[k].by, store[k].body)
    BY DEF StoredArtifactsVerified
  <2>. DEFINE v == store[k].by
  <2>1. k \in Keys /\ v \in Calls BY KeyFacts DEF IInv, TypeOK, Objects
  <2>2. PICK part \in Parts : k = Key(v, part) /\ <<v, part>> \in sent
                              /\ store[k].body = Body(v, part)
    BY <2>1 DEF IInv, ObjectsAreUploads
  <2>3. part = Artifact BY <2>1, <2>2, KeyFacts, BundleAssumption
  <2>4. store[k].body = snapshot[v] BY <2>1, <2>2, <2>3, BodyFacts
  <2>5. Verified(v, snapshot[v]) BY <2>1, <2>2 DEF IInv, SnapshotVerified
  <2> QED BY <2>4, <2>5
<1> QED BY <1>1, Invariant, PTL

-----------------------------------------------------------------------------
(* Steps on the prefix.                                                    *)

\* A step of a call touches neither the store nor another call.  It ends the call,
\* once, or says nothing.
LEMMA CallStep ==
  ASSUME IInv, NEW w \in Calls, StoreBundle(w)
  PROVE  /\ store' = store
         /\ pc[w] # "done"
         /\ \A v \in Calls : v # w => /\ pc'[v] = pc[v] /\ outcome'[v] = outcome[v]
                                     /\ snapshot'[v] = snapshot[v] /\ lines'[v] = lines[v]
         /\ \A v \in Calls, part \in Parts :
              <<v, part>> \in sent' => \/ <<v, part>> \in sent
                                       \/ v = w /\ pc[w] = "put"
<1>. USE DEF IInv, TypeOK, Raise, Finish, GoTo, spool
<1>1. CASE Snapshot(w)
  <2>1. CASE FileMissing(w) \/ FileFound(w) \/ StagingFails(w)
    BY <2>1 DEF FileMissing, FileFound, StagingFails
  <2>2. CASE TakeSnapshot(w) BY <2>2 DEF TakeSnapshot
  <2> QED BY <1>1, <2>1, <2>2 DEF Snapshot
<1>2. CASE Probe(w) BY <1>2 DEF Probe, ProbeFinds, ProbeFindsNothing, ProbeFails
<1>3. CASE PutPart(w)
  <2>1. CASE Put(w) BY <2>1 DEF Put
  <2>2. CASE PutSucceeds(w)
    <3>1. /\ pc[w] = "wait" /\ UNCHANGED <<local, spool, sent, store>>
          /\ \/ GoTo(w, "evidence", Evidence)
             \/ GoTo(w, "put", Marker)
             \/ Finish(w, "receipt") /\ UNCHANGED at
      <4>1. at[w] = 1 \/ at[w] = 2 \/ at[w] = 3 BY DEF Parts
      <4> QED BY <2>2, <4>1 DEF PutSucceeds, Artifact, Evidence, Marker
    <3> QED BY <3>1
  <2>3. CASE PutCollides(w) \/ PutFails(w) \/ CloseFails(w) \/ ManifestTooLarge(w)
    BY <2>3 DEF PutCollides, PutFails, PutError, CloseFails, ManifestTooLarge
  <2> QED BY <1>3, <2>1, <2>2, <2>3 DEF PutPart
<1>4. CASE WriteEvidence(w)
  <2>1. CASE EvidenceItem(w) BY <2>1 DEF EvidenceItem
  <2>2. CASE EvidenceTooLarge(w) \/ EvidenceRefused(w) \/ EvidenceSpoolFails(w)
             \/ EvidenceEnds(w)
    BY <2>2 DEF EvidenceTooLarge, EvidenceRefused, EvidenceSpoolFails, EvidenceEnds
  <2> QED BY <1>4, <2>1, <2>2 DEF WriteEvidence
<1> QED BY <1>1, <1>2, <1>3, <1>4 DEF StoreBundle

\* An occupied key stays as it is.
LEMMA OccupiedStays ==
  ASSUME IInv, [Next]_vars, NEW k \in Keys, store[k] # NoObject
  PROVE  store'[k] = store[k]
<1>1. ASSUME NEW w \in Calls, StoreBundle(w) PROVE store' = store BY <1>1, CallStep
<1>2. ASSUME NEW w \in Calls, NEW part \in Parts, Lands(w, part)
      PROVE  store'[k] = store[k]
  BY <1>2, LandsLeavesOthers
<1> QED BY <1>1, <1>2 DEF Next, EditFile, Finished, vars

-----------------------------------------------------------------------------
(* Late calls.                                                             *)

\* A call that has uploaded nothing when the prefix is committed.
Late(w) ==
  /\ Success # NoObject
  /\ pc[w] \in {"start", "snapshot", "probe", "done"}
  /\ \A part \in Parts : <<w, part>> \notin sent

\* It stays one: its third probe finds the marker, if no earlier one finds anything.
LEMMA LateStays ==
  ASSUME IInv, [Next]_vars, NEW w \in Calls, Late(w)
  PROVE  Late(w)'
<1>1. Success' # NoObject BY OccupiedStays, KeyFacts DEF Late, Success
<1>2. CASE StoreBundle(w)
  <2>1. pc[w] # "done" /\ \A part \in Parts : <<w, part>> \notin sent'
    BY <1>2, CallStep DEF Late
  <2>2. pc'[w] \in {"start", "snapshot", "probe", "done"}
    <3>. USE DEF IInv, TypeOK, Raise, Finish, GoTo
    <3>1. CASE FileMissing(w) \/ FileFound(w) \/ StagingFails(w)
      BY <3>1 DEF Late, FileMissing, FileFound, StagingFails
    <3>2. CASE TakeSnapshot(w) BY <3>2 DEF TakeSnapshot
    <3>3. CASE ProbeFinds(w) \/ ProbeFails(w) BY <3>3 DEF ProbeFinds, ProbeFails
    <3>4. CASE ProbeFindsNothing(w)
      <4>1. at[w] # LastProbe BY <3>4, KeyFacts DEF ProbeFindsNothing, LastProbe, Late, Success
      <4> QED BY <3>4, <4>1 DEF ProbeFindsNothing
    <3>5. CASE CloseFails(w) BY <3>5 DEF CloseFails
    <3>6. (PutPart(w) => CloseFails(w)) /\ ~ WriteEvidence(w)
      BY <2>1 DEF Late, PutPart, Put, ManifestTooLarge, PutSucceeds, PutCollides, PutFails,
             WriteEvidence, EvidenceItem, EvidenceTooLarge, EvidenceRefused,
             EvidenceSpoolFails, EvidenceEnds
    <3> QED BY <1>2, <3>1, <3>2, <3>3, <3>4, <3>5, <3>6 DEF StoreBundle, Snapshot, Probe
  <2> QED BY <1>1, <2>1, <2>2 DEF Late
<1>3. ASSUME NEW v \in Calls, v # w, StoreBundle(v) PROVE Late(w)'
  BY <1>1, <1>3, CallStep DEF Late
<1>4. ASSUME NEW v \in Calls, NEW part \in Parts, Lands(v, part) PROVE Late(w)'
  BY <1>1, <1>4 DEF Late, Lands
<1>5. CASE (\E v \in Calls : EditFile(v)) \/ Finished \/ UNCHANGED vars
  BY <1>1, <1>5 DEF Late, EditFile, Finished, vars
<1> QED BY <1>2, <1>3, <1>4, <1>5 DEF Next

\* And it has created nothing.
LEMMA LateHasNothing ==
  ASSUME IInv, NEW w \in Calls, Late(w)
  PROVE  \A k \in Keys : store[k] # NoObject => store[k].by # w
BY DEF IInv, ObjectsAreUploads, Late

\* However many calls race: one that starts on a committed prefix adds nothing to it.
THEOREM LateCallsAreHarmless == Spec => LateCallsAddNothing
<1>1. ASSUME NEW w \in Calls
      PROVE  Spec => [](pc[w] = "start" /\ Success # NoObject
                         => [](\A k \in Keys : store[k] # NoObject => store[k].by # w))
  <2>1. IInv /\ pc[w] = "start" /\ Success # NoObject => Late(w)
    BY DEF IInv, SentInOrder, Late
  <2>2. IInv /\ [Next]_vars /\ Late(w) => Late(w)' BY LateStays
  <2>3. IInv /\ Late(w) => \A k \in Keys : store[k] # NoObject => store[k].by # w
    BY LateHasNothing
  <2> QED BY <2>1, <2>2, <2>3, Invariant, PTL DEF Spec
<1> QED BY <1>1 DEF LateCallsAddNothing

-----------------------------------------------------------------------------
(* The prefix and its calls implement the ledger.                          *)

\* What the ledger shows of a committed prefix.
LEMMA LedgerOfCommit ==
  ASSUME IInv, Success # NoObject, NEW v, v = Success.by
  PROVE  /\ v \in Calls
         /\ LedgerBundle = [by       |-> v,
                            version  |-> Version[v],
                            artifact |-> [key |-> Extension[v], body |-> snapshot[v]],
                            evidence |-> lines[v],
                            total    |-> total[v],
                            counts   |-> counts[v]]
         /\ LedgerBundle # NoObject
<1>1. /\ v \in Calls /\ Success.body = Manifest(v) /\ snapshot[v] \in Contents
      /\ Held(Extension[v]) = snapshot[v]
      /\ Held("records.manifest.jsonl") = lines[v]
  BY MarkerIsManifest
<1>2. LedgerBundle = [by       |-> v,
                      version  |-> Version[v],
                      artifact |-> [key |-> Extension[v], body |-> snapshot[v]],
                      evidence |-> lines[v],
                      total    |-> total[v],
                      counts   |-> counts[v]]
  BY <1>1 DEF LedgerBundle, Manifest
<1>3. /\ Version[v] \in Versions /\ Extension[v] \in Extensions
      /\ lines[v] \in Seq(Lines) /\ total[v] \in Nat /\ counts[v] \in [Outcomes -> Nat]
  BY <1>1 DEF IInv, TypeOK, Versions, Extensions
<1> QED BY <1>1, <1>2, <1>3, BundleAssumption

\* While the marker stays, so does the bundle.
LEMMA LedgerStays ==
  ASSUME IInv, [Next]_vars, Success' = Success
  PROVE  LedgerBundle' = LedgerBundle
<1>1. CASE Success = NoObject BY <1>1 DEF LedgerBundle
<1>2. CASE Success # NoObject
  <2>. DEFINE v == Success.by
  <2>1. /\ v \in Calls /\ Success.body = Manifest(v)
        /\ store[Extension[v]] # NoObject
        /\ store["records.manifest.jsonl"] # NoObject
    BY <1>2, MarkerIsManifest
  <2>2. Success.body.artifact.key = Extension[v] BY <2>1 DEF Manifest
  <2>. HIDE DEF v
  <2>3. /\ store'[Extension[v]] = store[Extension[v]]
        /\ store'["records.manifest.jsonl"] = store["records.manifest.jsonl"]
    BY <2>1, OccupiedStays, KeyFacts
  <2>4. Success'.body.artifact.key = Extension[v] BY <2>2
  <2> QED BY <1>2, <2>2, <2>3, <2>4 DEF LedgerBundle, Held
<1> QED BY <1>1, <1>2

\* The initial state is the ledger's.
LEMMA InitImplements == ASSUME Init PROVE Ledger!Init
<1>1. LedgerBundle = NoObject BY KeyFacts DEF Init, LedgerBundle, Success
<1>2. LedgerReceipt = [w \in Calls |-> NoValue] BY DEF Init, LedgerReceipt
<1>3. LedgerFailure = [w \in Calls |-> NoValue] BY DEF Init, LedgerFailure, Failures
<1> QED BY <1>1, <1>2, <1>3 DEF Ledger!Init

\* A step of a call gives a receipt, fails, or stutters.
LEMMA CallImplements ==
  ASSUME IInv, [Next]_vars, NEW w \in Calls, StoreBundle(w)
  PROVE  [Ledger!Next]_<<LedgerBundle, LedgerReceipt, LedgerFailure>>
<1>1. IInv' BY NextKeeps
<1>2. Success' = Success BY CallStep DEF Success
<1>3. LedgerBundle' = LedgerBundle BY <1>2, LedgerStays
<1>4. /\ outcome[w] = "none"
      /\ \A v \in Calls : v # w => /\ outcome'[v] = outcome[v]
                                  /\ snapshot'[v] = snapshot[v] /\ lines'[v] = lines[v]
  BY CallStep DEF IInv, OutcomesMatchControl
<1>5. Ledger!Pending(w)
  BY <1>4 DEF Ledger!Pending, LedgerReceipt, LedgerFailure, Failures
<1>6. outcome'[w] \in Failures \cup {"none", "receipt"} BY <1>1 DEF IInv, TypeOK
<1>7. CASE outcome'[w] = "none"
  <2>1. LedgerReceipt' = LedgerReceipt BY <1>4, <1>7 DEF LedgerReceipt
  <2>2. LedgerFailure' = LedgerFailure BY <1>4, <1>7 DEF LedgerFailure
  <2> QED BY <1>3, <2>1, <2>2
<1>8. CASE outcome'[w] = "receipt"
  <2>. DEFINE v == Success.by
  <2>1. /\ Success # NoObject /\ Success.body = Manifest(w)'
        /\ store[Extension[w]] # NoObject /\ store[Extension[w]].body = snapshot'[w]
        /\ store["records.manifest.jsonl"] # NoObject
        /\ store["records.manifest.jsonl"].body = lines'[w]
    BY <1>1, <1>2, <1>8, CallStep DEF IInv, ReceiptsHeld, Holds, Success
  <2>2. LedgerBundle.artifact = [key |-> Extension[w], body |-> snapshot'[w]]
        /\ LedgerBundle.evidence = lines'[w] /\ LedgerBundle.version = Version[w]
    BY <2>1 DEF LedgerBundle, Manifest, Held
  <2>3. LedgerBundle # NoObject BY <2>1, LedgerOfCommit
  <2>4. LedgerFailure' = LedgerFailure
    BY <1>4, <1>8 DEF LedgerFailure, Failures
  <2>5. LedgerReceipt' = [LedgerReceipt EXCEPT ![w] = Ledger!References(LedgerBundle)]
    BY <1>4, <1>8, <2>2 DEF LedgerReceipt, Ledger!References
  <2>6. Ledger!GiveReceipt(w)
    BY <1>3, <1>5, <2>2, <2>3, <2>4, <2>5 DEF Ledger!GiveReceipt
  <2> QED BY <2>6 DEF Ledger!Next
<1>9. CASE outcome'[w] \in Failures
  <2>1. (LedgerBundle # NoObject => LedgerBundle.by # w) \/ outcome'[w] = "store"
    <3>. SUFFICES ASSUME LedgerBundle # NoObject, outcome'[w] # "store"
                  PROVE  LedgerBundle.by # w
      OBVIOUS
    <3>1. Success # NoObject BY DEF LedgerBundle
    <3>2. LedgerBundle.by = Success.by BY <3>1, LedgerOfCommit
    <3>3. Success.by # w BY <1>1, <1>2, <1>9, <3>1 DEF IInv, OnlyStoreErrorsLeaveDoubt
    <3> QED BY <3>2, <3>3
  <2>2. LedgerReceipt' = LedgerReceipt BY <1>4, <1>9 DEF LedgerReceipt, Failures
  <2>3. LedgerFailure' = [LedgerFailure EXCEPT ![w] = outcome'[w]]
    BY <1>4, <1>9 DEF LedgerFailure
  <2>4. Ledger!Fail(w)
    BY <1>3, <1>5, <1>9, <2>1, <2>2, <2>3 DEF Ledger!Fail, Ledger!Failures, Failures
  <2> QED BY <2>4 DEF Ledger!Next
<1> QED BY <1>6, <1>7, <1>8, <1>9

\* A marker that lands commits the bundle; other uploads stutter.
LEMMA LandsImplements ==
  ASSUME IInv, [Next]_vars, NEW w \in Calls, NEW part \in Parts, Lands(w, part)
  PROVE  [Ledger!Next]_<<LedgerBundle, LedgerReceipt, LedgerFailure>>
<1>1. IInv' BY NextKeeps
<1>2. UNCHANGED <<pc, snapshot, lines, total, counts, outcome, sent>>
  BY DEF Lands, spool
<1>3. LedgerReceipt' = LedgerReceipt /\ LedgerFailure' = LedgerFailure
  BY <1>2 DEF LedgerReceipt, LedgerFailure
<1>4. CASE part # Marker
  <2>1. Key(w, part) # "_SUCCESS.json" /\ "_SUCCESS.json" \in Keys BY <1>4, KeyFacts
  <2>2. Success' = Success BY <2>1, LandsLeavesOthers DEF Success
  <2> QED BY <1>3, <2>2, LedgerStays
<1>5. CASE part = Marker
  <2>1. /\ <<w, Marker>> \in sent /\ Success = NoObject
        /\ Success' # NoObject /\ Success'.by = w /\ Success'.body = Manifest(w)
    <3>1. Key(w, part) = "_SUCCESS.json" /\ Body(w, part) = Manifest(w)
      BY <1>5, KeyFacts, BodyFacts
    <3>2. store'["_SUCCESS.json"] = [body |-> Manifest(w), by |-> w]
          /\ store'["_SUCCESS.json"] # NoObject
      BY <3>1, LandsLeavesOthers
    <3> QED BY <1>5, <3>1, <3>2 DEF Lands, Success
  <2>2. LedgerBundle = NoObject BY <2>1 DEF LedgerBundle
  <2>3. LedgerBundle' = [by       |-> w,
                         version  |-> Version[w],
                         artifact |-> [key |-> Extension[w], body |-> snapshot[w]],
                         evidence |-> lines[w],
                         total    |-> total[w],
                         counts   |-> counts[w]]
    <3>1. Holds(Extension[w], snapshot[w]) /\ Holds("records.manifest.jsonl", lines[w])
      BY <2>1 DEF IInv, EarlierPartsHeld, Reached
    <3>2. /\ store'[Extension[w]] = store[Extension[w]]
          /\ store'["records.manifest.jsonl"] = store["records.manifest.jsonl"]
      BY <3>1, LandsLeavesOthers, KeyFacts DEF Holds
    <3>3. Held(Extension[w])' = snapshot[w] /\ Held("records.manifest.jsonl")' = lines[w]
      BY <3>1, <3>2 DEF Holds, Held
    <3>4. Success'.body.artifact.key = Extension[w] BY <2>1 DEF Manifest
    <3> QED BY <2>1, <3>3, <3>4 DEF LedgerBundle, Manifest
  <2>4. /\ snapshot[w] \in Contents /\ Verified(w, snapshot[w])
    BY <2>1, KeyFacts DEF IInv, SnapshotVerified
  <2>5. /\ lines[w] \in Seq(Lines) /\ Len(lines[w]) \in 0..MaxLines
        /\ \A i \in 1..Len(lines[w]) : lines[w][i].version = Version[w]
        /\ total[w] = Len(lines[w]) /\ counts[w] \in [Outcomes -> Nat]
        /\ \A o \in Outcomes : counts[w][o] = CountOf(lines[w], o)
    BY BundleAssumption DEF IInv, TypeOK, SpoolCounted
  <2>6. lines[w] \in UNION {[1..n -> [version : {Version[w]}, outcome : Outcomes]] : n \in 0..MaxLines}
    <3>1. \A i \in 1..Len(lines[w]) : lines[w][i] \in [version : {Version[w]}, outcome : Outcomes]
      <4>. SUFFICES ASSUME NEW i \in 1..Len(lines[w])
                    PROVE  lines[w][i] \in [version : {Version[w]}, outcome : Outcomes]
        OBVIOUS
      <4>1. lines[w][i] \in Lines /\ lines[w][i].version = Version[w] BY <2>5
      <4> QED BY <4>1 DEF Lines
    <3>2. lines[w] \in [1..Len(lines[w]) -> Lines] BY <2>5, LenProperties
    <3>3. lines[w] \in [1..Len(lines[w]) -> [version : {Version[w]}, outcome : Outcomes]]
      BY <3>1, <3>2
    <3> QED BY <2>5, <3>3
  <2>7. counts[w] \in [Outcomes -> 0..MaxLines]
    <3>1. \A o \in Outcomes : counts[w][o] \in 0..MaxLines
      BY <2>5, CountOfIsCounted, CountedBounded, BundleAssumption
    <3> QED BY <2>5, <3>1
  <2>8. LedgerBundle' \in Ledger!Bundles(w)
    <3>. DEFINE b == LedgerBundle'
    <3>1. b \in [by       : {w},
                 version  : {Version[w]},
                 artifact : [key  : {Extension[w]},
                             body : {c \in Contents : Ledger!Verified(w, c)}],
                 evidence : UNION {[1..n -> [version : {Version[w]}, outcome : Outcomes]] :
                                     n \in 0..MaxLines},
                 total    : 0..MaxLines,
                 counts   : [Outcomes -> 0..MaxLines]]
      BY <2>3, <2>4, <2>5, <2>6, <2>7 DEF Ledger!Verified, Verified
    <3>2. b.total = Len(b.evidence) BY <2>3, <2>5
    <3>3. \A o \in Outcomes : b.counts[o] = Ledger!CountOf(b.evidence, o)
      <4>1. \A seq, o : Ledger!CountOf(seq, o) = CountOf(seq, o) BY DEF Ledger!CountOf, CountOf, Ledger!Cardinality, Cardinality
      <4>2. b.counts = counts[w] /\ b.evidence = lines[w] BY <2>3
      <4> QED BY <2>5, <4>1, <4>2
    <3>. HIDE DEF b
    <3>4. b \in Ledger!Bundles(w) BY <3>1, <3>2, <3>3 DEF Ledger!Bundles
    <3> QED BY <3>4 DEF b
  <2>9. Ledger!Pending(w) \/ LedgerFailure[w] = "store"
    <3>1. outcome[w] # "receipt" BY <2>1 DEF IInv, ReceiptsHeld, Holds, Success
    <3>2. outcome[w] \notin Failures \ {"store"}
      BY <2>1 DEF IInv, OnlyStoreErrorsLeaveDoubt
    <3>3. outcome[w] \in {"none", "store"} BY <3>1, <3>2 DEF IInv, TypeOK
    <3> QED BY <3>3 DEF Ledger!Pending, LedgerReceipt, LedgerFailure, Failures
  <2>10. Ledger!Commit(w)
    BY <1>3, <2>2, <2>8, <2>9 DEF Ledger!Commit
  <2> QED BY <2>10 DEF Ledger!Next
<1> QED BY <1>4, <1>5

\* For any number of concurrent calls, whatever fails and whenever uploads land: the
\* prefix is committed at most once, whole, and every receipt and error is true of it.
THEOREM ImplementsLedger == Spec => KeepsLedger
<1>1. Init => Ledger!Init BY InitImplements
<1>2. IInv /\ [Next]_vars => [Ledger!Next]_<<LedgerBundle, LedgerReceipt, LedgerFailure>>
  <2>. SUFFICES ASSUME IInv, [Next]_vars
                PROVE  [Ledger!Next]_<<LedgerBundle, LedgerReceipt, LedgerFailure>>
    OBVIOUS
  <2>1. ASSUME NEW w \in Calls, StoreBundle(w)
        PROVE  [Ledger!Next]_<<LedgerBundle, LedgerReceipt, LedgerFailure>>
    BY <2>1, CallImplements
  <2>2. ASSUME NEW w \in Calls, NEW part \in Parts, Lands(w, part)
        PROVE  [Ledger!Next]_<<LedgerBundle, LedgerReceipt, LedgerFailure>>
    BY <2>2, LandsImplements
  <2>3. CASE (\E w \in Calls : EditFile(w)) \/ Finished \/ UNCHANGED vars
    BY <2>3 DEF EditFile, Finished, vars, spool, LedgerBundle, LedgerReceipt,
                LedgerFailure, Success, Held
  <2> QED BY <2>1, <2>2, <2>3 DEF Next
<1> QED BY <1>1, <1>2, Invariant, PTL DEF Spec, KeepsLedger, Ledger!Spec

=============================================================================
