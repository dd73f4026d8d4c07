------------------------- MODULE SnapshotCacheProofs -------------------------
(***************************************************************************)
(* For any number of sessions, chunks, attempts, updates and damages: a   *)
(* session that nobody overlaps hands out a whole snapshot that was served *)
(* while it ran, and the one its description describes unless the museum   *)
(* went back to the version the session had verified; no session hands out *)
(* a description of what the museum did not serve while it ran; and a      *)
(* validator is only ever kept with its own bytes.                         *)
(*                                                                         *)
(* The argument has two halves.  DownloadTrue, of one session whatever the *)
(* others do, never looks at the files: what a session describes it has    *)
(* hashed as it came.  OwnsFiles, of a session that is alone, ties what it *)
(* has hashed to the files, since their inodes are apart (FilesApart).  A  *)
(* retry after the rename asks with validators of a file that is gone:     *)
(* ReplacesTruly says when the museum's 304 is true all the same.          *)
(***************************************************************************)
EXTENDS SnapshotCache, FiniteSetTheorems, SequenceTheorems, TLAPS

-----------------------------------------------------------------------------
(* Files and descriptions.                                                 *)

\* There is an inode for one more open file.
LEMMA InodeFree ==
  ASSUME TypeOK, dir["part"] = None
  PROVE  \E i \in Inodes : i \notin InodesInUse
<1>. DEFINE Open == {session[r].fd : r \in Sessions}
            fds  == [r \in Sessions |-> session[r].fd]
            Used == Open \cup {dir["target"]}
<1>1. fds \in Surjection(Sessions, Open) BY DEF Surjection
<1>2. IsFiniteSet(Open) /\ Cardinality(Open) <= Cardinality(Sessions)
  BY <1>1, FS_Surjection, CacheAssumption
<1>. HIDE DEF Open
<1>3. IsFiniteSet(Used) /\ Cardinality(Used) <= Cardinality(Sessions) + 1
  <2>1. /\ Cardinality(Open) \in Nat /\ Cardinality(Sessions) \in Nat
        /\ IsFiniteSet(Used)
        /\ Cardinality(Used) = IF dir["target"] \in Open THEN Cardinality(Open)
                               ELSE Cardinality(Open) + 1
    BY <1>2, FS_CardinalityType, FS_AddElement, CacheAssumption
  <2> QED BY <1>2, <2>1
<1>4. InodesInUse \subseteq Used
  BY CacheAssumption DEF InodesInUse, Names, Open
<1>5. SUFFICES ASSUME Inodes \subseteq InodesInUse PROVE FALSE OBVIOUS
<1>6. Inodes \in SUBSET Used BY <1>4, <1>5
<1>. HIDE DEF Used
<1>7. Cardinality(Inodes) <= Cardinality(Used) BY <1>3, <1>6, FS_Subset
<1>8. Cardinality(Inodes) \in Nat /\ Cardinality(Used) \in Nat /\ Cardinality(Sessions) \in Nat
  BY <1>3, FS_CardinalityType, CacheAssumption
<1> QED BY <1>3, <1>7, <1>8, CacheAssumption

\* What a session has received are at most Chunks chunks, and any such are typed.
LEMMA ReceivedType ==
  ASSUME NEW x
  PROVE  x \in UNION {[1..n -> Versions] : n \in 0..Chunks}
         <=> x \in Seq(Versions) /\ Len(x) <= Chunks
<1>1. Chunks \in Nat BY CacheAssumption
<1>2. ASSUME NEW n \in 0..Chunks, x \in [1..n -> Versions]
      PROVE  x \in Seq(Versions) /\ Len(x) <= Chunks
  BY <1>1, <1>2
<1>3. ASSUME x \in Seq(Versions), Len(x) <= Chunks
      PROVE  Len(x) \in 0..Chunks /\ x \in [1..Len(x) -> Versions]
  BY <1>1, <1>3
<1> QED BY <1>2, <1>3

\* A complete body of one version is the whole snapshot.
LEMMA CompleteIsWhole ==
  ASSUME NEW v, NEW s \in Seq(Versions), Len(s) = Chunks,
         \A i \in DOMAIN s : s[i] = v
  PROVE  s = Whole(v)
BY DEF Whole

\* Writing at the end appends.
LEMMA WriteAtEnd ==
  ASSUME NEW file \in Seq(Versions), NEW v \in Versions
  PROVE  WriteAt(file, Len(file) + 1, v) = Append(file, v)
<1>. DEFINE w == WriteAt(file, Len(file) + 1, v)
            n == Len(file) + 1
<1>1. Len(file) \in Nat /\ \A j \in 1..Len(file) : file[j] \in Versions
  BY LenProperties, ElementOfSeq
<1>2. w = [j \in 1..n |-> IF j = n THEN v ELSE file[j]] BY <1>1 DEF WriteAt
<1>3. w \in Seq(Versions) /\ Len(w) = n BY <1>1, <1>2
<1>4. /\ Append(file, v) \in Seq(Versions) /\ Len(Append(file, v)) = n
      /\ \A j \in 1..n : Append(file, v)[j] = w[j]
  BY <1>1, <1>2, AppendProperties
<1>. HIDE DEF w
<1>5. w = Append(file, v) BY <1>3, <1>4, SeqEqual
<1> QED BY <1>5 DEF w

\* Writing leaves a file of chunks and holes.
LEMMA WriteAtType ==
  ASSUME NEW file \in Seq(Versions \cup {None}), NEW i \in Nat \ {0}, NEW v \in Versions
  PROVE  WriteAt(file, i, v) \in Seq(Versions \cup {None})
<1>. DEFINE n == IF i > Len(file) THEN i ELSE Len(file)
<1>1. Len(file) \in Nat /\ n \in Nat BY LenProperties
<1>2. \A j \in 1..Len(file) : file[j] \in Versions \cup {None} BY ElementOfSeq
<1>3. WriteAt(file, i, v) \in [1..n -> Versions \cup {None}] BY <1>1, <1>2 DEF WriteAt
<1>. HIDE DEF n
<1> QED BY <1>1, <1>3

\* A session may have received nothing.
LEMMA NothingReceived == <<>> \in UNION {[1..n -> Versions] : n \in 0..Chunks}
<1>1. 0 \in 0..Chunks BY CacheAssumption
<1>2. <<>> \in [1..0 -> Versions] OBVIOUS
<1> QED BY <1>1, <1>2

\* A session at rest is typed, whatever it was before.
LEMMA RestType == \A end \in Steps \cup Ends : Rest(end) \in Locals
<1>1. 0 \in 0..MaxAttempts BY CacheAssumption
<1> QED BY <1>1, NothingReceived DEF Rest, Locals
-----------------------------------------------------------------------------
(* One session moves.                                                      *)

\* While one session moves the others are as true as they were, and none of them
\* is alone: what is left to show is what the step makes of the one that moves.
LEMMA OneMoves ==
  ASSUME IInv, NEW s \in Sessions, Running(s), UNCHANGED upstream,
         session' = [session EXCEPT ![s] = session'[s]],
         session'[s].pc \in Steps /\ session'[s].alone => session[s].alone,
         DownloadTrue(session[s])',
         session'[s].pc \in Steps /\ session'[s].alone => OwnsFiles(session[s])'
  PROVE  DownloadsTrue' /\ SoloOwnsFiles'
<1>1. \A r \in Sessions \ {s} : session'[r] = session[r] BY DEF IInv, TypeOK
<1>2. DownloadsTrue'
  <2>. SUFFICES ASSUME NEW r \in Sessions \ {s} PROVE DownloadTrue(session[r])'
    BY DEF DownloadsTrue
  <2> QED BY <1>1 DEF IInv, DownloadsTrue, DownloadTrue, ReplacesTruly, Holds, Served,
                      Genuine, BodyComplete
<1>3. SoloOwnsFiles'
  <2>. SUFFICES ASSUME NEW r \in Sessions, Running(r)', session'[r].alone
                PROVE  (\A q \in Sessions \ {r} : ~ Running(q)) ' /\ OwnsFiles(session[r])'
    BY DEF SoloOwnsFiles
  <2>1. r = s BY <1>1 DEF IInv, SoloOwnsFiles, Running
  <2>2. \A q \in Sessions \ {s} : ~ Running(q)
    BY <2>1 DEF IInv, SoloOwnsFiles, Running
  <2> QED BY <1>1, <2>1, <2>2 DEF Running
<1> QED BY <1>2, <1>3

\* A session may come to rest whenever it runs, and the files of its directory
\* be left as they are or rid of the partial one.
LEMMA EndsKeeps ==
  ASSUME IInv, NEW s \in Sessions, Running(s), NEW end \in Ends, EndsAs(s, end),
         UNCHANGED <<upstream, data, metadata, staged, budget>>,
         UNCHANGED dir \/ Unlink("part")
  PROVE  IInv'
<1>1. session'[s] = Rest(end) BY DEF EndsAs, IInv, TypeOK
<1>2. session' = [session EXCEPT ![s] = session'[s]] BY <1>1 DEF EndsAs
<1>3. TypeOK'
  <2>1. Rest(end) \in Locals BY RestType
  <2> QED BY <2>1 DEF IInv, TypeOK, EndsAs, Unlink, Names
<1>4. FilesApart' BY DEF IInv, FilesApart, TypeOK, Unlink, Names
<1>5. KeptIsGenuine' BY DEF IInv, KeptIsGenuine, Genuine
<1>6. session'[s].pc \notin Steps BY <1>1 DEF Rest, Ends, Steps
<1>7. DownloadTrue(session[s])'
  BY <1>1 DEF DownloadTrue, Rest, Ends, Steps
<1>8. DownloadsTrue' /\ SoloOwnsFiles' BY <1>2, <1>6, <1>7, OneMoves
<1> QED BY <1>3, <1>4, <1>5, <1>8 DEF IInv

\* A session may return a snapshot the museum has served while it ran, if, were it
\* alone, the target were one too, and the same unless the museum has gone back.
LEMMA ReturnsKeeps ==
  ASSUME IInv, NEW s \in Sessions, Running(s), NEW result \in Descriptions,
         Returns(s, result),
         UNCHANGED <<upstream, dir, data, budget>>,
         metadata' \in {metadata, staged}, staged' \in {staged, None},
         \E v \in session[s].served : result.body = Whole(v),
         session[s].alone =>
           /\ \E v \in session[s].served : Content("target") = Whole(v)
           /\ session[s].wentBack \/ Content("target") = result.body
  PROVE  IInv'
<1>. DEFINE here == [Rest("using") EXCEPT !.result = result,
                      !.served = session[s].served, !.alone = session[s].alone,
                      !.wentBack = session[s].wentBack]
<1>1. session'[s] = here /\ session' = [session EXCEPT ![s] = session'[s]]
  BY DEF Returns, IInv, TypeOK
<1>2. here \in Locals
  <2>1. session[s] \in Locals BY DEF IInv, TypeOK
  <2>2. Rest("using") \in Locals BY RestType DEF Steps
  <2> QED BY <2>1, <2>2 DEF Locals
<1>3. /\ here.pc = "using" /\ here.cached = None /\ here.received = <<>>
      /\ here.result = result /\ here.served = session[s].served
      /\ here.alone = session[s].alone /\ here.wentBack = session[s].wentBack
  BY DEF Rest
<1>. HIDE DEF here
<1>4. TypeOK' BY <1>1, <1>2, CacheAssumption DEF IInv, TypeOK
<1>5. FilesApart' BY DEF IInv, FilesApart
<1>6. KeptIsGenuine' BY CacheAssumption DEF IInv, TypeOK, KeptIsGenuine, Genuine
<1>7. DownloadTrue(session[s])'
  <2>1. upstream \in session[s].served
    BY DEF IInv, DownloadsTrue, DownloadTrue, Running
  <2> QED BY <1>1, <1>3, <2>1 DEF DownloadTrue, Served
<1>8. session'[s].pc \in Steps /\ session'[s].alone => OwnsFiles(session[s])'
  BY <1>1, <1>3 DEF OwnsFiles, Content
<1>9. DownloadsTrue' /\ SoloOwnsFiles' BY <1>1, <1>3, <1>7, <1>8, OneMoves
<1> QED BY <1>4, <1>5, <1>6, <1>9 DEF IInv

\* A session may move on, its partial file left or gone, as long as what it knows of
\* the files and has of the museum is true.
LEMMA MovesKeeps ==
  ASSUME IInv, NEW s \in Sessions, Running(s), NEW here \in Locals,
         session' = [session EXCEPT ![s] = here],
         UNCHANGED <<upstream, data, metadata, staged, budget>>,
         UNCHANGED dir \/ (Unlink("part") /\ here.pc # "body"),
         here.alone = session[s].alone,
         DownloadTrue(here), here.alone => OwnsFiles(here)
  PROVE  IInv'
<1>1. session'[s] = here /\ session' = [session EXCEPT ![s] = session'[s]]
  BY DEF IInv, TypeOK
<1>2. TypeOK' BY DEF IInv, TypeOK, Unlink, Names
<1>3. FilesApart' BY DEF IInv, TypeOK, FilesApart, Unlink, Names
<1>4. KeptIsGenuine' BY DEF IInv, KeptIsGenuine, Genuine
<1>5. DownloadTrue(session[s])'
  BY <1>1 DEF DownloadTrue, ReplacesTruly, Holds, Served, Genuine, BodyComplete
<1>6. session'[s].pc \in Steps /\ session'[s].alone => OwnsFiles(session[s])'
  <2>1. Content("target")' = Content("target")
    BY DEF Content, Unlink, IInv, TypeOK, Names
  <2> QED BY <1>1, <2>1 DEF OwnsFiles, ReplacesTruly, Holds
<1>7. DownloadsTrue' /\ SoloOwnsFiles' BY <1>1, <1>5, <1>6, OneMoves
<1> QED BY <1>2, <1>3, <1>4, <1>7 DEF IInv
-----------------------------------------------------------------------------
(* The fixture.                                                            *)

\* What the invariant says of one session that runs.
LEMMA OfSession ==
  ASSUME IInv, NEW s \in Sessions, Running(s)
  PROVE  /\ session[s] \in Locals
         /\ DownloadTrue(session[s])
         /\ session[s].alone => OwnsFiles(session[s])
BY DEF IInv, TypeOK, DownloadsTrue, SoloOwnsFiles

\* What a session finds in the cache is genuine, and kept only if it is the target.
LEMMA LooksKeeps ==
  ASSUME IInv, NEW s \in Sessions,
         NothingCached(s) \/ MetadataUnreadable(s) \/ ReadMetadata(s) \/ Verify(s)
  PROVE  IInv'
<1>1. Running(s) BY DEF NothingCached, MetadataUnreadable, ReadMetadata, Verify, Running, Steps
<1>2. /\ session[s] \in Locals /\ DownloadTrue(session[s])
      /\ session[s].alone => OwnsFiles(session[s])
  BY <1>1, OfSession
<1>3. CASE NothingCached(s)
  <2>. DEFINE here == [session[s] EXCEPT !.pc = "attempt"]
  <2>1. session' = [session EXCEPT ![s] = here] BY <1>3 DEF NothingCached
  <2>2. here \in Locals /\ here.alone = session[s].alone BY <1>2 DEF Locals, Steps
  <2>3. DownloadTrue(here) /\ OwnsFiles(here)
    BY <1>1, <1>2, <1>3
    DEF NothingCached, DownloadTrue, ReplacesTruly, Holds, OwnsFiles, Locals, Served,
        BodyComplete, Running
  <2>. HIDE DEF here
  <2> QED BY <1>1, <1>3, <2>1, <2>2, <2>3, MovesKeeps DEF NothingCached
<1>4. CASE MetadataUnreadable(s)
  BY <1>1, <1>4, EndsKeeps DEF MetadataUnreadable, Ends
<1>5. CASE ReadMetadata(s)
  <2>. DEFINE here == [session[s] EXCEPT !.pc = "verify", !.cached = metadata]
  <2>1. session' = [session EXCEPT ![s] = here] BY <1>5 DEF ReadMetadata
  <2>2. metadata \in Descriptions /\ metadata # None /\ Genuine(metadata)
    BY <1>5, CacheAssumption DEF ReadMetadata, IInv, KeptIsGenuine
  <2>3. here \in Locals /\ here.alone = session[s].alone
    BY <1>2, <2>2 DEF Locals, Steps
  <2>4. DownloadTrue(here) /\ OwnsFiles(here)
    BY <1>1, <1>2, <1>5, <2>2
    DEF ReadMetadata, DownloadTrue, ReplacesTruly, Holds, OwnsFiles, Locals, Served,
        BodyComplete, Running
  <2>. HIDE DEF here
  <2> QED BY <1>1, <1>5, <2>1, <2>3, <2>4, MovesKeeps DEF ReadMetadata
<1>6. CASE Verify(s)
  <2>. DEFINE cached == IF Verified(Content("target"), session[s].cached)
                        THEN session[s].cached ELSE None
              here == [session[s] EXCEPT !.pc = "attempt", !.cached = cached]
  <2>1. session' = [session EXCEPT ![s] = here] BY <1>2, <1>6 DEF Verify, Locals
  <2>2. cached # None => /\ cached = session[s].cached /\ Genuine(cached)
                         /\ Content("target") = cached.body
    BY <1>2 DEF Verified, DownloadTrue
  <2>3. cached \in Descriptions \cup {None} BY <1>2 DEF Locals
  <2>. HIDE DEF cached
  <2>4. here \in Locals /\ here.alone = session[s].alone
    BY <1>2, <2>3 DEF Locals, Steps
  <2>5. DownloadTrue(here) /\ OwnsFiles(here)
    BY <1>1, <1>2, <1>6, <2>2
    DEF Verify, DownloadTrue, ReplacesTruly, Holds, OwnsFiles, Locals, Served,
        BodyComplete, Running
  <2>. HIDE DEF here
  <2> QED BY <1>1, <1>6, <2>1, <2>4, <2>5, MovesKeeps DEF Verify
<1> QED BY <1>3, <1>4, <1>5, <1>6

-----------------------------------------------------------------------------
(* The downloader.                                                         *)

\* A session that describes what it received has received a whole version.
LEMMA ReceivedWhole ==
  ASSUME NEW here \in Locals, DownloadTrue(here), here.pc = "describe"
  PROVE  here.received = Whole(here.response)
<1>1. /\ here.received \in Seq(Versions) /\ Len(here.received) = Chunks
      /\ \A i \in DOMAIN here.received : here.received[i] = here.response
  BY ReceivedType DEF DownloadTrue, BodyComplete, Locals
<1> QED BY <1>1, CompleteIsWhole

\* An attempt is begun, fails, is told that nothing has changed, or is answered.
LEMMA RequestsKeep ==
  ASSUME IInv, NEW s \in Sessions,
         Attempt(s) \/ AttemptFails(s) \/ NotModified(s) \/ Responds(s)
  PROVE  IInv'
<1>1. Running(s) BY DEF Attempt, AttemptFails, NotModified, Responds, Running, Steps
<1>2. /\ session[s] \in Locals /\ DownloadTrue(session[s])
      /\ session[s].alone => OwnsFiles(session[s])
  BY <1>1, OfSession
<1>3. CASE Attempt(s)
  <2>. DEFINE here == [session[s] EXCEPT !.pc = "request", !.attempt = @ + 1]
  <2>1. session' = [session EXCEPT ![s] = here] BY <1>2, <1>3 DEF Attempt, Locals
  <2>2. session[s].attempt + 1 \in 0..MaxAttempts
    BY <1>2, <1>3, CacheAssumption DEF Attempt, DownloadTrue, Locals
  <2>3. here \in Locals /\ here.alone = session[s].alone /\ here.pc # "body"
    BY <1>2, <2>2 DEF Locals, Steps
  <2>4. DownloadTrue(here) /\ (here.alone => OwnsFiles(here))
    BY <1>1, <1>2, <1>3
    DEF Attempt, DownloadTrue, ReplacesTruly, Holds, OwnsFiles, Locals, Served,
        BodyComplete, Running, Steps
  <2>. HIDE DEF here
  <2> QED BY <1>1, <1>3, <2>1, <2>3, <2>4, MovesKeeps DEF Attempt
<1>4. CASE AttemptFails(s)
  <2>1. CASE GivesUp(s) BY <1>1, <1>4, <2>1, EndsKeeps DEF AttemptFails, GivesUp, Ends
  <2>2. CASE ~ GivesUp(s)
    <3>. DEFINE here == [session[s] EXCEPT !.pc = "attempt", !.response = None,
                          !.etag = None, !.fd = None, !.received = <<>>]
    <3>1. AttemptsLeft(session[s]) /\ session' = [session EXCEPT ![s] = here]
      BY <1>2, <1>4, <2>2 DEF AttemptFails, Locals
    <3>2. here \in Locals /\ here.alone = session[s].alone /\ here.pc # "body"
      BY <1>2, NothingReceived DEF Locals, Steps
    <3>3. session[s].pc = "describe" => /\ session[s].response \in session[s].served
                                        /\ session[s].received = Whole(session[s].response)
                                        /\ ReplacesTruly(session[s], session[s].response)
      BY <1>2, ReceivedWhole DEF DownloadTrue
    <3>4. DownloadTrue(here)
      BY <1>1, <1>2, <1>4, <3>1
      DEF AttemptFails, AttemptsLeft, DownloadTrue, Locals, Served, BodyComplete,
          Running, Steps
    <3>5. here.alone => OwnsFiles(here)
      BY <1>2, <1>4, <3>3 DEF AttemptFails, OwnsFiles, ReplacesTruly, Holds, Locals
    <3>. HIDE DEF here
    <3> QED BY <1>1, <1>4, <3>1, <3>2, <3>4, <3>5, MovesKeeps DEF AttemptFails
  <2> QED BY <2>1, <2>2
<1>5. CASE NotModified(s)
  <2>1. /\ session[s].cached \in Descriptions
        /\ session[s].cached.body = Whole(upstream)
        /\ upstream \in session[s].served
    BY <1>1, <1>2, <1>5, CacheAssumption
    DEF NotModified, Holds, DownloadTrue, Genuine, Running, IInv, TypeOK
  <2>2. session[s].alone =>
          /\ \E v \in session[s].served : Content("target") = Whole(v)
          /\ session[s].wentBack \/ Content("target") = session[s].cached.body
    BY <1>2, <1>5, <2>1 DEF NotModified, Holds, OwnsFiles, ReplacesTruly
  <2> QED BY <1>1, <1>5, <2>1, <2>2, ReturnsKeeps DEF NotModified
<1>6. CASE Responds(s)
  <2>1. PICK etag \in {upstream, None} :
          session' = [session EXCEPT ![s].pc = "open", ![s].response = upstream,
                                     ![s].etag = etag]
    BY <1>6 DEF Responds
  <2>. DEFINE here == [session[s] EXCEPT !.pc = "open", !.response = upstream,
                                         !.etag = etag]
  <2>2. session' = [session EXCEPT ![s] = here] BY <1>2, <2>1 DEF Locals
  <2>3. here \in Locals /\ here.alone = session[s].alone
    BY <1>2 DEF Locals, Steps, IInv, TypeOK
  <2>4. ReplacesTruly(session[s], upstream)
    BY <1>2, CacheAssumption DEF ReplacesTruly, Holds, DownloadTrue, Genuine, IInv, TypeOK
  <2>5. DownloadTrue(here)
    BY <1>1, <1>2, <1>6, <2>4
    DEF Responds, DownloadTrue, ReplacesTruly, Holds, Locals, Served, BodyComplete,
        Running, Steps
  <2>6. here.alone => OwnsFiles(here)
    BY <1>2, <1>6 DEF Responds, OwnsFiles, ReplacesTruly, Holds, Locals
  <2>. HIDE DEF here
  <2> QED BY <1>1, <1>6, <2>2, <2>3, <2>5, <2>6, MovesKeeps DEF Responds
<1> QED BY <1>3, <1>4, <1>5, <1>6

\* The partial file is opened over one of that name or an unused inode, so never over
\* the target.
LEMMA OpenPartKeeps ==
  ASSUME IInv, NEW s \in Sessions, OpenPart(s)
  PROVE  IInv' /\ UNCHANGED Content("target")
<1>1. Running(s) BY DEF OpenPart, Running, Steps
<1>2. /\ session[s] \in Locals /\ DownloadTrue(session[s])
      /\ session[s].alone => OwnsFiles(session[s])
  BY <1>1, OfSession
<1>. DEFINE inode == IF dir["part"] # None THEN dir["part"]
                     ELSE CHOOSE i \in Inodes : i \notin InodesInUse
            here == [session[s] EXCEPT !.pc = "body", !.fd = inode]
<1>3. inode \in Inodes /\ inode # dir["target"]
  <2>1. CASE dir["part"] # None BY <2>1 DEF IInv, TypeOK, FilesApart, Names
  <2>2. CASE dir["part"] = None
    <3>1. inode \in Inodes /\ inode \notin InodesInUse
      BY <2>2, InodeFree DEF IInv
    <3> QED BY <3>1 DEF InodesInUse, Names
  <2> QED BY <2>1, <2>2
<1>4. /\ dir' = [dir EXCEPT !["part"] = inode] /\ data' = [data EXCEPT ![inode] = <<>>]
      /\ session' = [session EXCEPT ![s] = here] /\ session'[s] = here
  <2>1. /\ dir' = [dir EXCEPT !["part"] = inode] /\ data' = [data EXCEPT ![inode] = <<>>]
        /\ session' = [session EXCEPT ![s].pc = "body", ![s].fd = inode]
    BY DEF OpenPart
  <2>. HIDE DEF inode
  <2> QED BY <1>2, <2>1 DEF Locals, IInv, TypeOK
<1>. HIDE DEF inode
<1>5. /\ here \in Locals /\ here.pc = "body" /\ here.fd = inode /\ here.received = <<>>
      /\ here.alone = session[s].alone /\ here.cached = session[s].cached
      /\ here.served = session[s].served /\ here.wentBack = session[s].wentBack
  BY <1>2, <1>3 DEF Locals, Steps, OpenPart, DownloadTrue
<1>6. DownloadTrue(here)
  BY <1>1, <1>2, <1>3
  DEF OpenPart, DownloadTrue, ReplacesTruly, Holds, Locals, Served, BodyComplete,
      Running, Steps
<1>. HIDE DEF here
<1>7. TypeOK'
  <2>1. dir' \in [Names -> Inodes \cup {None}] BY <1>3, <1>4 DEF IInv, TypeOK
  <2>2. data' \in [Inodes -> Seq(Versions \cup {None})]
    BY <1>3, <1>4, EmptySeq DEF IInv, TypeOK
  <2>3. session' \in [Sessions -> Locals] BY <1>4, <1>5 DEF IInv, TypeOK
  <2> QED BY <2>1, <2>2, <2>3 DEF OpenPart, IInv, TypeOK
<1>8. FilesApart' BY <1>3, <1>4 DEF IInv, TypeOK, FilesApart, Names
<1>9. KeptIsGenuine' BY DEF OpenPart, IInv, KeptIsGenuine, Genuine
<1>10. Content("target")' = Content("target")
  BY <1>3, <1>4 DEF Content, IInv, TypeOK, Names
<1>11. DownloadTrue(session[s])'
  BY <1>4, <1>6
  DEF OpenPart, DownloadTrue, ReplacesTruly, Holds, Served, Genuine, BodyComplete
<1>12. session[s].alone => OwnsFiles(session[s])'
  <2>1. \A v : ReplacesTruly(session[s], v) => ReplacesTruly(session[s], v)'
    BY <1>4, <1>5 DEF OpenPart, ReplacesTruly, Holds
  <2>2. dir'["part"] = inode /\ data'[inode] = <<>> BY <1>3, <1>4 DEF IInv, TypeOK, Names
  <2> QED BY <1>2, <1>4, <1>5, <1>10, <2>1, <2>2 DEF OpenPart, OwnsFiles
<1>13. DownloadsTrue' /\ SoloOwnsFiles'
  BY <1>1, <1>4, <1>5, <1>11, <1>12, OneMoves DEF OpenPart
<1> QED BY <1>7, <1>8, <1>9, <1>10, <1>13 DEF IInv

\* What a session receives goes to the file it has open, whoever else has; if it is
\* alone the file is what it has received, and not the target.
LEMMA ReadChunkKeeps ==
  ASSUME IInv, NEW s \in Sessions, ReadChunk(s)
  PROVE  IInv' /\ (session[s].alone => UNCHANGED Content("target"))
<1>1. Running(s) BY DEF ReadChunk, Running, Steps
<1>2. /\ session[s] \in Locals /\ DownloadTrue(session[s])
      /\ session[s].alone => OwnsFiles(session[s])
  BY <1>1, OfSession
<1>. DEFINE fd == session[s].fd
            chunk == session[s].response
            old == session[s].received
            new == Append(old, chunk)
            here == [session[s] EXCEPT !.received = new]
<1>3. fd \in Inodes /\ chunk \in Versions /\ session[s].pc = "body" /\ Len(old) # Chunks
      /\ chunk \in session[s].served
  BY <1>2 DEF ReadChunk, DownloadTrue, Locals, BodyComplete
<1>4. old \in Seq(Versions) /\ Len(old) <= Chunks
  BY <1>2, ReceivedType DEF Locals
<1>5. /\ new \in Seq(Versions) /\ Len(new) <= Chunks
      /\ \A i \in DOMAIN new : new[i] = chunk
  <2>1. Len(new) = Len(old) + 1 /\ Len(old) \in Nat /\ new \in Seq(Versions)
    BY <1>3, <1>4
  <2>2. \A i \in 1..Len(old) : old[i] = chunk BY <1>2, <1>4 DEF DownloadTrue
  <2>3. \A i \in DOMAIN new : new[i] = chunk BY <1>3, <1>4, <2>2
  <2> QED BY <1>3, <1>4, <2>1, <2>3, CacheAssumption
<1>6. /\ data' = [data EXCEPT ![fd] = WriteAt(data[fd], Len(old) + 1, chunk)]
      /\ session' = [session EXCEPT ![s] = here] /\ session'[s] = here
  BY <1>2, <1>3 DEF ReadChunk, Locals, IInv, TypeOK
<1>7. new \in UNION {[1..n -> Versions] : n \in 0..Chunks} BY <1>5, ReceivedType
<1>. HIDE DEF new
<1>8. /\ here \in Locals /\ here.pc = "body" /\ here.fd = fd /\ here.received = new
      /\ here.alone = session[s].alone /\ here.cached = session[s].cached
      /\ here.served = session[s].served /\ here.wentBack = session[s].wentBack
      /\ here.response = chunk
  BY <1>2, <1>3, <1>7 DEF Locals
<1>9. DownloadTrue(here)
  BY <1>1, <1>2, <1>3, <1>5, <1>8
  DEF DownloadTrue, ReplacesTruly, Holds, Locals, Running, Steps
<1>. HIDE DEF here
<1>10. TypeOK'
  <2>1. Len(old) + 1 \in Nat \ {0} BY <1>4
  <2>2. data[fd] \in Seq(Versions \cup {None}) BY <1>3 DEF IInv, TypeOK
  <2>3. WriteAt(data[fd], Len(old) + 1, chunk) \in Seq(Versions \cup {None})
    BY <1>3, <2>1, <2>2, WriteAtType
  <2>4. data' \in [Inodes -> Seq(Versions \cup {None})]
    BY <1>6, <2>3 DEF IInv, TypeOK
  <2>5. session' \in [Sessions -> Locals] BY <1>6, <1>8 DEF IInv, TypeOK
  <2> QED BY <2>4, <2>5 DEF ReadChunk, IInv, TypeOK
<1>11. FilesApart' /\ KeptIsGenuine'
  BY DEF ReadChunk, IInv, FilesApart, KeptIsGenuine, Genuine
<1>12. DownloadTrue(session[s])'
  BY <1>6, <1>9
  DEF ReadChunk, DownloadTrue, ReplacesTruly, Holds, Served, Genuine, BodyComplete
<1>13. ASSUME session[s].alone
       PROVE  OwnsFiles(session[s])' /\ UNCHANGED Content("target")
  <2>. USE <1>13
  <2>1. dir["part"] = fd /\ data[fd] = old BY <1>2, <1>3 DEF OwnsFiles
  <2>2. data'[fd] = new
    BY <1>3, <1>4, <1>6, <2>1, WriteAtEnd DEF new, IInv, TypeOK
  <2>3. fd # dir["target"]
    BY <1>3, <2>1, CacheAssumption DEF IInv, FilesApart
  <2>4. Content("target")' = Content("target")
    BY <1>6, <2>3 DEF ReadChunk, Content, IInv, TypeOK, Names
  <2>5. OwnsFiles(session[s])'
    <3>1. \A v : ReplacesTruly(session[s], v) => ReplacesTruly(session[s], v)'
      BY <1>6, <1>8 DEF ReadChunk, ReplacesTruly, Holds
    <3> QED BY <1>2, <1>3, <1>6, <1>8, <2>1, <2>2, <2>4, <3>1 DEF ReadChunk, OwnsFiles
  <2> QED BY <2>4, <2>5
<1>14. DownloadsTrue' /\ SoloOwnsFiles'
  BY <1>1, <1>6, <1>8, <1>12, <1>13, OneMoves DEF ReadChunk
<1> QED BY <1>10, <1>11, <1>13, <1>14 DEF IInv

\* The file that replaces the target is, if the session is alone, all it received.
LEMMA ReplaceKeeps ==
  ASSUME IInv, NEW s \in Sessions, Replace(s)
  PROVE  IInv' /\ (session[s].alone => \E v \in Versions : Content("target")' = Whole(v))
<1>1. Running(s) BY DEF Replace, Running, Steps
<1>2. /\ session[s] \in Locals /\ DownloadTrue(session[s])
      /\ session[s].alone => OwnsFiles(session[s])
  BY <1>1, OfSession
<1>. DEFINE here == [session[s] EXCEPT !.pc = "describe", !.fd = None]
<1>3. /\ session' = [session EXCEPT ![s] = here] /\ session'[s] = here
      /\ dir' = [dir EXCEPT !["target"] = dir["part"], !["part"] = None]
  BY <1>2 DEF Replace, Locals, IInv, TypeOK
<1>4. /\ here \in Locals /\ here.pc = "describe" /\ here.received = session[s].received
      /\ here.alone = session[s].alone
  BY <1>2 DEF Locals, Steps
<1>5. DownloadTrue(here)
  BY <1>1, <1>2
  DEF Replace, DownloadTrue, ReplacesTruly, Holds, Locals, Served, BodyComplete,
      Running, Steps
<1>. HIDE DEF here
<1>6. dir'["target"] = dir["part"] /\ dir'["part"] = None /\ dir["part"] \in Inodes
  BY <1>3 DEF Replace, IInv, TypeOK, Names
<1>7. TypeOK'
  <2>1. dir' \in [Names -> Inodes \cup {None}] BY <1>3, <1>6 DEF IInv, TypeOK, Names
  <2>2. session' \in [Sessions -> Locals] BY <1>3, <1>4 DEF IInv, TypeOK
  <2> QED BY <2>1, <2>2 DEF Replace, IInv, TypeOK
<1>8. FilesApart' /\ KeptIsGenuine'
  BY <1>6 DEF Replace, IInv, FilesApart, KeptIsGenuine, Genuine
<1>9. DownloadTrue(session[s])'
  BY <1>3, <1>5
  DEF Replace, DownloadTrue, ReplacesTruly, Holds, Served, Genuine, BodyComplete
<1>10. session[s].alone => Content("target")' = session[s].received
  BY <1>2, <1>6, CacheAssumption DEF Replace, OwnsFiles, Content
<1>11. session[s].alone => OwnsFiles(session[s])'
  BY <1>3, <1>4, <1>10 DEF OwnsFiles
<1>12. DownloadsTrue' /\ SoloOwnsFiles'
  BY <1>1, <1>3, <1>4, <1>9, <1>11, OneMoves DEF Replace
<1>13. ASSUME session[s].alone PROVE \E v \in Versions : Content("target")' = Whole(v)
  <2>1. /\ session[s].response \in Versions /\ session[s].received \in Seq(Versions)
        /\ Len(session[s].received) = Chunks
        /\ \A i \in DOMAIN session[s].received : session[s].received[i] = session[s].response
    BY <1>2, ReceivedType DEF Replace, DownloadTrue, BodyComplete, Locals
  <2>2. session[s].received = Whole(session[s].response) BY <2>1, CompleteIsWhole
  <2> QED BY <1>10, <1>13, <2>1, <2>2
<1> QED BY <1>7, <1>8, <1>12, <1>13 DEF IInv

-----------------------------------------------------------------------------
(* Describing, and the world.                                              *)

\* A description is of what was received, so its validator is that of its bytes.
LEMMA DescribeKeeps ==
  ASSUME IInv, NEW s \in Sessions, Describe(s)
  PROVE  IInv'
<1>1. Running(s) BY DEF Describe, Running, Steps
<1>2. /\ session[s] \in Locals /\ DownloadTrue(session[s])
      /\ session[s].alone => OwnsFiles(session[s])
  BY <1>1, OfSession
<1>. DEFINE new == Description(session[s])
            here == [session[s] EXCEPT !.pc = "publish", !.cached = None,
                                       !.wentBack = FALSE, !.result = new]
<1>3. /\ session' = [session EXCEPT ![s] = here] /\ session'[s] = here /\ staged' = new
  BY <1>2 DEF Describe, Locals, IInv, TypeOK
<1>4. /\ session[s].response \in Versions
      /\ session[s].response \in session[s].served
      /\ session[s].received = Whole(session[s].response)
  BY <1>2, ReceivedWhole DEF Describe, DownloadTrue, Locals
<1>5. new \in Descriptions /\ Genuine(new) /\ new.body = session[s].received
  BY <1>2, <1>4 DEF Describe, Description, Descriptions, Genuine, DownloadTrue
<1>. HIDE DEF new
<1>6. /\ here \in Locals /\ here.pc = "publish" /\ here.result = new
      /\ here.alone = session[s].alone
  BY <1>2, <1>5 DEF Locals, Steps
<1>7. DownloadTrue(here)
  BY <1>1, <1>2, <1>4, <1>5
  DEF Describe, DownloadTrue, Locals, Served, BodyComplete, Running, Steps
<1>. HIDE DEF here
<1>8. TypeOK' BY <1>3, <1>5, <1>6 DEF Describe, IInv, TypeOK
<1>9. FilesApart' BY DEF Describe, IInv, FilesApart
<1>10. KeptIsGenuine' BY <1>3, <1>5 DEF Describe, IInv, KeptIsGenuine, Genuine
<1>11. DownloadTrue(session[s])'
  BY <1>3, <1>7
  DEF Describe, DownloadTrue, ReplacesTruly, Holds, Served, Genuine, BodyComplete
<1>12. session[s].alone => OwnsFiles(session[s])'
  BY <1>2, <1>3, <1>5, <1>6 DEF Describe, OwnsFiles, Content
<1>13. DownloadsTrue' /\ SoloOwnsFiles'
  BY <1>1, <1>3, <1>6, <1>11, <1>12, OneMoves DEF Describe
<1> QED BY <1>8, <1>9, <1>10, <1>13 DEF IInv

\* The staged description becomes the kept one, if nobody has renamed it before.
LEMMA PublishesKeep ==
  ASSUME IInv, NEW s \in Sessions, Publish(s) \/ PublishFails(s)
  PROVE  IInv'
<1>1. Running(s) BY DEF Publish, PublishFails, Running, Steps
<1>2. CASE Publish(s)
  <2>1. Served(session[s]) /\ (session[s].alone => OwnsFiles(session[s]))
    BY <1>1, <1>2, OfSession DEF Publish, DownloadTrue
  <2>2. session[s].result \in Descriptions
        /\ \E v \in session[s].served : session[s].result.body = Whole(v)
    BY <2>1 DEF Served
  <2>3. session[s].alone =>
          /\ \E v \in session[s].served : Content("target") = Whole(v)
          /\ session[s].wentBack \/ Content("target") = session[s].result.body
    BY <1>2, <2>1, <2>2 DEF Publish, OwnsFiles
  <2> QED BY <1>1, <1>2, <2>2, <2>3, ReturnsKeeps DEF Publish
<1>3. CASE PublishFails(s)
  BY <1>1, <1>3, EndsKeeps DEF PublishFails, Ends
<1> QED BY <1>2, <1>3

\* Two states of a session that differ only in what it has seen of the world.
Alike(a, b) ==
    /\ a.pc = b.pc /\ a.cached = b.cached /\ a.attempt = b.attempt
    /\ a.response = b.response /\ a.etag = b.etag /\ a.fd = b.fd
    /\ a.received = b.received /\ a.result = b.result

\* A session that starts ends the solitude of the others, and is alone if there are
\* none.
LEMMA StartKeeps ==
  ASSUME IInv, NEW s \in Sessions, Start(s)
  PROVE  IInv'
<1>. DEFINE here == [Rest("check") EXCEPT !.served = {upstream},
                                          !.alone = \A q \in Sessions : ~ Running(q)]
<1>1. /\ budget.starts > 0 /\ budget' = [budget EXCEPT !.starts = @ - 1]
      /\ UNCHANGED <<upstream, dir, data, metadata, staged>>
      /\ session' = [r \in Sessions |->
           IF r = s THEN here
           ELSE IF Running(r) THEN [session[r] EXCEPT !.alone = FALSE]
           ELSE session[r]]
  BY Zenon DEF Start
<1>2. /\ here \in Locals /\ here.pc = "check" /\ here.cached = None /\ here.attempt = 0
      /\ here.received = <<>> /\ here.served = {upstream}
      /\ here.alone => \A q \in Sessions : ~ Running(q)
  <2>1. Rest("check") \in Locals /\ upstream \in Versions
    BY RestType DEF Steps, IInv, TypeOK
  <2>2. here \in Locals BY <2>1 DEF Locals
  <2> QED BY <2>2 DEF Rest
<1>. HIDE DEF here
<1>3. session'[s] = here BY <1>1
<1>4. ASSUME NEW r \in Sessions \ {s}
      PROVE  /\ session'[r] \in Locals /\ Alike(session'[r], session[r])
             /\ session'[r].served = session[r].served
             /\ session'[r].wentBack = session[r].wentBack
             /\ session'[r].pc \in Steps => ~ session'[r].alone
  <2>1. session[r] \in Locals BY DEF IInv, TypeOK
  <2>2. CASE Running(r)
    <3>1. session'[r] = [session[r] EXCEPT !.alone = FALSE] BY <1>1, <2>2
    <3> QED BY <2>1, <3>1 DEF Locals, Alike
  <2>3. CASE ~ Running(r)
    <3>1. session'[r] = session[r] BY <1>1, <2>3
    <3> QED BY <2>1, <2>3, <3>1 DEF Alike, Running
  <2> QED BY <2>2, <2>3
<1>5. session' = [r \in Sessions |-> session'[r]] BY <1>1
<1>6. TypeOK'
  <2>1. session' \in [Sessions -> Locals] BY <1>2, <1>3, <1>4, <1>5
  <2>2. budget' \in [starts : 0..MaxStarts, events : 0..MaxEvents]
    <3>1. budget \in [starts : 0..MaxStarts, events : 0..MaxEvents]
      BY DEF IInv, TypeOK
    <3> QED BY <1>1, <3>1, CacheAssumption
  <2> QED BY <1>1, <2>1, <2>2 DEF IInv, TypeOK
<1>7. FilesApart' /\ KeptIsGenuine'
  BY <1>1 DEF IInv, FilesApart, KeptIsGenuine, Genuine
<1>8. DownloadsTrue'
  <2>1. DownloadTrue(session[s])'
    BY <1>1, <1>2, <1>3, CacheAssumption DEF DownloadTrue, Steps
  <2>2. ASSUME NEW r \in Sessions \ {s} PROVE DownloadTrue(session[r])'
    <3>1. DownloadTrue(session[r]) BY DEF IInv, DownloadsTrue
    <3> QED BY <1>1, <1>4, <3>1
            DEF Alike, DownloadTrue, ReplacesTruly, Holds, Served, Genuine, BodyComplete
  <2> QED BY <2>1, <2>2 DEF DownloadsTrue
<1>9. SoloOwnsFiles'
  <2>1. OwnsFiles(session[s])' BY <1>2, <1>3 DEF OwnsFiles
  <2>2. \A r \in Sessions \ {s} : Running(r)' => ~ session'[r].alone
    BY <1>4 DEF Running
  <2>3. session'[s].alone => \A r \in Sessions \ {s} : ~ Running(r)'
    BY <1>2, <1>3, <1>4 DEF Running, Alike
  <2> QED BY <2>1, <2>2, <2>3 DEF SoloOwnsFiles
<1> QED BY <1>6, <1>7, <1>8, <1>9 DEF IInv

\* What a session sees of an update leaves it typed.
LEMMA UpdateType ==
  ASSUME NEW here \in Locals, NEW v \in Versions, NEW back \in BOOLEAN
  PROVE  [here EXCEPT !.served = here.served \cup {v}, !.wentBack = back] \in Locals
BY DEF Locals

\* What the museum serves from now on, it serves while the sessions under way run.
LEMMA MuseumUpdatesKeeps == ASSUME IInv, MuseumUpdates PROVE IInv'
<1>. budget.events > 0 /\ budget' = [budget EXCEPT !.events = @ - 1]
  BY Zenon DEF MuseumUpdates
<1>. UNCHANGED <<dir, data, metadata, staged>> BY Zenon DEF MuseumUpdates
<1>1. PICK v \in Versions \ {upstream} :
        /\ upstream' = v
        /\ session' = [s \in Sessions |->
             IF Running(s)
               THEN [session[s] EXCEPT !.served = @ \cup {v},
                                       !.wentBack = @ \/ Holds(session[s], v)]
               ELSE session[s]]
  BY Zenon DEF MuseumUpdates
<1>2. ASSUME NEW r \in Sessions
      PROVE  /\ session'[r] \in Locals /\ Alike(session'[r], session[r])
             /\ session'[r].alone = session[r].alone
             /\ session[r].served \subseteq session'[r].served
             /\ session[r].pc \in Steps => v \in session'[r].served
             /\ session[r].wentBack => session'[r].wentBack
             /\ session[r].pc \in Steps /\ Holds(session'[r], v) => session'[r].wentBack
  <2>1. session[r] \in Locals BY DEF IInv, TypeOK
  <2>2. CASE Running(r)
    <3>. DEFINE back == session[r].wentBack \/ Holds(session[r], v)
    <3>1. session'[r] = [session[r] EXCEPT !.served = session[r].served \cup {v},
                                           !.wentBack = back]
      BY <1>1, <2>1, <2>2 DEF Locals
    <3>2. back \in BOOLEAN BY Zenon
    <3>3. session[r].wentBack => back OBVIOUS
    <3>4. session[r].pc \in Steps /\ Holds(session[r], v) => back OBVIOUS
    <3>. HIDE DEF back
    <3>5. session'[r] \in Locals
      <4>1. v \in Versions OBVIOUS
      <4>2. [session[r] EXCEPT !.served = session[r].served \cup {v}, !.wentBack = back]
              \in Locals
        BY <2>1, <3>2, <4>1, UpdateType
      <4> QED BY <3>1, <4>2
    <3>6. /\ Alike(session'[r], session[r]) /\ session'[r].alone = session[r].alone
          /\ session'[r].served = session[r].served \cup {v}
          /\ session'[r].wentBack = back
      BY <2>1, <3>1 DEF Locals, Alike
    <3>7. Holds(session'[r], v) => Holds(session[r], v) BY <3>6 DEF Alike, Holds
    <3> QED BY <3>3, <3>4, <3>5, <3>6, <3>7
  <2>3. CASE ~ Running(r)
    <3>1. session'[r] = session[r] BY <1>1, <2>3
    <3> QED BY <2>1, <2>3, <3>1 DEF Alike, Running
  <2> QED BY <2>2, <2>3
<1>3. TypeOK'
  <2>1. session' \in [Sessions -> Locals] BY <1>1, <1>2
  <2>2. budget' \in [starts : 0..MaxStarts, events : 0..MaxEvents]
    BY CacheAssumption DEF IInv, TypeOK
  <2> QED BY <1>1, <2>1, <2>2 DEF IInv, TypeOK
<1>4. FilesApart' /\ KeptIsGenuine'
  BY DEF IInv, FilesApart, KeptIsGenuine, Genuine
<1>5. DownloadsTrue'
  <2>. SUFFICES ASSUME NEW r \in Sessions PROVE DownloadTrue(session[r])'
    BY DEF DownloadsTrue
  <2>1. DownloadTrue(session[r]) BY DEF IInv, DownloadsTrue
  <2>2. session'[r].pc \in Steps => ReplacesTruly(session[r], session[r].response)'
    BY <1>1, <1>2 DEF ReplacesTruly, Alike
  <2>3. session'[r].pc \in {"open", "body", "describe"}
        => ReplacesTruly(session[r], session[r].response)'
    BY <2>2 DEF Steps
  <2>4. session'[r].pc \in {"publish", "using"} => Served(session[r])'
    BY <1>2, <2>1 DEF Alike, DownloadTrue, Served
  <2>5. session'[r].cached # None => Genuine(session[r].cached)'
    BY <1>2, <2>1 DEF Alike, DownloadTrue, Genuine
  <2>6. session'[r].pc \in {"open", "body", "describe"}
        => session'[r].response \in session'[r].served
           /\ session'[r].etag \in {session'[r].response, None}
    BY <1>2, <2>1 DEF Alike, DownloadTrue
  <2>7. session'[r].pc = "describe" => BodyComplete(session[r])'
    BY <1>2, <2>1 DEF Alike, DownloadTrue, BodyComplete
  <2>8. /\ Alike(session'[r], session[r])
        /\ session'[r].pc \in Steps => upstream' \in session'[r].served
    BY <1>1, <1>2 DEF Alike
  <2> QED BY <2>1, <2>3, <2>4, <2>5, <2>6, <2>7, <2>8 DEF Alike, DownloadTrue
<1>6. SoloOwnsFiles'
  <2>. SUFFICES ASSUME NEW s \in Sessions, Running(s)', session'[s].alone
                PROVE  (\A q \in Sessions \ {s} : ~ Running(q))' /\ OwnsFiles(session[s])'
    BY DEF SoloOwnsFiles
  <2>0. session[s].pc \in Steps BY <1>2 DEF Running, Alike
  <2>1. /\ \A q \in Sessions \ {s} : ~ Running(q) /\ ~ Running(q)'
        /\ OwnsFiles(session[s])
    BY <1>2 DEF IInv, SoloOwnsFiles, Running, Alike
  <2>2. UNCHANGED <<dir, data, Content("target")>> BY DEF Content
  <2>3. \A w : ReplacesTruly(session[s], w)'
    BY <1>1, <1>2, <2>0 DEF ReplacesTruly, Running
  <2> QED BY <1>2, <2>1, <2>2, <2>3 DEF OwnsFiles, Alike
<1> QED BY <1>3, <1>4, <1>5, <1>6 DEF IInv

\* Nobody runs while files are damaged.
LEMMA DamageKeeps == ASSUME IInv, Damage PROVE IInv'
<1>1. /\ \A s \in Sessions : ~ Running(s) /\ ~ Running(s)'
      /\ UNCHANGED <<upstream, staged, session>>
  BY DEF Damage, Running
<1>2. TypeOK'
  <2>1. budget' \in [starts : 0..MaxStarts, events : 0..MaxEvents]
    BY CacheAssumption DEF Damage, IInv, TypeOK
  <2>2. metadata' \in Descriptions \cup {Undecodable, None}
    BY DEF Damage, IInv, TypeOK
  <2>3. dir' \in [Names -> Inodes \cup {None}]
    BY DEF Damage, Unlink, IInv, TypeOK
  <2>4. data' \in [Inodes -> Seq(Versions \cup {None})]
    <3>. SUFFICES ASSUME dir["target"] # None, NEW chunk \in Versions,
                         data' = [data EXCEPT ![dir["target"]] =
                                    WriteAt(data[dir["target"]], 1, chunk)]
                  PROVE  data' \in [Inodes -> Seq(Versions \cup {None})]
      BY DEF Damage, IInv, TypeOK
    <3>1. data[dir["target"]] \in Seq(Versions \cup {None}) BY DEF IInv, TypeOK, Names
    <3>2. WriteAt(data[dir["target"]], 1, chunk) \in Seq(Versions \cup {None})
      <4>1. 1 \in Nat \ {0} OBVIOUS
      <4> QED BY <3>1, <4>1, WriteAtType
    <3> QED BY <3>2 DEF IInv, TypeOK
  <2> QED BY <1>1, <2>1, <2>2, <2>3, <2>4 DEF IInv, TypeOK
<1>3. FilesApart' BY DEF Damage, Unlink, IInv, FilesApart, TypeOK, Names
<1>4. KeptIsGenuine'
  BY <1>1, CacheAssumption DEF Damage, IInv, KeptIsGenuine, Genuine
<1>5. DownloadsTrue'
  BY <1>1 DEF IInv, DownloadsTrue, DownloadTrue, ReplacesTruly, Holds, Served, Genuine,
              BodyComplete
<1>6. SoloOwnsFiles' BY <1>1 DEF SoloOwnsFiles
<1> QED BY <1>2, <1>3, <1>4, <1>5, <1>6 DEF IInv

\* Every step preserves the invariant.
LEMMA NextKeeps == ASSUME IInv, [Next]_vars PROVE IInv'
<1>1. CASE UNCHANGED vars
  BY <1>1 DEF vars, IInv, TypeOK, FilesApart, KeptIsGenuine, Genuine, DownloadsTrue,
              DownloadTrue, ReplacesTruly, Holds, Served, BodyComplete, SoloOwnsFiles,
              OwnsFiles, Content, Running
<1>2. ASSUME NEW s \in Sessions, Session(s) PROVE IInv'
  BY <1>2, LooksKeeps, RequestsKeep, OpenPartKeeps, ReadChunkKeeps, ReplaceKeeps,
     DescribeKeeps, PublishesKeep DEF Session
<1>3. ASSUME NEW s \in Sessions, Stops(s) PROVE IInv'
  BY <1>3, EndsKeeps DEF Stops, Ends
<1> QED BY <1>1, <1>2, <1>3, StartKeeps, MuseumUpdatesKeeps, DamageKeeps DEF Next
-----------------------------------------------------------------------------
\* The inductive invariant holds in every reachable state.
THEOREM Invariant == Spec => []IInv
<1>1. Init => IInv
  <2>. SUFFICES ASSUME Init PROVE IInv OBVIOUS
  <2>1. /\ Rest("idle") \in Locals
        /\ \A s \in Sessions : session[s] = Rest("idle") /\ ~ Running(s)
    BY RestType DEF Init, Ends, Rest, Running, Steps
  <2>2. TypeOK
    <3>1. <<>> \in Seq(Versions \cup {None}) BY EmptySeq
    <3>2. MaxStarts \in 0..MaxStarts /\ MaxEvents \in 0..MaxEvents BY CacheAssumption
    <3> QED BY <2>1, <3>1, <3>2 DEF Init, TypeOK
  <2>3. FilesApart /\ KeptIsGenuine
    BY CacheAssumption DEF Init, FilesApart, KeptIsGenuine, Names
  <2>4. DownloadsTrue BY <2>1 DEF DownloadsTrue, DownloadTrue, Rest, Steps
  <2>5. SoloOwnsFiles BY <2>1 DEF SoloOwnsFiles
  <2> QED BY <2>2, <2>3, <2>4, <2>5 DEF IInv
<1>2. IInv /\ [Next]_vars => IInv' BY NextKeeps
<1> QED BY <1>1, <1>2, PTL DEF Spec

\* In particular no session makes more than MaxAttempts attempts.
THEOREM TypeCorrect == Spec => []TypeOK
<1>1. IInv => TypeOK BY DEF IInv
<1> QED BY <1>1, Invariant, PTL

\* A session nobody overlaps hands out a whole snapshot the museum served while it ran,
\* and the one described unless the museum went back to the one the session found.
THEOREM SoloIsTrue == Spec => []SoloSnapshotIsTrue
<1>1. IInv => SoloSnapshotIsTrue
  BY DEF IInv, SoloOwnsFiles, SoloSnapshotIsTrue, PairAgrees, OwnsFiles, Running, Steps
<1> QED BY <1>1, Invariant, PTL

\* A validator is only ever kept with its own bytes, however sessions overlap.
THEOREM ValidatorsAreTrue == Spec => []ValidatorsMatch
<1>1. IInv => ValidatorsMatch BY DEF IInv, KeptIsGenuine, Genuine, ValidatorsMatch
<1> QED BY <1>1, Invariant, PTL

\* What a session hands out the museum served while the session ran.
THEOREM NothingStale == Spec => []NeverStale
<1>1. IInv => NeverStale BY DEF IInv, DownloadsTrue, DownloadTrue, Served, NeverStale
<1> QED BY <1>1, Invariant, PTL

\* A session that is alone replaces the target by whole snapshots only.
THEOREM OnlyWholeReplaces == Spec => ReplacedWhole
<1>. DEFINE Step == Content("target")' # Content("target")
                    => \A s \in Sessions : Running(s) /\ session[s].alone
                         => \E v \in Versions : Content("target")' = Whole(v)
<1>1. IInv /\ [Next]_vars => [Step]_vars
  <2>. SUFFICES ASSUME IInv, Next, NEW s \in Sessions, Running(s), session[s].alone,
                       Content("target")' # Content("target")
                PROVE  \E v \in Versions : Content("target")' = Whole(v)
    OBVIOUS
  <2>1. \A r \in Sessions : Running(r) => r = s BY DEF IInv, SoloOwnsFiles
  <2>2. ~ Damage BY DEF Damage
  <2>3. CASE \E r \in Sessions : Replace(r)
    <3>1. PICK r \in Sessions : Replace(r) BY <2>3
    <3>2. r = s BY <2>1, <3>1 DEF Replace, Running, Steps
    <3> QED BY <3>1, <3>2, ReplaceKeeps
  <2>4. ASSUME NEW r \in Sessions, OpenPart(r) \/ ReadChunk(r) PROVE FALSE
    <3>1. r = s BY <2>1, <2>4 DEF OpenPart, ReadChunk, Running, Steps
    <3> QED BY <2>4, <3>1, OpenPartKeeps, ReadChunkKeeps
  <2>5. ASSUME NEW r \in Sessions,
               Start(r) \/ Stops(r) \/ (Session(r) /\ ~ Replace(r) /\ ~ OpenPart(r) /\ ~ ReadChunk(r))
        PROVE  FALSE
    <3>1. data' = data /\ dir'["target"] = dir["target"]
      BY <2>5 DEF Start, Stops, Session, NothingCached, MetadataUnreadable, ReadMetadata,
                  Verify, Attempt, AttemptFails, NotModified, Responds, Describe, Publish,
                  PublishFails, Unlink, IInv, TypeOK, Names
    <3> QED BY <3>1 DEF Content
  <2>6. ~ MuseumUpdates BY DEF MuseumUpdates, Content
  <2> QED BY <2>2, <2>3, <2>4, <2>5, <2>6 DEF Next
<1> QED BY <1>1, Invariant, PTL DEF Spec, ReplacedWhole
=============================================================================
