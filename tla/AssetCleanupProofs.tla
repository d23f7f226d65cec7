------------------------- MODULE AssetCleanupProofs -------------------------
(* Proofs about the collector of assets beside the builds that use them,   *)
(* for any number of lectures, assets, threads and overlapping cleanups.   *)
EXTENDS AssetCleanup, TLAPS

-----------------------------------------------------------------------------
(* Type correctness *)

AssetRow == [blob : {0} \cup BlobIds, old : BOOLEAN]
BuildRow == [status : {"none", "queued", "running", "waiting"},
             attempts : 0..MaxAttempts, need : SUBSET Keys]
ThreadRow == [stage : {"idle", "building", "uploaded", "referenced"},
              project : Projects \cup {"none"}, holds : BOOLEAN, need : SUBSET Keys,
              found : SUBSET Keys, key : Keys \cup {"none"}, blob : {0} \cup BlobIds]
CollectorRow == [stage : {"idle", "selected", "deleting", "judged", "deleted"},
                 candidates : SUBSET Keys, key : Keys \cup {"none"}, blob : {0} \cup BlobIds]
BoundsRow == [blobs : 0..MaxBlobs, builds : 0..MaxBuilds, stops : 0..MaxStops]

\* A queued build has an attempt left, and a thread with a blob has its key.
AttemptLeft == \A p \in Projects : builds[p].status = "queued" => builds[p].attempts < MaxAttempts
UploadHasKey == \A t \in Threads : threads[t].stage = "uploaded" => threads[t].key \in Keys

TypeInv == TypeOK /\ AttemptLeft /\ UploadHasKey

\* The rows the steps start from.
LEMMA RowTypes ==
  ASSUME TypeOK
  PROVE  /\ \A k \in Keys : assets[k] \in AssetRow
         /\ \A p \in Projects : builds[p] \in BuildRow /\ manifest[p] \subseteq Keys
         /\ \A t \in Threads : threads[t] \in ThreadRow
         /\ \A c \in Collectors : collectors[c] \in CollectorRow
         /\ bounds \in BoundsRow
         /\ NoRow \in AssetRow /\ NoBuild \in BuildRow /\ Idle \in ThreadRow /\ Asleep \in CollectorRow
BY ConstantsAssumption DEF TypeOK, AssetRow, BuildRow, ThreadRow, CollectorRow, BoundsRow,
   NoRow, NoBuild, Idle, Asleep

\* A thread that is done.
LEMMA ToIdleType ==
  ASSUME TypeInv, NEW t \in Threads, ToIdle(t)
  PROVE  /\ threads' \in [Threads -> ThreadRow]
         /\ UploadHasKey'
<1>1. threads \in [Threads -> ThreadRow] /\ Idle \in ThreadRow
  BY RowTypes DEF TypeInv, TypeOK, ThreadRow
<1>2. threads'[t].stage = "idle"
  BY <1>1 DEF ToIdle, Idle
<1> QED BY <1>1, <1>2 DEF ToIdle, TypeInv, UploadHasKey

\* A count of a bound goes up while it may.
LEMMA CountType ==
  ASSUME bounds \in BoundsRow
  PROVE  /\ bounds.blobs < MaxBlobs =>
              /\ bounds.blobs + 1 \in BlobIds
              /\ [bounds EXCEPT !.blobs = bounds.blobs + 1] \in BoundsRow
         /\ bounds.builds < MaxBuilds => [bounds EXCEPT !.builds = bounds.builds + 1] \in BoundsRow
         /\ bounds.stops < MaxStops => [bounds EXCEPT !.stops = bounds.stops + 1] \in BoundsRow
<1>1. /\ bounds.blobs \in 0..MaxBlobs /\ bounds.builds \in 0..MaxBuilds
      /\ bounds.stops \in 0..MaxStops
  BY DEF BoundsRow
<1>2. /\ bounds.blobs < MaxBlobs => bounds.blobs + 1 \in 0..MaxBlobs /\ bounds.blobs + 1 \in BlobIds
      /\ bounds.builds < MaxBuilds => bounds.builds + 1 \in 0..MaxBuilds
      /\ bounds.stops < MaxStops => bounds.stops + 1 \in 0..MaxStops
  BY <1>1, ConstantsAssumption DEF BlobIds
<1> QED BY <1>2 DEF BoundsRow

\* One build changes.
LEMMA BuildType ==
  ASSUME TypeInv, NEW p \in Projects, NEW row \in BuildRow,
         row.status = "queued" => row.attempts < MaxAttempts,
         builds' = [builds EXCEPT ![p] = row]
  PROVE  /\ builds' \in [Projects -> BuildRow]
         /\ AttemptLeft'
<1>1. builds \in [Projects -> BuildRow]
  BY DEF TypeInv, TypeOK, BuildRow
<1> QED BY <1>1 DEF TypeInv, AttemptLeft

\* The attempt of a build is over.
LEMMA AttemptOverType ==
  ASSUME TypeInv, NEW p \in Projects, AttemptOver(p)
  PROVE  /\ builds' \in [Projects -> BuildRow]
         /\ AttemptLeft'
<1> DEFINE row == IF builds[p].attempts < MaxAttempts
                  THEN [builds[p] EXCEPT !.status = "queued"] ELSE NoBuild
<1>1. builds[p] \in BuildRow /\ NoBuild \in BuildRow
  BY RowTypes DEF TypeInv
<1>2. row \in BuildRow
  BY <1>1 DEF BuildRow
<1>3. row.status = "queued" => row.attempts < MaxAttempts
  BY <1>1 DEF BuildRow, NoBuild
<1>4. builds' = [builds EXCEPT ![p] = row]
  BY DEF AttemptOver
<1> HIDE DEF row
<1> QED BY <1>2, <1>3, <1>4, BuildType

\* A collector that changes its row.
LEMMA GoesType ==
  ASSUME TypeInv, NEW c \in Collectors, NEW run \in CollectorRow, Goes(c, run)
  PROVE  collectors' \in [Collectors -> CollectorRow]
BY DEF Goes, TypeInv, TypeOK, CollectorRow

\* The empty store.
LEMMA TypeInit == Init => TypeInv
<1> SUFFICES ASSUME Init PROVE TypeInv
  OBVIOUS
<1>1. NoRow \in AssetRow /\ NoBuild \in BuildRow /\ Idle \in ThreadRow /\ Asleep \in CollectorRow
  BY ConstantsAssumption DEF NoRow, NoBuild, Idle, Asleep, AssetRow, BuildRow, ThreadRow, CollectorRow
<1>2. bounds \in BoundsRow
  BY ConstantsAssumption DEF Init, BoundsRow
<1>3. TypeOK
  BY <1>1, <1>2 DEF Init, TypeOK, AssetRow, BuildRow, ThreadRow, CollectorRow, BoundsRow
<1> QED BY <1>3 DEF Init, TypeInv, AttemptLeft, UploadHasKey, NoBuild, Idle

\* Requests and time.
LEMMA LectureType ==
  ASSUME TypeInv, NEW p \in Projects,
         (\E need \in SUBSET Keys : Enqueue(p, need)) \/ Approve(p) \/ Recover(p)
  PROVE  TypeInv'
<1>a. builds[p] \in BuildRow /\ bounds \in BoundsRow /\ \A t \in Threads : threads[t] \in ThreadRow
  BY RowTypes DEF TypeInv
<1>1. ASSUME NEW need \in SUBSET Keys, Enqueue(p, need) PROVE TypeInv'
  <2> DEFINE row == [status |-> "queued", attempts |-> 0, need |-> need]
  <2>1. row \in BuildRow /\ row.attempts < MaxAttempts
    BY ConstantsAssumption DEF BuildRow
  <2>2. builds' = [builds EXCEPT ![p] = row]
    BY <1>1 DEF Enqueue
  <2>3. bounds' \in BoundsRow
    BY <1>1, <1>a, CountType DEF Enqueue
  <2> HIDE DEF row
  <2>4. builds' \in [Projects -> BuildRow] /\ AttemptLeft'
    BY <2>1, <2>2, BuildType
  <2> QED BY <1>1, <2>3, <2>4 DEF Enqueue, Store, Lectures, TypeInv, TypeOK, BuildRow, BoundsRow, UploadHasKey
<1>2. CASE Approve(p)
  <2> DEFINE row == [builds[p] EXCEPT !.status = "queued", !.attempts = 0]
  <2>a. 0 \in 0..MaxAttempts /\ 0 < MaxAttempts
    BY ConstantsAssumption
  <2>1. row \in BuildRow /\ row.attempts < MaxAttempts
    BY <1>a, <2>a DEF BuildRow
  <2>2. builds' = [builds EXCEPT ![p] = row]
    BY <1>2 DEF Approve, TypeInv, TypeOK
  <2>3. bounds' \in BoundsRow
    BY <1>2, <1>a, CountType DEF Approve
  <2> HIDE DEF row
  <2>4. builds' \in [Projects -> BuildRow] /\ AttemptLeft'
    BY <2>1, <2>2, BuildType
  <2> QED BY <1>2, <2>3, <2>4 DEF Approve, Store, Lectures, TypeInv, TypeOK, BuildRow, BoundsRow, UploadHasKey
<1>3. CASE Recover(p)
  <2>1. builds' \in [Projects -> BuildRow] /\ AttemptLeft'
    BY <1>3, AttemptOverType DEF Recover
  <2>2. threads' \in [Threads -> ThreadRow] /\ UploadHasKey'
    BY ZenonT(60), <1>3, <1>a DEF Recover, ThreadRow, TypeInv, UploadHasKey
  <2> QED BY <1>3, <2>1, <2>2
          DEF Recover, Store, Lectures, Database, TypeInv, TypeOK, BuildRow, ThreadRow
<1> QED BY <1>1, <1>2, <1>3

\* Threads.
LEMMA ThreadType ==
  ASSUME TypeInv, NEW t \in Threads, (\E p \in Projects : Claim(t, p)) \/ Handler(t) \/ Crash(t)
  PROVE  TypeInv'
<1>a. /\ threads[t] \in ThreadRow /\ Idle \in ThreadRow /\ bounds \in BoundsRow
      /\ threads \in [Threads -> ThreadRow] /\ assets \in [Keys -> AssetRow]
      /\ \A p \in Projects : builds[p] \in BuildRow
  BY RowTypes DEF TypeInv, TypeOK, ThreadRow, AssetRow
<1>b. ASSUME NEW row \in ThreadRow, threads' = [threads EXCEPT ![t] = row],
             row.stage = "uploaded" => row.key \in Keys
      PROVE  threads' \in [Threads -> ThreadRow] /\ UploadHasKey'
  BY <1>a, <1>b DEF TypeInv, UploadHasKey
<1>1. ASSUME NEW p \in Projects, Claim(t, p) PROVE TypeInv'
  <2> DEFINE row == [Idle EXCEPT !.stage = "building", !.project = p, !.holds = TRUE,
                                 !.need = builds[p].need]
             new == [builds[p] EXCEPT !.status = "running", !.attempts = builds[p].attempts + 1]
  <2>1. row \in ThreadRow /\ row.stage # "uploaded"
    BY <1>a DEF ThreadRow, Idle, BuildRow
  <2>2. builds[p].attempts < MaxAttempts
    BY <1>1 DEF Claim, TypeInv, AttemptLeft
  <2>a. builds[p].attempts + 1 \in 0..MaxAttempts
    BY <1>a, <2>2, ConstantsAssumption DEF BuildRow
  <2>3. new \in BuildRow /\ new.status # "queued"
    BY <1>a, <2>a DEF BuildRow
  <2>4. builds' = [builds EXCEPT ![p] = new] /\ threads' = [threads EXCEPT ![t] = row]
    BY <1>1 DEF Claim, TypeInv, TypeOK
  <2> HIDE DEF row, new
  <2>5. builds' \in [Projects -> BuildRow] /\ AttemptLeft'
    BY <2>3, <2>4, BuildType
  <2>6. threads' \in [Threads -> ThreadRow] /\ UploadHasKey'
    BY <1>b, <2>1, <2>4
  <2> QED BY <1>1, <2>5, <2>6 DEF Claim, Store, Lectures, Database, TypeInv, TypeOK, BuildRow, ThreadRow
<1>2. ASSUME NEW k \in Keys, Cached(t, k) PROVE TypeInv'
  <2>1. threads' \in [Threads -> ThreadRow] /\ UploadHasKey'
    BY <1>2, <1>a DEF Cached, ThreadRow, TypeInv, UploadHasKey
  <2> QED BY <1>2, <2>1 DEF Cached, Store, Lectures, Database, TypeInv, TypeOK, ThreadRow, AttemptLeft
<1>3. ASSUME NEW k \in Keys, Put(t, k) PROVE TypeInv'
  <2> DEFINE row == [threads[t] EXCEPT !.stage = "uploaded", !.key = k, !.blob = bounds.blobs + 1]
  <2>1. bounds.blobs + 1 \in BlobIds /\ bounds' \in BoundsRow
    BY <1>3, <1>a, CountType DEF Put
  <2>2. row \in ThreadRow /\ row.key \in Keys
    BY <1>a, <2>1 DEF ThreadRow
  <2>3. threads' = [threads EXCEPT ![t] = row]
    BY <1>3 DEF Put
  <2> HIDE DEF row
  <2>4. threads' \in [Threads -> ThreadRow] /\ UploadHasKey'
    BY <1>b, <2>2, <2>3
  <2> QED BY <1>3, <2>1, <2>4 DEF Put, Lectures, TypeInv, TypeOK, ThreadRow, BoundsRow, AttemptLeft
<1>4. CASE InsertRow(t)
  <2> DEFINE row == [threads[t] EXCEPT !.stage = "building",
                       !.found = threads[t].found \cup {threads[t].key}, !.key = "none", !.blob = 0]
  <2>1. threads[t].key \in Keys /\ threads[t].blob \in {0} \cup BlobIds
    BY <1>4, <1>a DEF InsertRow, TypeInv, UploadHasKey, ThreadRow
  <2>2. row \in ThreadRow /\ row.stage # "uploaded"
    BY <1>a, <2>1 DEF ThreadRow
  <2>3. threads' = [threads EXCEPT ![t] = row]
    BY <1>4 DEF InsertRow
  <2> HIDE DEF row
  <2>4. threads' \in [Threads -> ThreadRow] /\ UploadHasKey'
    BY <1>b, <2>2, <2>3
  <2>5. assets' \in [Keys -> AssetRow] /\ blobs' \subseteq BlobIds
    <3> DEFINE k == threads[t].key
               b == threads[t].blob
    <3>1. [blob |-> b, old |-> FALSE] \in AssetRow /\ [assets[k] EXCEPT !.blob = b] \in AssetRow
      BY <1>a, <2>1 DEF AssetRow
    <3>2. \/ assets' = [assets EXCEPT ![k] = [blob |-> b, old |-> FALSE]]
          \/ UNCHANGED assets
          \/ assets' = [assets EXCEPT ![k] = [assets[k] EXCEPT !.blob = b]]
      BY <1>4 DEF InsertRow
    <3>3. blobs' \subseteq blobs
      BY <1>4 DEF InsertRow
    <3>4. blobs' \subseteq BlobIds
      BY <3>3 DEF TypeInv, TypeOK
    <3>5. assets' \in [Keys -> AssetRow]
      <4> HIDE DEF k, b
      <4>1. CASE UNCHANGED assets
        BY <1>a, <4>1
      <4>2. ASSUME NEW r \in AssetRow, assets' = [assets EXCEPT ![k] = r]
            PROVE  assets' \in [Keys -> AssetRow]
        BY <1>a, <4>2
      <4> QED BY <3>1, <3>2, <4>1, <4>2
    <3> QED BY <3>4, <3>5
  <2> QED BY <1>4, <2>4, <2>5 DEF InsertRow, Lectures, Database, TypeInv, TypeOK, ThreadRow, AssetRow, AttemptLeft
<1>5. CASE RecordRefs(t)
  <2>1. threads' \in [Threads -> ThreadRow] /\ UploadHasKey' /\ refs' \subseteq Keys
    BY <1>5, <1>a DEF RecordRefs, ThreadRow, TypeInv, TypeOK, UploadHasKey
  <2> QED BY <1>5, <2>1 DEF RecordRefs, Store, Database, TypeInv, TypeOK, ThreadRow, AttemptLeft
<1>6. CASE WriteManifest(t)
  <2>1. threads' \in [Threads -> ThreadRow] /\ UploadHasKey'
    BY <1>6, ToIdleType DEF WriteManifest
  <2>2. manifest' \in [Projects -> SUBSET Keys]
    BY <1>6, <1>a DEF WriteManifest, TypeInv, TypeOK, ThreadRow
  <2>3. builds' \in [Projects -> BuildRow] /\ AttemptLeft'
    <3>1. NoBuild \in BuildRow
      BY RowTypes DEF TypeInv
    <3>2. CASE builds' = [builds EXCEPT ![threads[t].project] = NoBuild]
      <4>1. CASE threads[t].project \in Projects
        BY <3>1, <3>2, <4>1, BuildType DEF NoBuild
      <4>2. CASE threads[t].project \notin Projects
        BY ZenonT(60), <3>2, <4>2 DEF TypeInv, TypeOK, AttemptLeft, BuildRow
      <4> QED BY <4>1, <4>2
    <3>3. CASE UNCHANGED builds
      BY <3>3 DEF TypeInv, TypeOK, AttemptLeft, BuildRow
    <3> QED BY <1>6, <3>2, <3>3 DEF WriteManifest
  <2> QED BY <1>6, <2>1, <2>2, <2>3 DEF WriteManifest, Store, Database, TypeInv, TypeOK, ThreadRow, BuildRow
<1>7. CASE Fail(t) \/ Pause(t) \/ Crash(t)
  <2>1. threads' \in [Threads -> ThreadRow] /\ UploadHasKey'
    BY <1>7, ToIdleType DEF Fail, Pause, Crash
  <2>2. builds' \in [Projects -> BuildRow] /\ AttemptLeft'
    <3>1. CASE UNCHANGED builds
      BY <3>1 DEF TypeInv, TypeOK, AttemptLeft, BuildRow
    <3>2. CASE Fail(t) /\ AttemptOver(threads[t].project)
      <4>1. CASE threads[t].project \in Projects
        BY <3>2, <4>1, AttemptOverType
      <4>2. CASE threads[t].project \notin Projects
        <5>1. builds' = builds
          BY <3>2, <4>2 DEF AttemptOver, TypeInv, TypeOK
        <5> QED BY <3>1, <5>1
      <4> QED BY <4>1, <4>2
    <3>3. CASE Pause(t)
      <4> DEFINE p == threads[t].project
                 row == [builds[p] EXCEPT !.status = "waiting"]
      <4>1. builds' = [builds EXCEPT ![p] = row]
        BY <3>3 DEF Pause
      <4>2. CASE p \in Projects
        <5>1. row \in BuildRow /\ row.status = "waiting"
          BY <4>2, <1>a DEF BuildRow
        <5> HIDE DEF row, p
        <5> QED BY <4>1, <4>2, <5>1, BuildType
      <4>3. CASE p \notin Projects
        BY <4>1, <4>3, <3>1 DEF TypeInv, TypeOK
      <4> QED BY <4>2, <4>3
    <3> QED BY <1>7, <3>1, <3>2, <3>3 DEF Fail, Crash
  <2> QED BY <1>7, <2>1, <2>2 DEF Fail, Pause, Crash, Store, Lectures, Database, TypeInv, TypeOK, ThreadRow, BuildRow
<1> QED BY <1>1, <1>2, <1>3, <1>4, <1>5, <1>6, <1>7 DEF Handler, Produces

\* Cleanups, and the age of an asset.
LEMMA CollectorType ==
  ASSUME TypeInv, NEW c \in Collectors, Collect(c) \/ Stop(c)
  PROVE  TypeInv'
<1>a. collectors[c] \in CollectorRow /\ Asleep \in CollectorRow /\ bounds \in BoundsRow
      /\ NoRow \in AssetRow /\ assets \in [Keys -> AssetRow]
  BY RowTypes DEF TypeInv, TypeOK, AssetRow
<1>b. ASSUME collectors' \in [Collectors -> CollectorRow], assets' \in [Keys -> AssetRow],
             blobs' \subseteq BlobIds, bounds' \in BoundsRow,
             UNCHANGED <<builds, threads, refs, manifest, database>>
      PROVE  TypeInv'
  BY <1>b DEF TypeInv, TypeOK, AttemptLeft, UploadHasKey, CollectorRow, AssetRow, BoundsRow
<1>1. CASE Select(c)
  <2>1. [Asleep EXCEPT !.stage = "selected", !.candidates = {k \in Unreferenced : assets[k].old}]
          \in CollectorRow
    BY <1>a DEF CollectorRow, Unreferenced, Rows
  <2> QED BY <1>1, <1>a, <1>b, <2>1, GoesType
          DEF Select, Others, Store, Lectures, Database, TypeInv, TypeOK, BoundsRow
<1>2. CASE ScanDocuments(c)
  <2>1. [collectors[c] EXCEPT !.stage = "deleting",
           !.candidates = collectors[c].candidates \ UNION {manifest[p] : p \in Projects}] \in CollectorRow
    BY <1>a DEF CollectorRow
  <2> QED BY <1>2, <1>a, <1>b, <2>1, GoesType
          DEF ScanDocuments, Others, Store, Lectures, Database, TypeInv, TypeOK, BoundsRow
<1>3. ASSUME NEW k, k \in Keys, DeleteRow(c, k)
      PROVE  collectors' \in [Collectors -> CollectorRow] /\ assets' \in [Keys -> AssetRow] /\ UNCHANGED blobs
  <2>1. [collectors[c] EXCEPT !.stage = "deleted", !.key = "none",
           !.candidates = collectors[c].candidates \ {k}, !.blob = assets[k].blob] \in CollectorRow
    BY <1>a, <1>3 DEF CollectorRow, AssetRow
  <2> QED BY <1>3, <1>a, <2>1, GoesType DEF DeleteRow
<1>4. ASSUME NEW k, KeepRow(c, k)
      PROVE  collectors' \in [Collectors -> CollectorRow] /\ UNCHANGED <<assets, blobs>>
  <2>1. [collectors[c] EXCEPT !.stage = "deleting", !.key = "none",
           !.candidates = collectors[c].candidates \ {k}] \in CollectorRow
    BY <1>a DEF CollectorRow
  <2> QED BY <1>4, <1>a, <2>1, GoesType DEF KeepRow, Ends, Store
<1>5. ASSUME NEW k \in Keys, Delete(c, k) PROVE TypeInv'
  BY <1>a, <1>b, <1>3, <1>4, <1>5 DEF Delete, Others, Lectures, Database, TypeInv, TypeOK
<1>6. ASSUME NEW k \in Keys, StartDelete(c, k) PROVE TypeInv'
  <2>1. [collectors[c] EXCEPT !.stage = "judged", !.key = k] \in CollectorRow
    BY <1>a DEF CollectorRow
  <2> QED BY <1>a, <1>b, <1>4, <1>6, <2>1, GoesType
          DEF StartDelete, Others, Store, Lectures, Database, TypeInv, TypeOK
<1>7. CASE FinishDelete(c)
  BY <1>a, <1>b, <1>3, <1>4, <1>7 DEF FinishDelete, Rows, Others, Lectures, Database, TypeInv, TypeOK
<1>8. CASE DeleteBlob(c)
  <2>1. [collectors[c] EXCEPT !.stage = "deleting", !.blob = 0] \in CollectorRow
    BY <1>a DEF CollectorRow
  <2> QED BY <1>8, <1>a, <1>b, <2>1, GoesType DEF DeleteBlob, Others, Lectures, Database, TypeInv, TypeOK
<1>9. CASE Finish(c)
  BY <1>9, <1>a, <1>b, GoesType DEF Finish, Ends, Others, Store, Lectures, Database, TypeInv, TypeOK
<1>10. CASE Stop(c)
  <2>1. bounds' \in BoundsRow
    BY <1>10, <1>a, CountType DEF Stop
  <2> QED BY <1>10, <1>a, <1>b, <2>1, GoesType DEF Stop, Ends, Others, Store, Lectures, TypeInv, TypeOK
<1> QED BY <1>1, <1>2, <1>5, <1>6, <1>7, <1>8, <1>9, <1>10 DEF Collect, Deletes

\* Every step.
LEMMA NextType == TypeInv /\ [Next]_vars => TypeInv'
<1> SUFFICES ASSUME TypeInv, [Next]_vars PROVE TypeInv'
  OBVIOUS
<1>1. CASE UNCHANGED vars
  BY <1>1 DEF vars, TypeInv, TypeOK, AttemptLeft, UploadHasKey
<1>2. ASSUME NEW k \in Keys, Age(k) PROVE TypeInv'
  <2>1. assets' \in [Keys -> AssetRow]
    <3>1. [assets[k] EXCEPT !.old = TRUE] \in AssetRow
      BY RowTypes DEF TypeInv, AssetRow
    <3>2. assets' = [assets EXCEPT ![k] = [assets[k] EXCEPT !.old = TRUE]]
      BY <1>2 DEF Age
    <3> QED BY <3>1, <3>2 DEF TypeInv, TypeOK, AssetRow
  <2> QED BY <1>2, <2>1 DEF Age, Lectures, Database, TypeInv, TypeOK, AttemptLeft, UploadHasKey, AssetRow
<1> QED BY <1>1, <1>2, LectureType, ThreadType, CollectorType DEF Next

\* Rows, jobs, threads and cleanups keep their shapes.
THEOREM TypeCorrect == Spec => []TypeOK
<1>1. TypeInv => TypeOK
  BY DEF TypeInv
<1> QED BY <1>1, TypeInit, NextType, PTL DEF Spec

-----------------------------------------------------------------------------
(* Every blob has one owner: a row, a thread that has uploaded it, or the   *)
(* cleanups that are about to delete it.                                    *)

\* A blob that is stored was given out, and belongs to one row at most.
BlobsGiven == \A b \in blobs : b <= bounds.blobs
RowsOwn ==
  /\ \A k \in Rows : assets[k].blob \in blobs
  /\ \A k, l \in Rows : assets[k].blob = assets[l].blob => k = l

\* An uploaded blob belongs to its thread alone.
UploadsOwn ==
  \A t \in Threads : threads[t].stage = "uploaded" =>
    /\ threads[t].blob \in blobs
    /\ threads[t].blob # 0
    /\ \A k \in Rows : assets[k].blob # threads[t].blob
    /\ \A u \in Threads \ {t} : threads[u].stage = "uploaded" => threads[u].blob # threads[t].blob

\* The blob of a deleted row belongs to nobody else.
DeletedOwn ==
  \A c \in Collectors : collectors[c].stage = "deleted" =>
    /\ collectors[c].blob <= bounds.blobs
    /\ \A k \in Rows : assets[k].blob # collectors[c].blob
    /\ \A t \in Threads : threads[t].stage = "uploaded" => threads[t].blob # collectors[c].blob

OwnInv == TypeInv /\ BlobsGiven /\ RowsOwn /\ UploadsOwn /\ DeletedOwn

\* The parts of a step that leave the owners alone.
SameBlobs == UNCHANGED blobs /\ \A k \in Keys : assets'[k].blob = assets[k].blob
SameBound == bounds'.blobs = bounds.blobs
SameUpload(t) ==
  threads'[t].stage = "uploaded" =>
    /\ threads[t].stage = "uploaded"
    /\ threads'[t].blob = threads[t].blob
SameDelete(c) ==
  collectors'[c].stage = "deleted" =>
    /\ collectors[c].stage = "deleted"
    /\ collectors'[c].blob = collectors[c].blob

\* A step in which no blob changes hands.
Calm ==
  /\ SameBlobs /\ SameBound
  /\ \A t \in Threads : SameUpload(t)
  /\ \A c \in Collectors : SameDelete(c)

\* Such a step keeps every owner.
LEMMA CalmKeeps ==
  ASSUME OwnInv, Calm, TypeInv' PROVE OwnInv'
<1>1. Rows' = Rows /\ \A k \in Rows : assets'[k].blob = assets[k].blob
  BY DEF Calm, SameBlobs, Rows
<1>2. BlobsGiven' /\ RowsOwn'
  BY <1>1 DEF OwnInv, Calm, SameBlobs, SameBound, BlobsGiven, RowsOwn
<1>3. UploadsOwn'
  BY <1>1 DEF OwnInv, Calm, SameBlobs, SameUpload, UploadsOwn
<1>4. DeletedOwn'
  BY <1>1 DEF OwnInv, Calm, SameBlobs, SameBound, SameUpload, SameDelete, DeletedOwn
<1> QED BY <1>2, <1>3, <1>4 DEF OwnInv

\* The upload of a blob under a key nobody has.
LEMMA PutOwns ==
  ASSUME OwnInv, NEW t \in Threads, NEW k \in Keys, Put(t, k), TypeInv' PROVE OwnInv'
<1> DEFINE b == bounds.blobs + 1
<1>a. bounds.blobs \in Nat /\ \A x \in blobs : x \in Nat
  BY RowTypes, ConstantsAssumption DEF OwnInv, TypeInv, TypeOK, BoundsRow, BlobIds
<1>1. /\ blobs' = blobs \cup {b} /\ Rows' = Rows /\ UNCHANGED <<assets, collectors>>
      /\ bounds'.blobs = b
  BY RowTypes DEF Put, Rows, OwnInv, TypeInv, BoundsRow
<1>2. /\ threads'[t].stage = "uploaded" /\ threads'[t].blob = b
      /\ \A u \in Threads \ {t} : threads'[u] = threads[u]
  BY RowTypes DEF Put, OwnInv, TypeInv, TypeOK, ThreadRow
<1>3. b \notin blobs /\ b # 0 /\ \A x \in blobs : x <= b
  BY <1>a DEF OwnInv, BlobsGiven
<1>4. BlobsGiven' /\ RowsOwn'
  BY <1>1, <1>3, <1>a DEF OwnInv, BlobsGiven, RowsOwn
<1>5. \A k2 \in Rows : assets[k2].blob # b
  BY <1>3 DEF OwnInv, RowsOwn
<1>6. \A u \in Threads \ {t} : threads'[u].stage = "uploaded" => threads'[u].blob # b
  BY <1>2, <1>3 DEF OwnInv, UploadsOwn
<1>7. UploadsOwn'
  BY <1>1, <1>2, <1>3, <1>5, <1>6 DEF OwnInv, UploadsOwn
<1>8. \A c \in Collectors : collectors[c].stage = "deleted" =>
        collectors[c].blob # b /\ collectors[c].blob <= b
  <2> SUFFICES ASSUME NEW c \in Collectors, collectors[c].stage = "deleted"
               PROVE  collectors[c].blob # b /\ collectors[c].blob <= b
    OBVIOUS
  <2>1. collectors[c].blob \in Nat
    BY RowTypes, ConstantsAssumption DEF OwnInv, TypeInv, CollectorRow, BlobIds
  <2>2. collectors[c].blob <= bounds.blobs
    BY DEF OwnInv, DeletedOwn
  <2> QED BY <1>a, <2>1, <2>2
<1>9. DeletedOwn'
  BY <1>1, <1>2, <1>8 DEF OwnInv, DeletedOwn
<1> QED BY <1>4, <1>7, <1>9 DEF OwnInv

\* The insert of the row: of the two blobs one is kept, by the row.
LEMMA InsertOwns ==
  ASSUME OwnInv, NEW t \in Threads, InsertRow(t), TypeInv' PROVE OwnInv'
<1> DEFINE k == threads[t].key
           b == threads[t].blob
<1>1. /\ k \in Keys /\ threads[t].stage = "uploaded" /\ b \in blobs /\ b # 0
      /\ \A l \in Rows : assets[l].blob # b
      /\ UNCHANGED <<collectors, bounds>>
  BY DEF InsertRow, Database, OwnInv, TypeInv, UploadHasKey, UploadsOwn
<1>2. /\ threads'[t].stage = "building"
      /\ \A u \in Threads \ {t} : threads'[u] = threads[u]
  BY RowTypes DEF InsertRow, OwnInv, TypeInv, TypeOK, ThreadRow
<1>3. \/ /\ \A l \in Keys : assets'[l].blob = assets[l].blob
         /\ blobs' = blobs \ {b}
      \/ /\ assets'[k].blob = b
         /\ \A l \in Keys \ {k} : assets'[l] = assets[l]
         /\ \/ k \notin Rows /\ UNCHANGED blobs
            \/ k \in Rows /\ blobs' = blobs \ {assets[k].blob}
  BY <1>1, RowTypes DEF InsertRow, OwnInv, TypeInv, TypeOK, AssetRow
<1>4. \A u \in Threads : threads'[u].stage = "uploaded" =>
        u # t /\ threads[u].stage = "uploaded" /\ threads'[u] = threads[u] /\ threads[u].blob # b
  BY <1>1, <1>2 DEF OwnInv, UploadsOwn
<1>5. CASE (\A l \in Keys : assets'[l].blob = assets[l].blob) /\ blobs' = blobs \ {b}
  <2>1. Rows' = Rows /\ \A l \in Rows : assets'[l].blob = assets[l].blob
    BY <1>5 DEF Rows
  <2>2. BlobsGiven' /\ RowsOwn'
    BY <1>1, <1>5, <2>1 DEF OwnInv, BlobsGiven, RowsOwn
  <2>3. UploadsOwn'
    BY <1>1, <1>4, <1>5, <2>1 DEF OwnInv, UploadsOwn
  <2>4. DeletedOwn'
    BY <1>1, <1>4, <2>1 DEF OwnInv, DeletedOwn
  <2> QED BY <2>2, <2>3, <2>4 DEF OwnInv
<1>6. CASE /\ assets'[k].blob = b
           /\ \A l \in Keys \ {k} : assets'[l] = assets[l]
           /\ \/ k \notin Rows /\ UNCHANGED blobs
              \/ k \in Rows /\ blobs' = blobs \ {assets[k].blob}
  <2>1. Rows' = Rows \cup {k}
    BY <1>1, <1>6 DEF Rows
  <2>2. BlobsGiven'
    BY <1>1, <1>6 DEF OwnInv, BlobsGiven
  <2>3. \A l \in Rows' : assets'[l].blob \in blobs'
    <3> SUFFICES ASSUME NEW l \in Rows' PROVE assets'[l].blob \in blobs'
      OBVIOUS
    <3>1. CASE l = k
      BY <1>1, <1>6, <3>1
    <3>2. CASE l # k
      <4>1. l \in Rows /\ assets'[l].blob = assets[l].blob
        BY <1>6, <2>1, <3>2 DEF Rows
      <4> QED BY <1>6, <3>2, <4>1 DEF OwnInv, RowsOwn
    <3> QED BY <3>1, <3>2
  <2>4. \A l, m \in Rows' : assets'[l].blob = assets'[m].blob => l = m
    BY <1>1, <1>6, <2>1 DEF OwnInv, RowsOwn, Rows
  <2>5. \A u \in Threads : threads'[u].stage = "uploaded" =>
          /\ threads'[u].blob \in blobs'
          /\ \A l \in Rows' : assets'[l].blob # threads'[u].blob
    BY <1>1, <1>4, <1>6, <2>1 DEF OwnInv, UploadsOwn, Rows
  <2>6. UploadsOwn'
    BY <1>4, <2>5 DEF OwnInv, UploadsOwn
  <2>7. ASSUME NEW c \in Collectors, collectors[c].stage = "deleted", NEW l \in Rows'
        PROVE  assets'[l].blob # collectors[c].blob
    <3>1. CASE l = k
      BY <1>1, <1>6, <2>7, <3>1 DEF OwnInv, DeletedOwn
    <3>2. CASE l # k
      BY <1>6, <2>1, <2>7, <3>2 DEF OwnInv, DeletedOwn, Rows
    <3> QED BY <3>1, <3>2
  <2>8. DeletedOwn'
    BY <1>1, <1>4, <2>7 DEF OwnInv, DeletedOwn
  <2> QED BY <2>2, <2>3, <2>4, <2>6, <2>8 DEF OwnInv, RowsOwn
<1> QED BY <1>3, <1>5, <1>6

\* The delete of a row hands its blob to the cleanup.
LEMMA DeleteOwns ==
  ASSUME OwnInv, NEW c \in Collectors, NEW k \in Rows, DeleteRow(c, k),
         UNCHANGED <<threads, bounds>>, TypeInv'
  PROVE  OwnInv'
<1>1. /\ Rows' = Rows \ {k} /\ UNCHANGED blobs
      /\ \A l \in Rows \ {k} : assets'[l] = assets[l]
  BY DEF DeleteRow, Rows, NoRow, OwnInv, TypeInv, TypeOK
<1>2. /\ collectors'[c].blob = assets[k].blob
      /\ \A d \in Collectors \ {c} : collectors'[d] = collectors[d]
  BY RowTypes DEF DeleteRow, Goes, OwnInv, TypeInv, TypeOK, CollectorRow
<1>3. BlobsGiven' /\ RowsOwn' /\ UploadsOwn'
  BY <1>1 DEF OwnInv, BlobsGiven, RowsOwn, UploadsOwn
<1>4. DeletedOwn'
  <2> SUFFICES ASSUME NEW d \in Collectors, collectors'[d].stage = "deleted"
               PROVE  /\ collectors'[d].blob <= bounds'.blobs
                      /\ \A l \in Rows' : assets'[l].blob # collectors'[d].blob
                      /\ \A t \in Threads : threads'[t].stage = "uploaded" =>
                           threads'[t].blob # collectors'[d].blob
    BY DEF DeletedOwn
  <2>1. CASE d = c
    BY <1>1, <1>2, <2>1 DEF OwnInv, BlobsGiven, RowsOwn, UploadsOwn
  <2>2. CASE d # c
    BY <1>1, <1>2, <2>2 DEF OwnInv, DeletedOwn
  <2> QED BY <2>1, <2>2
<1> QED BY <1>3, <1>4 DEF OwnInv

\* The delete of the blob.
LEMMA DeleteBlobOwns ==
  ASSUME OwnInv, NEW c \in Collectors, DeleteBlob(c), TypeInv' PROVE OwnInv'
<1>1. /\ blobs' \subseteq blobs /\ \A b \in blobs \ {collectors[c].blob} : b \in blobs'
      /\ collectors[c].stage = "deleted" /\ UNCHANGED <<assets, threads, bounds>>
      /\ Rows' = Rows
  BY DEF DeleteBlob, Others, Database, Rows
<1>2. \A d \in Collectors : SameDelete(d)
  BY RowTypes DEF DeleteBlob, Goes, OwnInv, TypeInv, TypeOK, CollectorRow, SameDelete
<1>3. BlobsGiven' /\ RowsOwn' /\ UploadsOwn'
  BY <1>1 DEF OwnInv, BlobsGiven, RowsOwn, UploadsOwn, DeletedOwn
<1>4. DeletedOwn'
  BY <1>1, <1>2 DEF OwnInv, DeletedOwn, SameDelete
<1> QED BY <1>3, <1>4 DEF OwnInv

\* Every other step is calm: threads ...
LEMMA ThreadCalm ==
  ASSUME TypeInv, NEW t \in Threads,
         \/ \E p \in Projects : Claim(t, p)
         \/ \E k \in Keys : Cached(t, k)
         \/ RecordRefs(t) \/ WriteManifest(t) \/ Fail(t) \/ Pause(t) \/ Crash(t)
  PROVE  Calm
<1>1. UNCHANGED <<assets, blobs, bounds, collectors>>
  BY DEF Claim, Cached, RecordRefs, WriteManifest, Fail, Pause, Crash, Store, Database
<1>a. threads[t] \in ThreadRow /\ threads \in [Threads -> ThreadRow]
  BY RowTypes DEF TypeInv, TypeOK, ThreadRow
<1>2. threads'[t].stage # "uploaded"
  <2>1. CASE ToIdle(t)
    BY <1>a, <2>1 DEF ToIdle, Idle
  <2>2. CASE \E p \in Projects : Claim(t, p)
    BY <1>a, <2>2 DEF Claim, Idle
  <2>3. CASE \E k \in Keys : Cached(t, k)
    BY <1>a, <2>3 DEF Cached, ThreadRow
  <2>4. CASE RecordRefs(t)
    BY <1>a, <2>4 DEF RecordRefs, ThreadRow
  <2> QED BY <2>1, <2>2, <2>3, <2>4 DEF WriteManifest, Fail, Pause, Crash
<1>3. \A u \in Threads \ {t} : threads'[u] = threads[u]
  BY DEF Claim, Cached, RecordRefs, WriteManifest, Fail, Pause, Crash, ToIdle, TypeInv, TypeOK
<1> QED BY <1>1, <1>2, <1>3 DEF Calm, SameBlobs, SameBound, SameUpload, SameDelete

\* ... requests and time ...
LEMMA LectureCalm ==
  ASSUME TypeInv,
         \/ \E p \in Projects, need \in SUBSET Keys : Enqueue(p, need)
         \/ \E p \in Projects : Approve(p) \/ Recover(p)
         \/ \E k \in Keys : Age(k)
         \/ UNCHANGED vars
  PROVE  Calm
<1>1. UNCHANGED <<blobs, collectors>> /\ SameBound
  BY RowTypes DEF Enqueue, Approve, Recover, Age, Store, Database, vars, SameBound, TypeInv, BoundsRow
<1>2. \A k \in Keys : assets'[k].blob = assets[k].blob
  <2>1. CASE UNCHANGED assets
    BY <2>1
  <2>2. ASSUME NEW k \in Keys, Age(k) PROVE \A l \in Keys : assets'[l].blob = assets[l].blob
    <3>1. assets \in [Keys -> AssetRow]
      BY DEF TypeInv, TypeOK, AssetRow
    <3>2. assets' = [assets EXCEPT ![k] = [assets[k] EXCEPT !.old = TRUE]]
      BY <2>2 DEF Age
    <3>3. [assets[k] EXCEPT !.old = TRUE].blob = assets[k].blob
      BY <3>1 DEF AssetRow
    <3> QED BY <3>1, <3>2, <3>3
  <2> QED BY <2>1, <2>2 DEF Enqueue, Approve, Recover, Store, vars
<1>3. \A t \in Threads : SameUpload(t)
  <2>1. CASE UNCHANGED threads
    BY <2>1 DEF SameUpload
  <2>2. ASSUME NEW p \in Projects, Recover(p) PROVE \A t \in Threads : SameUpload(t)
    BY <2>2, RowTypes DEF Recover, TypeInv, ThreadRow, SameUpload
  <2> QED BY <2>1, <2>2 DEF Enqueue, Approve, Age, vars
<1> QED BY <1>1, <1>2, <1>3 DEF Calm, SameBlobs, SameDelete

\* ... and cleanups.
LEMMA CollectorCalm ==
  ASSUME TypeInv, NEW c \in Collectors,
         \/ Select(c) \/ ScanDocuments(c) \/ Finish(c) \/ Stop(c)
         \/ \E k \in Keys : StartDelete(c, k)
         \/ \E k : KeepRow(c, k) /\ Others /\ Database
  PROVE  Calm
<1>1. UNCHANGED <<assets, blobs, threads>> /\ SameBound
  BY RowTypes DEF Select, ScanDocuments, Finish, Stop, StartDelete, KeepRow, Store, Others, Database,
     SameBound, TypeInv, BoundsRow
<1>a. /\ collectors[c] \in CollectorRow /\ Asleep \in CollectorRow
      /\ collectors \in [Collectors -> CollectorRow]
  BY RowTypes DEF TypeInv, TypeOK, CollectorRow
<1>b. ASSUME NEW row \in CollectorRow, row.stage # "deleted", Goes(c, row)
      PROVE  collectors'[c].stage # "deleted" /\ \A d \in Collectors \ {c} : collectors'[d] = collectors[d]
  BY <1>a, <1>b DEF Goes
<1>2. collectors'[c].stage # "deleted" /\ \A d \in Collectors \ {c} : collectors'[d] = collectors[d]
  <2>1. CASE Ends(c)
    BY <1>a, <1>b, <2>1 DEF Ends, Asleep
  <2>2. CASE Select(c)
    <3>1. [Asleep EXCEPT !.stage = "selected", !.candidates = {k \in Unreferenced : assets[k].old}]
            \in CollectorRow
      BY <1>a DEF CollectorRow, Unreferenced, Rows
    <3> QED BY <1>a, <1>b, <2>2, <3>1 DEF Select, Asleep
  <2>3. CASE ScanDocuments(c)
    BY <1>a, <2>3 DEF ScanDocuments, Goes, CollectorRow
  <2>4. ASSUME NEW k, KeepRow(c, k)
        PROVE  collectors'[c].stage # "deleted" /\ \A d \in Collectors \ {c} : collectors'[d] = collectors[d]
    BY ZenonT(60), <1>a, <2>1, <2>4 DEF KeepRow, Goes, CollectorRow
  <2>5. ASSUME NEW k \in Keys, StartDelete(c, k)
        PROVE  collectors'[c].stage # "deleted" /\ \A d \in Collectors \ {c} : collectors'[d] = collectors[d]
    BY <1>a, <2>4, <2>5 DEF StartDelete, Goes, CollectorRow
  <2> QED BY <2>1, <2>2, <2>3, <2>4, <2>5 DEF Finish, Stop
<1> QED BY <1>1, <1>2 DEF Calm, SameBlobs, SameUpload, SameDelete

\* So every step keeps the owners.
LEMMA OwnStep == OwnInv /\ [Next]_vars => OwnInv'
<1> SUFFICES ASSUME OwnInv, [Next]_vars PROVE OwnInv'
  OBVIOUS
<1>a. TypeInv /\ TypeInv'
  BY NextType DEF OwnInv
<1>1. ASSUME NEW c \in Collectors, NEW k \in Keys, Delete(c, k) PROVE OwnInv'
  <2>1. CASE Collects(k) /\ DeleteRow(c, k)
    BY <1>a, <1>1, <2>1, DeleteOwns DEF Delete, Collects, Unreferenced, Others, Database
  <2>2. CASE KeepRow(c, k)
    BY <1>a, <1>1, <2>2, CollectorCalm, CalmKeeps DEF Delete
  <2> QED BY <1>1, <2>1, <2>2 DEF Delete
<1>2. ASSUME NEW c \in Collectors, FinishDelete(c) PROVE OwnInv'
  <2>1. CASE collectors[c].key \in Rows /\ DeleteRow(c, collectors[c].key)
    BY <1>a, <1>2, <2>1, DeleteOwns DEF FinishDelete, Others, Database
  <2>2. CASE KeepRow(c, collectors[c].key)
    BY <1>a, <1>2, <2>2, CollectorCalm, CalmKeeps DEF FinishDelete
  <2> QED BY <1>2, <2>1, <2>2 DEF FinishDelete
<1>3. ASSUME NEW c \in Collectors, Collect(c) \/ Stop(c) PROVE OwnInv'
  BY <1>a, <1>1, <1>2, <1>3, DeleteBlobOwns, CollectorCalm, CalmKeeps DEF Collect, Deletes
<1>4. ASSUME NEW t \in Threads, (\E p \in Projects : Claim(t, p)) \/ Handler(t) \/ Crash(t)
      PROVE  OwnInv'
  BY <1>a, <1>4, PutOwns, InsertOwns, ThreadCalm, CalmKeeps DEF Handler, Produces
<1>5. CASE \/ \E p \in Projects, need \in SUBSET Keys : Enqueue(p, need)
           \/ \E p \in Projects : Approve(p) \/ Recover(p)
           \/ \E k \in Keys : Age(k)
           \/ UNCHANGED vars
  BY <1>a, <1>5, LectureCalm, CalmKeeps
<1> QED BY <1>3, <1>4, <1>5 DEF Next

\* They are those of the empty store.
LEMMA OwnInit == Init => OwnInv
BY TypeInit DEF Init, OwnInv, BlobsGiven, RowsOwn, UploadsOwn, DeletedOwn, Rows, NoRow, Idle, Asleep

\* With one owner for every blob, every row has its blob.
LEMMA OwnersStore == OwnInv => RowHasBlob
BY DEF OwnInv, RowsOwn, RowHasBlob, Stored

\* cleanup.py: "Rows are gone: blobs can no longer be handed out": whatever
\* the store hands out has its blob, on either database.
THEOREM HandedOutIsStored == Spec => []RowHasBlob
BY OwnInit, OwnStep, OwnersStore, PTL DEF Spec

-----------------------------------------------------------------------------
(* Leases of builds *)

\* The holder of a lease has a running build of its own.
HoldersRun ==
  \A t \in Threads : threads[t].holds =>
    threads[t].project \in Projects /\ builds[threads[t].project].status = "running"
HoldersApart ==
  \A t, u \in Threads :
    threads[t].holds /\ threads[u].holds /\ threads[t].project = threads[u].project => t = u

LeaseInv == HoldersRun /\ HoldersApart

\* The other threads and the other builds are left alone.
Alone(t, p) ==
  /\ \A u \in Threads \ {t} : threads'[u] = threads[u]
  /\ \A q \in Projects \ {p} : builds'[q] = builds[q]

\* A holder lets go of its lease.
LEMMA LetGo ==
  ASSUME LeaseInv, NEW t \in Threads, threads[t].holds, ~threads'[t].holds,
         Alone(t, threads[t].project)
  PROVE  LeaseInv'
BY DEF LeaseInv, HoldersRun, HoldersApart, Alone

\* A thread does not change what it holds.
LEMMA HoldOn ==
  ASSUME LeaseInv, UNCHANGED builds,
         \A t \in Threads : threads'[t].holds =>
           threads[t].holds /\ threads'[t].project = threads[t].project
  PROVE  LeaseInv'
BY DEF LeaseInv, HoldersRun, HoldersApart

\* A build nobody holds changes.
LEMMA Unheld ==
  ASSUME LeaseInv, NEW p \in Projects, UNCHANGED threads,
         builds[p].status # "running", \A q \in Projects \ {p} : builds'[q] = builds[q]
  PROVE  LeaseInv'
BY DEF LeaseInv, HoldersRun, HoldersApart

\* The thread that inserts its row goes on building, with one more find.
LEMMA InsertKeeps ==
  ASSUME threads \in [Threads -> ThreadRow], NEW t \in Threads, InsertRow(t)
  PROVE  /\ threads'[t].stage = "building"
         /\ threads'[t].holds = threads[t].holds
         /\ threads'[t].project = threads[t].project
         /\ threads'[t].found = threads[t].found \cup {threads[t].key}
<1> DEFINE row == [threads[t] EXCEPT !.stage = "building",
                     !.found = threads[t].found \cup {threads[t].key}, !.key = "none", !.blob = 0]
<1>1. threads' = [threads EXCEPT ![t] = row]
  BY DEF InsertRow
<1>2. threads'[t] = row
  BY <1>1
<1>3. /\ row.stage = "building" /\ row.holds = threads[t].holds
      /\ row.project = threads[t].project
      /\ row.found = threads[t].found \cup {threads[t].key}
  <2> HIDE DEF ThreadRow
  <2>1. threads[t] \in ThreadRow
    OBVIOUS
  <2> QED BY <2>1 DEF ThreadRow
<1> QED BY <1>2, <1>3

\* Leases are given, kept and taken one at a time.
LEMMA LeaseStep ==
  ASSUME TypeInv, LeaseInv, [Next]_vars PROVE LeaseInv'
<1>a. threads \in [Threads -> ThreadRow] /\ builds \in [Projects -> BuildRow]
  BY DEF TypeInv, TypeOK, ThreadRow, BuildRow
<1>1. ASSUME NEW p \in Projects, (\E need \in SUBSET Keys : Enqueue(p, need)) \/ Approve(p)
      PROVE  LeaseInv'
  <2>1. /\ builds[p].status # "running" /\ UNCHANGED threads
        /\ \A q \in Projects \ {p} : builds'[q] = builds[q]
    BY <1>1, <1>a DEF Enqueue, Approve
  <2> QED BY <2>1, Unheld
<1>2. ASSUME NEW p \in Projects, Recover(p) PROVE LeaseInv'
  <2>1. \A t \in Threads : threads'[t].holds =>
          threads[t].holds /\ threads'[t].project = threads[t].project /\ threads[t].project # p
    BY <1>2, <1>a DEF Recover, ThreadRow
  <2>2. \A q \in Projects \ {p} : builds'[q] = builds[q]
    BY <1>2, <1>a DEF Recover, AttemptOver
  <2> QED BY <2>1, <2>2 DEF LeaseInv, HoldersRun, HoldersApart
<1>3. ASSUME NEW t \in Threads, NEW p \in Projects, Claim(t, p) PROVE LeaseInv'
  <2>1. /\ builds[p].status = "queued" /\ builds'[p].status = "running"
        /\ threads'[t].holds /\ threads'[t].project = p /\ Alone(t, p)
    BY <1>3, <1>a DEF Claim, Idle, Alone, BuildRow
  <2>2. \A u \in Threads : threads[u].holds => threads[u].project # p
    BY <2>1 DEF LeaseInv, HoldersRun
  <2> QED BY <2>1, <2>2 DEF LeaseInv, HoldersRun, HoldersApart, Alone
<1>4. ASSUME NEW t \in Threads, ToIdle(t)
      PROVE  ~threads'[t].holds /\ \A u \in Threads \ {t} : threads'[u] = threads[u]
  BY <1>4, <1>a DEF ToIdle, Idle
<1>5. ASSUME NEW t \in Threads, WriteManifest(t) \/ Fail(t) \/ Pause(t) \/ Crash(t) PROVE LeaseInv'
  <2>1. ~threads'[t].holds /\ \A u \in Threads \ {t} : threads'[u] = threads[u]
    BY <1>4, <1>5 DEF WriteManifest, Fail, Pause, Crash
  <2>2. \/ UNCHANGED builds
        \/ threads[t].holds /\ \A q \in Projects \ {threads[t].project} : builds'[q] = builds[q]
    BY <1>5, <1>a DEF WriteManifest, Fail, Pause, Crash, AttemptOver
  <2>3. CASE UNCHANGED builds
    BY <2>1, <2>3, HoldOn
  <2> QED BY <2>1, <2>2, <2>3, LetGo DEF Alone
<1>6. ASSUME NEW t \in Threads,
             (\E k \in Keys : Cached(t, k) \/ Put(t, k)) \/ InsertRow(t) \/ RecordRefs(t)
      PROVE  LeaseInv'
  <2>1. UNCHANGED builds /\ \A u \in Threads \ {t} : threads'[u] = threads[u]
    BY <1>6, <1>a DEF Cached, Put, InsertRow, RecordRefs
  <2> DEFINE Same == threads'[t].holds = threads[t].holds /\ threads'[t].project = threads[t].project
  <2>2. ASSUME NEW k \in Keys, Cached(t, k) PROVE Same
    BY <2>2, <1>a DEF Cached, ThreadRow
  <2>3. ASSUME NEW k \in Keys, Put(t, k) PROVE Same
    BY <2>3, <1>a DEF Put, ThreadRow
  <2>4. ASSUME InsertRow(t) PROVE Same
    BY <2>4, <1>a, InsertKeeps
  <2>5. ASSUME RecordRefs(t) PROVE Same
    BY <2>5, <1>a DEF RecordRefs, ThreadRow
  <2>6. Same
    BY <1>6, <2>2, <2>3, <2>4, <2>5
  <2> QED BY <2>1, <2>6, HoldOn
<1>7. CASE (\E k \in Keys : Age(k)) \/ (\E c \in Collectors : Collect(c) \/ Stop(c)) \/ UNCHANGED vars
  <2>1. UNCHANGED <<builds, threads>>
    BY <1>7 DEF Age, Collect, Stop, Select, ScanDocuments, Deletes, Delete, StartDelete, FinishDelete,
       DeleteBlob, Finish, Others, vars
  <2> QED BY <2>1, HoldOn
<1> QED BY <1>1, <1>2, <1>3, <1>5, <1>6, <1>7 DEF Next, Handler, Produces

-----------------------------------------------------------------------------
(* What a build has found and what a manifest names stays in the store *)

\* A reference is recorded before the manifest that names the asset.
ReferencedFound == \A t \in Threads : threads[t].stage = "referenced" => threads[t].found \subseteq refs
ManifestReferenced == \A p \in Projects : manifest[p] \subseteq refs

\* Where statements do not overlap, a cleanup deletes in one step.
NobodyJudges == database = "sqlite" => \A c \in Collectors : collectors[c].stage # "judged"
FoundHasRow ==
  database = "sqlite" => \A t \in Threads : threads[t].holds => threads[t].found \subseteq Rows
ManifestHasRow == database = "sqlite" => \A p \in Projects : manifest[p] \subseteq Rows

RefInv == ReferencedFound /\ ManifestReferenced
KeepInv == OwnInv /\ LeaseInv /\ RefInv /\ NobodyJudges /\ FoundHasRow /\ ManifestHasRow

\* A row goes only while no build runs, and only if nothing refers to it.
LEMMA RowsStay ==
  ASSUME KeepInv, [Next]_vars, database = "sqlite", NEW k \in Rows, k \notin Rows'
  PROVE  /\ k \notin refs /\ RunningBuilds = {}
         /\ UNCHANGED <<threads, builds, refs, manifest>>
<1>a. /\ assets \in [Keys -> AssetRow] /\ threads \in [Threads -> ThreadRow]
      /\ k \in Keys /\ assets[k].blob # 0
  BY DEF KeepInv, OwnInv, TypeInv, TypeOK, AssetRow, ThreadRow, Rows
<1>b. assets'[k].blob = 0
  BY <1>a DEF Rows
<1>1. ASSUME NEW t \in Threads, InsertRow(t) PROVE FALSE
  <2>1. threads[t].key \in Keys /\ threads[t].blob # 0
    BY <1>1 DEF InsertRow, KeepInv, OwnInv, TypeInv, UploadHasKey, UploadsOwn
  <2> QED BY <1>1, <1>a, <1>b, <2>1 DEF InsertRow, AssetRow
<1>2. ASSUME NEW l \in Keys, Age(l) PROVE FALSE
  BY <1>2, <1>a, <1>b DEF Age, AssetRow
<1>3. ASSUME NEW c \in Collectors, NEW l \in Keys, Delete(c, l)
      PROVE  /\ k \notin refs /\ RunningBuilds = {}
             /\ UNCHANGED <<threads, builds, refs, manifest>>
  BY <1>3, <1>a, <1>b DEF Delete, KeepRow, Store, DeleteRow, Collects, Unreferenced, Others, Lectures
<1>4. ASSUME NEW c \in Collectors, FinishDelete(c) PROVE FALSE
  BY <1>4 DEF FinishDelete, KeepInv, NobodyJudges
<1>5. CASE UNCHANGED assets
  BY <1>5, <1>a, <1>b
<1>6. \/ UNCHANGED assets
      \/ \E t \in Threads : InsertRow(t)
      \/ \E l \in Keys : Age(l)
      \/ \E c \in Collectors : FinishDelete(c) \/ \E l \in Keys : Delete(c, l)
  <2>1. ASSUME NEW c \in Collectors, NEW l \in Keys, StartDelete(c, l) PROVE FALSE
    BY <2>1 DEF StartDelete
  <2> QED BY <2>1 DEF Next, vars, Enqueue, Approve, Recover, Claim, Handler, Produces, Cached, Put,
       RecordRefs, WriteManifest, Fail, Pause, Crash, Collect, Stop, Select, ScanDocuments, Deletes,
       DeleteBlob, Finish, Store
<1> QED BY <1>1, <1>2, <1>3, <1>4, <1>5, <1>6

\* References are only added, and a manifest names referenced assets.
LEMMA RefStep ==
  ASSUME TypeInv, RefInv, [Next]_vars PROVE RefInv' /\ refs \subseteq refs'
<1>a. threads \in [Threads -> ThreadRow] /\ manifest \in [Projects -> SUBSET Keys]
  BY DEF TypeInv, TypeOK, ThreadRow
<1>1. ASSUME NEW t \in Threads, RecordRefs(t) PROVE RefInv' /\ refs \subseteq refs'
  BY <1>1, <1>a DEF RecordRefs, RefInv, ReferencedFound, ManifestReferenced, ThreadRow
<1>2. ASSUME NEW t \in Threads, WriteManifest(t) PROVE RefInv' /\ refs \subseteq refs'
  <2>1. threads[t].found \subseteq refs /\ UNCHANGED refs
    BY <1>2 DEF WriteManifest, RefInv, ReferencedFound
  <2>2. ManifestReferenced'
    BY <1>2, <1>a, <2>1 DEF WriteManifest, RefInv, ManifestReferenced
  <2>3. ReferencedFound'
    BY <1>2, <1>a, <2>1 DEF WriteManifest, ToIdle, Idle, RefInv, ReferencedFound
  <2> QED BY <2>1, <2>2, <2>3 DEF RefInv
<1>3. ASSUME UNCHANGED <<refs, manifest>>,
             \A t \in Threads : threads'[t].stage = "referenced" =>
               threads[t].stage = "referenced" /\ threads'[t].found = threads[t].found
      PROVE  RefInv' /\ refs \subseteq refs'
  BY <1>3 DEF RefInv, ReferencedFound, ManifestReferenced
<1>4. ASSUME NEW t \in Threads, (\E p \in Projects : Claim(t, p)) \/ Produces(t) \/ InsertRow(t)
      PROVE  RefInv' /\ refs \subseteq refs'
  <2>1. UNCHANGED <<refs, manifest>> /\ \A u \in Threads \ {t} : threads'[u] = threads[u]
    BY <1>4, <1>a DEF Claim, Produces, Cached, Put, InsertRow, Lectures
  <2>2. ASSUME NEW p \in Projects, Claim(t, p) PROVE threads'[t].stage # "referenced"
    BY <2>2, <1>a DEF Claim, Idle
  <2>3. ASSUME NEW k \in Keys, Cached(t, k) PROVE threads'[t].stage # "referenced"
    BY <2>3, <1>a DEF Cached, ThreadRow
  <2>4. ASSUME NEW k \in Keys, Put(t, k) PROVE threads'[t].stage # "referenced"
    BY <2>4, <1>a DEF Put, ThreadRow
  <2>5. ASSUME InsertRow(t) PROVE threads'[t].stage # "referenced"
    BY <2>5, <1>a, InsertKeeps
  <2>6. threads'[t].stage # "referenced"
    BY <1>4, <2>2, <2>3, <2>4, <2>5 DEF Produces
  <2> QED BY <1>3, <2>1, <2>6
<1>5. ASSUME NEW t \in Threads, Fail(t) \/ Pause(t) \/ Crash(t) PROVE RefInv' /\ refs \subseteq refs'
  <2>1. ToIdle(t) /\ UNCHANGED <<refs, manifest>>
    BY <1>5 DEF Fail, Pause, Crash, Lectures
  <2>2. threads'[t].stage # "referenced" /\ \A u \in Threads \ {t} : threads'[u] = threads[u]
    BY <1>a, <2>1 DEF ToIdle, Idle
  <2> QED BY <1>3, <2>1, <2>2
<1>6. ASSUME NEW p \in Projects, Recover(p) PROVE RefInv' /\ refs \subseteq refs'
  <2>1. \A t \in Threads : threads'[t].stage = threads[t].stage /\ threads'[t].found = threads[t].found
    BY <1>6, <1>a DEF Recover, ThreadRow
  <2> QED BY <1>3, <1>6, <2>1 DEF Recover, Lectures
<1>7. CASE UNCHANGED <<refs, manifest, threads>>
  BY <1>3, <1>7
<1>8. \/ UNCHANGED <<refs, manifest, threads>>
      \/ \E t \in Threads : (\E p \in Projects : Claim(t, p)) \/ Handler(t) \/ Crash(t)
      \/ \E p \in Projects : Recover(p)
  BY DEF Next, vars, Enqueue, Approve, Age, Collect, Stop, Select, ScanDocuments, Deletes, Delete,
       StartDelete, FinishDelete, DeleteBlob, Finish, Others, Lectures
<1> QED BY <1>1, <1>2, <1>4, <1>5, <1>6, <1>7, <1>8 DEF Handler

\* A thread's finds are in the store when it finds them.
LEMMA FoundStep ==
  ASSUME KeepInv, [Next]_vars, database = "sqlite", NEW t \in Threads, threads'[t].holds,
         NEW k \in threads'[t].found
  PROVE  \/ threads[t].holds /\ k \in threads[t].found
         \/ k \in Rows'
<1>a. /\ threads \in [Threads -> ThreadRow] /\ assets \in [Keys -> AssetRow]
  BY DEF KeepInv, OwnInv, TypeInv, TypeOK, AssetRow, ThreadRow
<1> DEFINE Goal == (threads[t].holds /\ k \in threads[t].found) \/ k \in Rows'
<1>1. CASE threads'[t] = threads[t]
  BY <1>1
<1>2. ASSUME NEW p \in Projects, Claim(t, p) PROVE FALSE
  BY <1>2, <1>a DEF Claim, Idle
<1>3. ASSUME NEW l \in Keys, Cached(t, l) PROVE Goal
  BY <1>3, <1>a DEF Cached, ThreadRow, Stored, Rows, Store
<1>4. ASSUME NEW l \in Keys, Put(t, l) PROVE Goal
  BY <1>4, <1>a DEF Put, ThreadRow
<1>5. CASE InsertRow(t)
  <2>1. threads[t].key \in Keys /\ threads[t].blob # 0
    BY <1>5 DEF InsertRow, KeepInv, OwnInv, TypeInv, UploadHasKey, UploadsOwn
  <2>2. threads[t].key \in Rows'
    BY <1>5, <1>a, <2>1 DEF InsertRow, Rows, AssetRow
  <2>3. threads'[t].found = threads[t].found \cup {threads[t].key} /\ threads'[t].holds = threads[t].holds
    BY <1>5, <1>a, InsertKeeps
  <2> QED BY <2>2, <2>3
<1>6. CASE RecordRefs(t)
  BY <1>6, <1>a DEF RecordRefs, ThreadRow
<1>7. CASE WriteManifest(t) \/ Fail(t) \/ Pause(t) \/ Crash(t)
  <2>1. ToIdle(t)
    BY <1>7 DEF WriteManifest, Fail, Pause, Crash
  <2> QED BY <1>a, <2>1 DEF ToIdle, Idle
<1>8. ASSUME NEW p \in Projects, Recover(p) PROVE Goal
  BY <1>8, <1>a DEF Recover, ThreadRow
<1>9. ASSUME NEW u \in Threads, u # t, (\E p \in Projects : Claim(u, p)) \/ Handler(u) \/ Crash(u)
      PROVE  Goal
  <2>1. threads'[t] = threads[t]
    BY <1>9, <1>a DEF Claim, Handler, Produces, Cached, Put, InsertRow, RecordRefs, WriteManifest, Fail,
       Pause, Crash, ToIdle
  <2> QED BY <1>1, <2>1
<1>10. \/ UNCHANGED threads
       \/ \E u \in Threads : (\E p \in Projects : Claim(u, p)) \/ Handler(u) \/ Crash(u)
       \/ \E p \in Projects : Recover(p)
  BY DEF Next, vars, Enqueue, Approve, Age, Collect, Stop, Select, ScanDocuments, Deletes, Delete,
       StartDelete, FinishDelete, DeleteBlob, Finish, Others
<1> QED BY <1>1, <1>2, <1>3, <1>4, <1>5, <1>6, <1>7, <1>8, <1>9, <1>10 DEF Handler, Produces

\* A manifest changes only by the write of a holder.
LEMMA ManifestStep ==
  ASSUME TypeInv, [Next]_vars, NEW p \in Projects, NEW k \in manifest'[p]
  PROVE  \/ k \in manifest[p]
         \/ \E t \in Threads : threads[t].holds /\ k \in threads[t].found /\ UNCHANGED assets
<1>1. ASSUME NEW t \in Threads, WriteManifest(t)
      PROVE  k \in manifest[p] \/ (threads[t].holds /\ k \in threads[t].found /\ UNCHANGED assets)
  BY <1>1 DEF WriteManifest, Store, TypeInv, TypeOK
<1>2. UNCHANGED manifest \/ \E t \in Threads : WriteManifest(t)
  BY DEF Next, vars, Enqueue, Approve, Recover, Claim, Handler, Produces, Cached, Put, InsertRow,
       RecordRefs, Fail, Pause, Crash, Age, Collect, Stop, Select, ScanDocuments, Deletes, Delete,
       StartDelete, FinishDelete, DeleteBlob, Finish, Lectures
<1> QED BY <1>1, <1>2

\* The database does not change, and SQLite has no statement under way.
LEMMA JudgeStep ==
  ASSUME TypeInv, NobodyJudges, [Next]_vars PROVE UNCHANGED database /\ NobodyJudges'
<1>a. collectors \in [Collectors -> CollectorRow] /\ Asleep \in CollectorRow
  BY RowTypes DEF TypeInv, TypeOK, CollectorRow
<1>1. UNCHANGED database
  BY DEF Next, vars, Enqueue, Approve, Recover, Claim, Handler, Produces, Cached, Put, InsertRow,
       RecordRefs, WriteManifest, Fail, Pause, Crash, Age, Collect, Stop, Select, ScanDocuments, Deletes,
       Delete, StartDelete, FinishDelete, DeleteBlob, Finish, Database
<1>2. CASE UNCHANGED collectors
  BY <1>1, <1>2 DEF NobodyJudges
<1>3. ASSUME NEW c \in Collectors, Collect(c) \/ Stop(c) PROVE NobodyJudges'
  <2> SUFFICES ASSUME database = "sqlite", NEW d \in Collectors PROVE collectors'[d].stage # "judged"
    BY <1>1 DEF NobodyJudges
  <2>1. collectors[d].stage # "judged"
    BY DEF NobodyJudges
  <2>2. ASSUME Ends(c) PROVE collectors'[d].stage # "judged"
    BY <1>a, <2>1, <2>2 DEF Ends, Goes, Asleep
  <2>3. ASSUME NEW k, KeepRow(c, k) PROVE collectors'[d].stage # "judged"
    BY <1>a, <2>1, <2>2, <2>3 DEF KeepRow, Goes, CollectorRow
  <2>4. ASSUME NEW k, DeleteRow(c, k) PROVE collectors'[d].stage # "judged"
    BY <1>a, <2>1, <2>4 DEF DeleteRow, Goes, CollectorRow
  <2>5. CASE Select(c)
    BY <1>a, <2>1, <2>5 DEF Select, Goes, Asleep
  <2>6. CASE ScanDocuments(c) \/ DeleteBlob(c)
    BY <1>a, <2>1, <2>6 DEF ScanDocuments, DeleteBlob, Goes, CollectorRow
  <2>7. ASSUME NEW k \in Keys, Delete(c, k) \/ StartDelete(c, k) PROVE collectors'[d].stage # "judged"
    BY <2>3, <2>4, <2>7 DEF Delete, StartDelete
  <2>8. CASE FinishDelete(c)
    BY <2>3, <2>4, <2>8 DEF FinishDelete
  <2> QED BY <1>3, <2>2, <2>5, <2>6, <2>7, <2>8 DEF Collect, Deletes, Finish, Stop
<1>4. UNCHANGED collectors \/ \E c \in Collectors : Collect(c) \/ Stop(c)
  BY DEF Next, vars, Enqueue, Approve, Recover, Claim, Handler, Produces, Cached, Put, InsertRow,
       RecordRefs, WriteManifest, Fail, Pause, Crash, Age
<1> QED BY <1>1, <1>2, <1>3, <1>4

\* Every step keeps what is used.
LEMMA KeepStep == KeepInv /\ [Next]_vars => KeepInv'
<1> SUFFICES ASSUME KeepInv, [Next]_vars PROVE KeepInv'
  OBVIOUS
<1>1. OwnInv' /\ LeaseInv' /\ RefInv' /\ NobodyJudges' /\ UNCHANGED database
  BY OwnStep, LeaseStep, RefStep, JudgeStep DEF KeepInv, OwnInv
<1>2. FoundHasRow'
  <2> SUFFICES ASSUME database = "sqlite", NEW t \in Threads, threads'[t].holds,
                      NEW k \in threads'[t].found, k \notin Rows'
               PROVE  FALSE
    BY <1>1 DEF FoundHasRow
  <2>1. threads[t].holds /\ k \in threads[t].found /\ k \in Rows
    BY FoundStep DEF KeepInv, FoundHasRow
  <2>2. RunningBuilds = {}
    BY <2>1, RowsStay
  <2> QED BY <2>1, <2>2 DEF KeepInv, LeaseInv, HoldersRun, RunningBuilds
<1>3. ManifestHasRow'
  <2> SUFFICES ASSUME database = "sqlite", NEW p \in Projects, NEW k \in manifest'[p], k \notin Rows'
               PROVE  FALSE
    BY <1>1 DEF ManifestHasRow
  <2>1. CASE k \in manifest[p]
    <3>1. k \in Rows /\ k \in refs
      BY <2>1 DEF KeepInv, ManifestHasRow, RefInv, ManifestReferenced
    <3> QED BY <3>1, RowsStay
  <2>2. ASSUME NEW t \in Threads, threads[t].holds, k \in threads[t].found, UNCHANGED assets PROVE FALSE
    BY <2>2 DEF KeepInv, FoundHasRow, Rows
  <2>3. TypeInv
    BY DEF KeepInv, OwnInv
  <2> QED BY <2>1, <2>2, <2>3, ManifestStep
<1> QED BY <1>1, <1>2, <1>3 DEF KeepInv

\* The empty store.
LEMMA KeepInit == Init => KeepInv
BY OwnInit DEF Init, KeepInv, LeaseInv, HoldersRun, HoldersApart, RefInv, ReferencedFound,
   ManifestReferenced, NobodyJudges, FoundHasRow, ManifestHasRow, Idle, Asleep

\* cleanup.py: a build "could be re-using a cached asset that is not
\* referenced yet": with SQLite, what a build with its lease has found stays
\* in the store until the build is over.
THEOREM BuildsKeepAssets == Spec => []BuildKeepsAssets
<1>1. KeepInv => BuildKeepsAssets
  BY OwnersStore DEF KeepInv, FoundHasRow, BuildKeepsAssets, RowHasBlob
<1> QED BY <1>1, KeepInit, KeepStep, PTL DEF Spec

\* With SQLite, every asset that the manifest of a lecture names is in the
\* store, whatever cleanups, stale builds and losing writers delete.
THEOREM ManifestsPlay == Spec => []ManifestStored
<1>1. KeepInv => ManifestStored
  BY OwnersStore DEF KeepInv, ManifestHasRow, ManifestStored, RowHasBlob
<1> QED BY <1>1, KeepInit, KeepStep, PTL DEF Spec

=============================================================================
