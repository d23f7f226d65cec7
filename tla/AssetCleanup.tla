---------------------------- MODULE AssetCleanup ----------------------------
(***************************************************************************)
(* The cleanup job's collector of unreferenced assets (jobs/cleanup.py)    *)
(* beside the builds that take assets from the same content-addressed      *)
(* store (storage/assets.py): a build that finds a key in the store uses   *)
(* it long before anything in the database says so. It records an          *)
(* AssetRef only when every key is there, and writes the manifest last.    *)
(*                                                                         *)
(* AssetRef rows and library items are one set here: both only keep an     *)
(* asset, a library item of a generated asset is added after the AssetRef  *)
(* of the build that made it, and no code removes an AssetRef.             *)
(***************************************************************************)
EXTENDS Integers, FiniteSets

CONSTANTS
  Projects,     \* lectures; each has at most one build job at a time
  Keys,         \* content addresses of the collected kinds of asset
  Threads,      \* job threads of the worker processes
  Collectors,   \* runs of the cleanup handler that may overlap
  MaxBlobs,     \* bound: blobs ever stored
  MaxBuilds,    \* bound: build jobs ever enqueued
  MaxAttempts,  \* Settings.job_max_attempts
  MaxStops,     \* bound: cleanups that stop or crash half way
  Databases     \* the databases this deployment may use

ASSUME ConstantsAssumption ==
  /\ MaxBlobs \in Nat
  /\ MaxBuilds \in Nat
  /\ MaxAttempts \in Nat \ {0}
  /\ MaxStops \in Nat
  /\ Databases \subseteq {"sqlite", "postgresql"}

VARIABLES
  assets,      \* assets[k]: the blob of the row with key k (0: no row), its age
  blobs,       \* the blobs in storage
  refs,        \* keys with an AssetRef (or a library item)
  manifest,    \* manifest[p]: the keys the version's manifest names
  builds,      \* builds[p]: the build job of the lecture
  threads,     \* threads[t]: the build a thread is running
  collectors,  \* collectors[c]: a run of the cleanup handler
  bounds,      \* counts for MaxBlobs, MaxBuilds and MaxStops
  database

vars == <<assets, blobs, refs, manifest, builds, threads, collectors, bounds, database>>

-----------------------------------------------------------------------------
(* The store and the lease of a build *)

BlobIds == 1..MaxBlobs
NoRow == [blob |-> 0, old |-> FALSE]

Rows == {k \in Keys : assets[k].blob # 0}
Stored == {k \in Rows : assets[k].blob \in blobs}   \* get(key, verify_blob=True)

NoBuild == [status |-> "none", attempts |-> 0, need |-> {}]

\* Faulty variant: every active job blocks the collector.
ActiveBuilds == {p \in Projects : builds[p].status \in {"queued", "running", "waiting"}}

\* _running_blocker: queued jobs and jobs awaiting review touch no assets.
RunningBuilds == {p \in Projects : builds[p].status = "running"}

\* holds: the lease of the thread is that of the row (lease.fence).
Idle == [stage |-> "idle", project |-> "none", holds |-> FALSE, need |-> {},
         found |-> {}, key |-> "none", blob |-> 0]

Unreferenced == {k \in Rows : k \notin refs}

ToIdle(t) == threads' = [threads EXCEPT ![t] = Idle]

Database == UNCHANGED <<bounds, database>>
Store == UNCHANGED <<assets, blobs>>
Lectures == UNCHANGED <<refs, manifest>>

-----------------------------------------------------------------------------
(* Build jobs *)

\* A build of p whose screenplay calls for the keys of need.
Enqueue(p, need) ==
  /\ builds[p].status = "none"
  /\ bounds.builds < MaxBuilds
  /\ builds' = [builds EXCEPT ![p] = [status |-> "queued", attempts |-> 0, need |-> need]]
  /\ bounds' = [bounds EXCEPT !.builds = bounds.builds + 1]
  /\ UNCHANGED <<threads, collectors, database>> /\ Store /\ Lectures

Claim(t, p) ==
  /\ threads[t].stage = "idle"
  /\ builds[p].status = "queued"
  /\ builds' = [builds EXCEPT ![p].status = "running", ![p].attempts = builds[p].attempts + 1]
  /\ threads' = [threads EXCEPT ![t] = [Idle EXCEPT !.stage = "building", !.project = p,
                                          !.holds = TRUE, !.need = builds[p].need]]
  /\ UNCHANGED collectors /\ Store /\ Lectures /\ Database

\* get_or_create finds the asset: it is used as it is.
Cached(t, k) ==
  /\ threads[t].stage = "building"
  /\ k \in threads[t].need \ threads[t].found
  /\ k \in Stored
  /\ threads' = [threads EXCEPT ![t].found = threads[t].found \cup {k}]
  /\ UNCHANGED <<builds, collectors>> /\ Store /\ Lectures /\ Database

\* Faulty variant: the storage key is the content address, the same for
\* every producer of the asset.
PutInPlace(t, k) ==
  LET b == CHOOSE b \in BlobIds : \A x \in BlobIds : b <= x IN
  /\ threads[t].stage = "building"
  /\ k \in threads[t].need \ threads[t].found
  /\ k \notin Stored
  /\ blobs' = blobs \cup {b}
  /\ threads' = [threads EXCEPT ![t] = [threads[t] EXCEPT !.stage = "uploaded", !.key = k, !.blob = b]]
  /\ UNCHANGED <<assets, builds, collectors>> /\ Lectures /\ Database

\* It produces the asset; put uploads the blob under a random storage key.
Put(t, k) ==
  /\ threads[t].stage = "building"
  /\ k \in threads[t].need \ threads[t].found
  /\ k \notin Stored
  /\ bounds.blobs < MaxBlobs
  /\ blobs' = blobs \cup {bounds.blobs + 1}
  /\ threads' = [threads EXCEPT ![t] = [threads[t] EXCEPT !.stage = "uploaded", !.key = k,
                                          !.blob = bounds.blobs + 1]]
  /\ bounds' = [bounds EXCEPT !.blobs = bounds.blobs + 1]
  /\ UNCHANGED <<assets, builds, collectors, database>> /\ Lectures

\* ... and inserts the row. A concurrent writer's row is kept, and the blob
\* of the loser deleted (IntegrityError); a row that was there before the
\* insert is pointed at the new blob, and its old blob deleted.
InsertRow(t) ==
  LET k == threads[t].key
      b == threads[t].blob IN
  /\ threads[t].stage = "uploaded"
  /\ \/ /\ k \notin Rows
        /\ assets' = [assets EXCEPT ![k] = [blob |-> b, old |-> FALSE]]
        /\ UNCHANGED blobs
     \/ /\ k \in Rows
        /\ UNCHANGED assets
        /\ blobs' = blobs \ {b}
     \/ /\ k \in Rows
        /\ assets' = [assets EXCEPT ![k].blob = b]
        /\ blobs' = blobs \ {assets[k].blob}
  /\ threads' = [threads EXCEPT ![t] = [threads[t] EXCEPT !.stage = "building",
                   !.found = threads[t].found \cup {k}, !.key = "none", !.blob = 0]]
  /\ UNCHANGED <<builds, collectors>> /\ Lectures /\ Database

\* Faulty variant: the references are left to the handler's end.
RefsLater(t) ==
  /\ threads[t].stage = "building"
  /\ threads[t].need \subseteq threads[t].found
  /\ threads' = [threads EXCEPT ![t].stage = "referenced"]
  /\ UNCHANGED <<refs, manifest, builds, collectors>> /\ Store /\ Database

\* ensure_asset_refs, in a session of its own without the lease fence.
RecordRefs(t) ==
  /\ threads[t].stage = "building"
  /\ threads[t].need \subseteq threads[t].found
  /\ refs' = refs \cup threads[t].found
  /\ threads' = [threads EXCEPT ![t].stage = "referenced"]
  /\ UNCHANGED <<manifest, builds, collectors>> /\ Store /\ Database

\* The fenced compare-and-set of the version; the job succeeds.
WriteManifest(t) ==
  /\ threads[t].stage = "referenced"
  /\ IF threads[t].holds
     THEN /\ manifest' = [manifest EXCEPT ![threads[t].project] = threads[t].found]
          /\ builds' = [builds EXCEPT ![threads[t].project] = NoBuild]
     ELSE UNCHANGED <<manifest, builds>>
  /\ ToIdle(t)
  /\ UNCHANGED <<refs, collectors>> /\ Store /\ Database

\* The attempt is over: requeued while attempts remain, else failed.
AttemptOver(p) ==
  builds' = [builds EXCEPT ![p] =
               IF builds[p].attempts < MaxAttempts
               THEN [builds[p] EXCEPT !.status = "queued"] ELSE NoBuild]

\* The handler raises.
Fail(t) ==
  /\ threads[t].stage # "idle"
  /\ IF threads[t].holds THEN AttemptOver(threads[t].project) ELSE UNCHANGED builds
  /\ ToIdle(t)
  /\ UNCHANGED collectors /\ Store /\ Lectures /\ Database

\* It pauses for the teacher's review, before it asks for any asset.
Pause(t) ==
  /\ threads[t].holds
  /\ threads[t].stage = "building"
  /\ threads[t].found = {}
  /\ builds' = [builds EXCEPT ![threads[t].project].status = "waiting"]
  /\ ToIdle(t)
  /\ UNCHANGED collectors /\ Store /\ Lectures /\ Database

\* The approval queues a new job that goes on.
Approve(p) ==
  /\ builds[p].status = "waiting"
  /\ bounds.builds < MaxBuilds
  /\ builds' = [builds EXCEPT ![p].status = "queued", ![p].attempts = 0]
  /\ bounds' = [bounds EXCEPT !.builds = bounds.builds + 1]
  /\ UNCHANGED <<threads, collectors, database>> /\ Store /\ Lectures

\* The worker process dies.
Crash(t) ==
  /\ threads[t].stage # "idle"
  /\ ToIdle(t)
  /\ UNCHANGED <<builds, collectors>> /\ Store /\ Lectures /\ Database

\* reap_stale: the worker is gone, or only stands still and goes on later.
Recover(p) ==
  /\ builds[p].status = "running"
  /\ AttemptOver(p)
  /\ threads' = [t \in Threads |-> IF threads[t].project = p
                                   THEN [threads[t] EXCEPT !.holds = FALSE] ELSE threads[t]]
  /\ UNCHANGED collectors /\ Store /\ Lectures /\ Database

\* 30 days pass for an asset.
Age(k) ==
  /\ k \in Rows
  /\ ~assets[k].old
  /\ assets' = [assets EXCEPT ![k].old = TRUE]
  /\ UNCHANGED <<blobs, builds, threads, collectors>> /\ Lectures /\ Database

-----------------------------------------------------------------------------
(* The cleanup handler: run_cleanup and _gc_assets, chunks of one asset *)

Asleep == [stage |-> "idle", candidates |-> {}, key |-> "none", blob |-> 0]

Goes(c, run) == collectors' = [collectors EXCEPT ![c] = run]
Ends(c) == Goes(c, Asleep)
Others == UNCHANGED <<builds, threads>>

\* The early exit while a build runs, and the SELECT of the candidates; the
\* DELETE checks both again.
Select(c) ==
  /\ collectors[c].stage = "idle"
  /\ RunningBuilds = {}
  /\ \E k \in Unreferenced : assets[k].old
  /\ Goes(c, [Asleep EXCEPT !.stage = "selected",
                             !.candidates = {k \in Unreferenced : assets[k].old}])
  /\ Others /\ Store /\ Lectures /\ Database

\* _referenced_in_documents: keys a version document mentions are kept.
ScanDocuments(c) ==
  /\ collectors[c].stage = "selected"
  /\ Goes(c, [collectors[c] EXCEPT !.stage = "deleting",
                !.candidates = collectors[c].candidates \ UNION {manifest[p] : p \in Projects}])
  /\ Others /\ Store /\ Lectures /\ Database

\* Faulty variant: the guard is the early exit alone.
CollectsUnguarded(k) == k \in Unreferenced

\* The WHERE of the DELETE: unreferenced, AND NOT EXISTS a running build.
Collects(k) == k \in Unreferenced /\ RunningBuilds = {}

\* The row goes, RETURNING its storage key.
DeleteRow(c, k) ==
  /\ assets' = [assets EXCEPT ![k] = NoRow]
  /\ UNCHANGED blobs
  /\ Goes(c, [collectors[c] EXCEPT !.stage = "deleted", !.key = "none",
                !.candidates = collectors[c].candidates \ {k}, !.blob = assets[k].blob])

\* Nothing was deleted: the run ends when a build is running.
KeepRow(c, k) ==
  /\ Store
  /\ IF RunningBuilds # {} THEN Ends(c)
     ELSE Goes(c, [collectors[c] EXCEPT !.stage = "deleting", !.key = "none",
                     !.candidates = collectors[c].candidates \ {k}])

\* SQLite: the statement is one step. An id may be given again there, so a
\* candidate is known by its key.
Delete(c, k) ==
  /\ database = "sqlite"
  /\ collectors[c].stage = "deleting"
  /\ k \in collectors[c].candidates
  /\ IF Collects(k) THEN DeleteRow(c, k) ELSE KeepRow(c, k)
  /\ Others /\ Lectures /\ Database

\* PostgreSQL: the statement sees the snapshot of its start; what other
\* sessions commit before it has deleted the row changes nothing.
StartDelete(c, k) ==
  /\ database = "postgresql"
  /\ collectors[c].stage = "deleting"
  /\ k \in collectors[c].candidates
  /\ IF Collects(k)
     THEN /\ Goes(c, [collectors[c] EXCEPT !.stage = "judged", !.key = k])
          /\ Store
     ELSE KeepRow(c, k)
  /\ Others /\ Lectures /\ Database

FinishDelete(c) ==
  /\ collectors[c].stage = "judged"
  /\ IF collectors[c].key \in Rows
     THEN DeleteRow(c, collectors[c].key) ELSE KeepRow(c, collectors[c].key)
  /\ Others /\ Lectures /\ Database

\* The rows are gone: the blob can no longer be handed out. A failure is
\* logged and the blob stays.
DeleteBlob(c) ==
  /\ collectors[c].stage = "deleted"
  /\ \/ blobs' = blobs \ {collectors[c].blob}
     \/ UNCHANGED blobs
  /\ Goes(c, [collectors[c] EXCEPT !.stage = "deleting", !.blob = 0])
  /\ UNCHANGED assets
  /\ Others /\ Lectures /\ Database

Finish(c) ==
  /\ collectors[c].stage = "deleting"
  /\ collectors[c].candidates = {}
  /\ Ends(c)
  /\ Others /\ Store /\ Lectures /\ Database

\* check_cancelled raises, or the process dies.
Stop(c) ==
  /\ collectors[c].stage # "idle"
  /\ bounds.stops < MaxStops
  /\ bounds' = [bounds EXCEPT !.stops = bounds.stops + 1]
  /\ Ends(c)
  /\ UNCHANGED database
  /\ Others /\ Store /\ Lectures

-----------------------------------------------------------------------------
Init ==
  /\ assets = [k \in Keys |-> NoRow]
  /\ blobs = {}
  /\ refs = {}
  /\ manifest = [p \in Projects |-> {}]
  /\ builds = [p \in Projects |-> NoBuild]
  /\ threads = [t \in Threads |-> Idle]
  /\ collectors = [c \in Collectors |-> Asleep]
  /\ bounds = [blobs |-> 0, builds |-> 0, stops |-> 0]
  /\ database \in Databases

Produces(t) == \E k \in Keys : Cached(t, k) \/ Put(t, k)
Handler(t) ==
  \/ Produces(t) \/ InsertRow(t) \/ RecordRefs(t) \/ WriteManifest(t)
  \/ Fail(t) \/ Pause(t)
Deletes(c) == \E k \in Keys : Delete(c, k) \/ StartDelete(c, k)
Collect(c) ==
  \/ Select(c) \/ ScanDocuments(c) \/ Deletes(c) \/ FinishDelete(c)
  \/ DeleteBlob(c) \/ Finish(c)

Next ==
  \/ \E p \in Projects, need \in SUBSET Keys \ {{}} : Enqueue(p, need)
  \/ \E p \in Projects : Approve(p) \/ Recover(p)
  \/ \E t \in Threads :
       (\E p \in Projects : Claim(t, p)) \/ Handler(t) \/ Crash(t)
  \/ \E k \in Keys : Age(k)
  \/ \E c \in Collectors : Collect(c) \/ Stop(c)

Spec == Init /\ [][Next]_vars

-----------------------------------------------------------------------------
(* Properties *)

\* The rows, jobs and program counters have their shapes.
TypeOK ==
  /\ assets \in [Keys -> [blob : {0} \cup BlobIds, old : BOOLEAN]]
  /\ blobs \subseteq BlobIds
  /\ refs \subseteq Keys
  /\ manifest \in [Projects -> SUBSET Keys]
  /\ builds \in [Projects -> [status : {"none", "queued", "running", "waiting"},
                              attempts : 0..MaxAttempts, need : SUBSET Keys]]
  /\ threads \in [Threads ->
       [stage : {"idle", "building", "uploaded", "referenced"},
        project : Projects \cup {"none"}, holds : BOOLEAN, need : SUBSET Keys,
        found : SUBSET Keys, key : Keys \cup {"none"}, blob : {0} \cup BlobIds]]
  /\ collectors \in [Collectors ->
       [stage : {"idle", "selected", "deleting", "judged", "deleted"},
        candidates : SUBSET Keys, key : Keys \cup {"none"}, blob : {0} \cup BlobIds]]
  /\ bounds \in [blobs : 0..MaxBlobs, builds : 0..MaxBuilds, stops : 0..MaxStops]
  /\ database \in Databases

\* "Rows are gone: blobs can no longer be handed out": whatever the store
\* hands out has its blob, on either database, while collectors that stopped
\* or overlap, losing writers and stale builds delete blobs.
RowHasBlob == Rows = Stored

\* "It could be re-using a cached asset that is not referenced yet": what a
\* build has found in the store stays there until the build is over. On
\* PostgreSQL a build that is claimed while the DELETE runs is not seen.
BuildKeepsAssets ==
  database = "sqlite" =>
    \A t \in Threads : threads[t].holds => threads[t].found \subseteq Stored

\* Every asset a lecture's manifest names can be played.
ManifestStored ==
  database = "sqlite" => \A p \in Projects : manifest[p] \subseteq Stored

-----------------------------------------------------------------------------
(* Liveness: threads go on, dead leases are recovered, cleanups are run. *)

Fairness ==
  /\ \A t \in Threads :
       /\ WF_vars(\E p \in Projects : Claim(t, p))
       /\ WF_vars(Handler(t))
  /\ \A p \in Projects :
       WF_vars((\A t \in Threads : ~(threads[t].holds /\ threads[t].project = p)) /\ Recover(p))
  /\ \A c \in Collectors : WF_vars(Collect(c))

FairSpec == Spec /\ Fairness

Garbage(k) == k \in Unreferenced /\ assets[k].old

\* An old asset nobody refers to is collected or referred to in the end,
\* although builds wait for their teachers for ever.
GarbageGoes == \A k \in Keys : Garbage(k) ~> ~Garbage(k)

=============================================================================
