---------------------------- MODULE DockerRegistry ----------------------------
(***************************************************************************)
(* The hosted Docker registry and the accounting of its objects.           *)
(*                                                                         *)
(* The bytes of a repository are in its storage (store); the table         *)
(* docker_objects (rows) holds the size, the direct references and an      *)
(* optimistic-concurrency revision of every object it knows.  A request    *)
(* changes the storage and the table in separate steps, one await each.    *)
(* Two activities repair the table from the storage: a package listing     *)
(* backfills the graph of a manifest that has no row, and the periodic     *)
(* usage refresh reconciles every row.  Both guard their writes with the   *)
(* revision they saw before they read the storage.                         *)
(*                                                                         *)
(* One image name.  A manifest and a blob are named by their digest, so a  *)
(* manifest or blob is also its own path; a tag is a path whose content    *)
(* is one of the manifests.                                                *)
(***************************************************************************)
EXTENDS Integers, Sequences, FiniteSets

CONSTANTS Tags,              \* the tags of the image
          Manifests,         \* the manifest bodies, each named by its digest
          Blobs,             \* the configs and layers, each named by its digest
          Refs,              \* what a body references directly
          Size,              \* the length of a body
          Clients,           \* the requests the server runs at a time
          Ops,               \* the kinds of request the clients send
          PushRules,         \* the values allow_tag_overwrite has while the system runs
          S3Listing,         \* the storage lists its objects at once (S3)
          LegacyStore,       \* what the storage may hold before the first row
          MaxRequests,       \* bound: requests and listings started
          MaxPasses,         \* bound: reconciliations, or Unbounded
          MaxFaults,         \* bound: failures
          RevisionSpan,      \* revisions before they wrap, or Unbounded
          NoObject           \* a path with nothing stored

Unbounded == 0
Objects == Manifests \cup Blobs
ManifestPaths == Tags \cup Manifests   \* split_manifest_cache_path accepts these
Paths == Tags \cup Objects
Repairers == {"listing", "reconcile"}
AllOps == {"push", "upload", "pull", "delete", "deleteBlob", "list"}
AnyPath == CHOOSE o \in Objects : TRUE   \* the value of a path or body not in use
NoCapture == [path |-> AnyPath, rev |-> {}]
Quiet == "quiet"             \* a client, a backfill or a pass that does nothing

\* A body lies only where its kind belongs: a tag or a manifest's own digest, or
\* a blob's own digest.
WellPlaced(s) ==
    /\ \A p \in Paths \ Tags : s[p] \in {p, NoObject}
    /\ \A t \in Tags : s[t] \in Manifests \cup {NoObject}

ASSUME ConstantsAssumption ==
    /\ Objects # {}
    /\ Tags \cap Objects = {} /\ Manifests \cap Blobs = {} /\ NoObject \notin Paths
    /\ Refs \in [Objects -> SUBSET Objects] /\ \A b \in Blobs : Refs[b] = {}
    /\ Size \in [Objects -> Nat]
    /\ Ops \subseteq AllOps /\ PushRules \subseteq BOOLEAN /\ S3Listing \in BOOLEAN
    /\ LegacyStore \subseteq {s \in [Paths -> Objects \cup {NoObject}] : WellPlaced(s)}
    /\ MaxRequests \in Nat /\ MaxPasses \in Nat /\ MaxFaults \in Nat /\ RevisionSpan \in Nat

VARIABLES
    store,    \* path -> the body stored there
    rows,     \* path -> its docker_objects row, a set of at most one row
    pc,       \* client -> the step its request is at
    path,     \* client -> the path the request works on
    body,     \* client -> the body it saved or read
    todo,     \* client -> the paths its deletion has still to read or to erase
    doomed,   \* client -> the paths its deletion collected
    bpc,      \* repairer -> the step its backfill is at
    pending,  \* repairer -> the paths still to visit
    visited,  \* repairer -> the paths visited
    cur,      \* repairer -> the path it is at and the revisions it captured there
    found,    \* repairer -> the objects observed, the last one first
    rpc,      \* the step the reconciliation is at
    entries,  \* the manifests it has still to examine
    snap,     \* path -> the row list_rows returned
    drift,    \* the paths with the size the storage has and the row has not
    missing,  \* the paths with a row and nothing in the storage
    stale,    \* history: reader of revisions -> the paths whose row changed since
    used      \* requests, passes and faults so far

clientVars == <<pc, path, body, todo, doomed>>
backfillVars == <<bpc, pending, visited, cur, found>>
passVars == <<rpc, entries, snap, drift, missing>>
vars == <<store, rows, clientVars, backfillVars, passVars, stale, used>>

Row == [size : Nat, refs : SUBSET Objects, rev : Nat]
NoRow == {}
Readers == Repairers \cup {"snapshot"}

\* One type invariant: every variable stays in its range, a path has at most one
\* row, a pass holds revisions of known paths only, and a body lies only where
\* its kind belongs.
TypeOK ==
    /\ store \in [Paths -> Objects \cup {NoObject}]
    /\ WellPlaced(store)
    /\ DOMAIN rows = Paths
    /\ \A p \in Paths : rows[p] \subseteq Row /\ Cardinality(rows[p]) <= 1
    /\ pc \in [Clients -> {Quiet, "check", "save", "record", "collect", "erase"}]
    /\ path \in [Clients -> Paths] /\ body \in [Clients -> Objects]
    /\ todo \in [Clients -> SUBSET Paths] /\ doomed \in [Clients -> SUBSET Paths]
    /\ bpc \in [Repairers -> {Quiet, "capture", "read", "publish"}]
    /\ pending \in [Repairers -> SUBSET Paths] /\ visited \in [Repairers -> SUBSET Paths]
    /\ \A i \in Repairers : cur[i].path \in Paths /\ cur[i].rev \subseteq Nat
    /\ \A i \in Repairers : \A k \in DOMAIN found[i] :
          /\ found[i][k].path \in visited[i] /\ found[i][k].body \in Objects
    /\ rpc \in {Quiet, "graphs", "probe"} /\ entries \subseteq ManifestPaths
    /\ \A p \in Paths : snap[p] \subseteq Row
    /\ missing \subseteq Paths /\ \A d \in drift : d.path \in Paths /\ d.size \in Nat
    /\ stale \in [Readers -> SUBSET Paths]
    /\ used \in [requests : 0 .. MaxRequests, passes : Nat, faults : 0 .. MaxFaults]

\* Images cached before the table existed have no row.
Init ==
    /\ store \in LegacyStore
    /\ rows = [p \in Paths |-> NoRow]
    /\ pc = [c \in Clients |-> Quiet]
    /\ path = [c \in Clients |-> AnyPath] /\ body = [c \in Clients |-> AnyPath]
    /\ todo = [c \in Clients |-> {}] /\ doomed = [c \in Clients |-> {}]
    /\ bpc = [i \in Repairers |-> Quiet]
    /\ pending = [i \in Repairers |-> {}] /\ visited = [i \in Repairers |-> {}]
    /\ cur = [i \in Repairers |-> NoCapture]
    /\ found = [i \in Repairers |-> <<>>]
    /\ rpc = Quiet /\ entries = {} /\ drift = {} /\ missing = {}
    /\ snap = [p \in Paths |-> NoRow]
    /\ stale = [r \in Readers |-> {}]
    /\ used = [requests |-> 0, passes |-> 0, faults |-> 0]

-----------------------------------------------------------------------------
(* The table. *)

RevOf(p) == {r.rev : r \in rows[p]}
Bump(rev) == IF RevisionSpan = Unbounded THEN rev + 1 ELSE (rev + 1) % RevisionSpan

\* The table becomes new; every reader that holds the revision of a row that
\* changed now holds a stale one.
Held(r) == IF r = "snapshot" THEN {p \in Paths : snap[p] # NoRow} ELSE visited[r]
Outdated(new) == [r \in Readers |-> stale[r] \cup {p \in Held(r) : new[p] # rows[p]}]
Write(new) == rows' = new /\ stale' = Outdated(new)

\* Mutant: an upsert that forgets to bump the revision of the row it replaces.
UpsertKeepsRevision(p, o) ==
    LET rev == IF rows[p] = NoRow THEN 0 ELSE (CHOOSE r \in rows[p] : TRUE).rev
    IN  [rows EXCEPT ![p] = {[size |-> Size[o], refs |-> Refs[o], rev |-> rev]}]

\* A write that records what it stored: nothing changes when the row says so already.
Upsert(p, o) ==
    LET same == \E r \in rows[p] : r.size = Size[o] /\ r.refs = Refs[o]
        rev == IF rows[p] = NoRow THEN 0 ELSE Bump((CHOOSE r \in rows[p] : TRUE).rev)
    IN  IF same THEN rows ELSE [rows EXCEPT ![p] = {[size |-> Size[o], refs |-> Refs[o], rev |-> rev]}]

\* Mutant: ON CONFLICT DO UPDATE.
InsertMissingOverwrites(p, o) == [rows EXCEPT ![p] = {[size |-> Size[o], refs |-> Refs[o], rev |-> 0]}]

\* insert_missing: ON CONFLICT DO NOTHING.
InsertMissing(p, o) ==
    IF rows[p] = NoRow THEN [rows EXCEPT ![p] = {[size |-> Size[o], refs |-> Refs[o], rev |-> 0]}]
                       ELSE rows

\* upsert_if_revision bumps the revision also when it changes nothing else.
UpsertIfRevision(p, o, rev) ==
    IF rev \in RevOf(p)
    THEN [rows EXCEPT ![p] = {[size |-> Size[o], refs |-> Refs[o], rev |-> Bump(rev)]}]
    ELSE rows

UpdateSizeIfRevision(p, size, rev) ==
    [rows EXCEPT ![p] = {IF r.rev = rev THEN [r EXCEPT !.size = size, !.rev = Bump(rev)] ELSE r : r \in @}]

\* Mutant: the rows that changed are removed instead of those that did not.
DeletePathsIfChanged(ps, old) ==
    [p \in Paths |-> IF p \in ps THEN {r \in rows[p] : \E s \in old[p] : r.rev = s.rev} ELSE rows[p]]

DeletePathsIfRevisions(ps, old) ==
    [p \in Paths |-> IF p \in ps THEN {r \in rows[p] : \A s \in old[p] : r.rev # s.rev} ELSE rows[p]]

DeletePaths(ps) == [p \in Paths |-> IF p \in ps THEN NoRow ELSE rows[p]]

\* The paths the rows lead to from root, root included.
Reachable(root) ==
    LET step[n \in Nat] ==
            IF n = 0 THEN {root}
            ELSE step[n - 1] \cup UNION {r.refs : r \in UNION {rows[p] : p \in step[n - 1]}}
    IN  step[Cardinality(Paths)]

NeedsBackfill(root) == \E p \in Reachable(root) : rows[p] = NoRow

-----------------------------------------------------------------------------
(* Requests. *)

Set(f, c, v) == [f EXCEPT ![c] = v]
Spend(field) == used' = [used EXCEPT ![field] = @ + 1]

Begin(c, op) ==
    /\ op \in Ops /\ pc[c] = Quiet /\ used.requests < MaxRequests
    /\ Spend("requests")
    /\ UNCHANGED <<store, rows, stale, backfillVars, passVars>>

\* The request is over, its locals are gone.
Answer(c) ==
    /\ pc' = Set(pc, c, Quiet) /\ path' = Set(path, c, AnyPath) /\ body' = Set(body, c, AnyPath)
    /\ todo' = Set(todo, c, {}) /\ doomed' = Set(doomed, c, {})

\* put_manifest: a push by tag looks at the tag first when tags are immutable
\* under the push rules in force, which an administrator may change at any time.
PutManifest(c, ref, m) ==
    /\ Begin(c, "push")
    /\ \E allow \in PushRules :
          pc' = Set(pc, c, IF ref \in Tags /\ ~allow THEN "check" ELSE "save")
    /\ path' = Set(path, c, ref) /\ body' = Set(body, c, m)
    /\ UNCHANGED <<todo, doomed>>

CheckTag(c) ==
    /\ pc[c] = "check"
    /\ IF store[path[c]] = NoObject
       THEN pc' = Set(pc, c, "save") /\ UNCHANGED <<path, body, todo, doomed>>
       ELSE Answer(c)
    /\ UNCHANGED <<store, rows, backfillVars, passVars, stale, used>>

\* complete_blob_upload: the digest was verified, the upload is moved to its blob path.
CompleteBlobUpload(c, b) ==
    /\ Begin(c, "upload")
    /\ pc' = Set(pc, c, "save")
    /\ path' = Set(path, c, b) /\ body' = Set(body, c, b)
    /\ UNCHANGED <<todo, doomed>>

\* get_blob and head_blob record the blob they opened.
GetBlob(c, b) ==
    /\ Begin(c, "pull")
    /\ store[b] # NoObject
    /\ pc' = Set(pc, c, "record")
    /\ path' = Set(path, c, b) /\ body' = Set(body, c, b)
    /\ UNCHANGED <<todo, doomed>>

SaveFile(c) ==
    /\ pc[c] = "save"
    /\ store' = [store EXCEPT ![path[c]] = body[c]]
    /\ pc' = Set(pc, c, "record")
    /\ UNCHANGED <<rows, path, body, todo, doomed, backfillVars, passVars, stale, used>>

\* After the row: a push by tag goes on to save the manifest by its digest.
RecordFile(c) ==
    /\ pc[c] = "record"
    /\ Write(Upsert(path[c], body[c]))
    /\ IF path[c] \in Tags
       THEN /\ pc' = Set(pc, c, "save") /\ path' = Set(path, c, body[c])
            /\ UNCHANGED <<body, todo, doomed>>
       ELSE Answer(c)
    /\ UNCHANGED <<store, backfillVars, passVars, used>>

\* delete_manifest and the package deletions start from one or several manifests.
DeletePackages(c, roots) ==
    /\ Begin(c, "delete")
    /\ pc' = Set(pc, c, "collect")
    /\ todo' = Set(todo, c, roots) /\ doomed' = Set(doomed, c, {})
    /\ UNCHANGED <<path, body>>

\* collect_manifest_paths: the manifest, its digest path, its blobs; an index
\* leads on to the manifests not seen yet.  A manifest that is gone is skipped.
Collected(p, o) == {p, o} \cup (Refs[o] \cap Blobs)
Nested(p, o, seen) == (Refs[o] \cap Manifests) \ seen

CollectManifestPaths(c) ==
    /\ pc[c] = "collect"
    /\ \E p \in todo[c] :
          LET o == store[p] IN
          IF o = NoObject
          THEN todo' = Set(todo, c, todo[c] \ {p}) /\ UNCHANGED doomed
          ELSE /\ doomed' = Set(doomed, c, doomed[c] \cup Collected(p, o))
               /\ todo' = Set(todo, c, (todo[c] \ {p}) \cup Nested(p, o, doomed[c]))
    /\ UNCHANGED <<store, rows, pc, path, body, backfillVars, passVars, stale, used>>

CollectDone(c) ==
    /\ pc[c] = "collect" /\ todo[c] = {}
    /\ pc' = Set(pc, c, "erase") /\ todo' = Set(todo, c, doomed[c])
    /\ UNCHANGED <<store, rows, path, body, doomed, backfillVars, passVars, stale, used>>

\* delete_blob erases one path and forgets its row.
DeleteBlob(c, b) ==
    /\ Begin(c, "deleteBlob")
    /\ pc' = Set(pc, c, "erase")
    /\ todo' = Set(todo, c, {b}) /\ doomed' = Set(doomed, c, {b})
    /\ UNCHANGED <<path, body>>

\* delete_files_batch: the objects go one after the other.
Erase(c) ==
    /\ pc[c] = "erase"
    /\ \E p \in todo[c] :
          /\ store' = [store EXCEPT ![p] = NoObject]
          /\ todo' = Set(todo, c, todo[c] \ {p})
    /\ UNCHANGED <<rows, pc, path, body, doomed, backfillVars, passVars, stale, used>>

Forget(c) ==
    /\ pc[c] = "erase" /\ todo[c] = {}
    /\ Write(DeletePaths(doomed[c]))
    /\ Answer(c)
    /\ UNCHANGED <<store, backfillVars, passVars, used>>

\* A storage or database error, a client that hangs up, a crash of the server:
\* what the request has done stays, the rest never happens.
RequestFails(c) ==
    /\ pc[c] # Quiet /\ used.faults < MaxFaults
    /\ Answer(c) /\ Spend("faults")
    /\ UNCHANGED <<store, rows, backfillVars, passVars, stale>>

Request(c) ==
    \/ \E ref \in ManifestPaths : \E m \in IF ref \in Tags THEN Manifests ELSE {ref} : PutManifest(c, ref, m)
    \/ CheckTag(c) \/ SaveFile(c) \/ RecordFile(c)
    \/ \E b \in Blobs : CompleteBlobUpload(c, b) \/ GetBlob(c, b) \/ DeleteBlob(c, b)
    \/ \E roots \in SUBSET ManifestPaths : roots # {} /\ DeletePackages(c, roots)
    \/ CollectManifestPaths(c) \/ CollectDone(c) \/ Erase(c) \/ Forget(c)
    \/ RequestFails(c)

-----------------------------------------------------------------------------
(* Backfill of one manifest graph, by a listing or by the reconciliation. *)

StartBackfill(i, root) ==
    /\ bpc[i] = Quiet
    /\ bpc' = Set(bpc, i, "capture") /\ pending' = Set(pending, i, {root})
    /\ UNCHANGED <<visited, cur, found>>

EndBackfill(i) ==
    /\ bpc' = Set(bpc, i, Quiet) /\ pending' = Set(pending, i, {})
    /\ visited' = Set(visited, i, {}) /\ cur' = Set(cur, i, NoCapture) /\ found' = Set(found, i, <<>>)
    /\ stale' = Set(stale, i, {})

\* list_cached_packages: a listed manifest without a row is backfilled.
ListPackages(root) ==
    /\ "list" \in Ops /\ used.requests < MaxRequests /\ Spend("requests")
    /\ rows[root] = NoRow
    /\ StartBackfill("listing", root)
    /\ UNCHANGED <<store, rows, clientVars, passVars, stale>>

\* Mutant: a captured path is not entered among the visited ones.
CaptureForgets(i) ==
    /\ bpc[i] = "capture"
    /\ \E p \in pending[i] :
          /\ cur' = Set(cur, i, [path |-> p, rev |-> RevOf(p)])
          /\ pending' = Set(pending, i, pending[i] \ {p})
    /\ bpc' = Set(bpc, i, "read")
    /\ UNCHANGED <<store, rows, clientVars, visited, found, passVars, stale, used>>

\* The revision comes first; the order among the pending paths is left open.
Capture(i) ==
    /\ bpc[i] = "capture"
    /\ \E p \in pending[i] :
          /\ cur' = Set(cur, i, [path |-> p, rev |-> RevOf(p)])
          /\ pending' = Set(pending, i, pending[i] \ {p})
          /\ visited' = Set(visited, i, visited[i] \cup {p})
          /\ stale' = Set(stale, i, stale[i] \ {p})
    /\ bpc' = Set(bpc, i, "read")
    /\ UNCHANGED <<store, rows, clientVars, found, passVars, used>>

\* read_manifest_file, or get_file_information of a blob.
ReadObject(i) ==
    LET p == cur[i].path
        o == store[p]
    IN  /\ bpc[i] = "read"
        /\ IF o = NoObject
           THEN UNCHANGED <<pending, found>>
           ELSE /\ pending' = Set(pending, i, pending[i] \cup (Refs[o] \ visited[i]))
                /\ found' = Set(found, i, <<[path |-> p, body |-> o, rev |-> cur[i].rev]>> \o found[i])
        /\ bpc' = Set(bpc, i, IF pending'[i] = {} THEN "publish" ELSE "capture")
        /\ cur' = Set(cur, i, NoCapture)
        /\ UNCHANGED <<store, rows, clientVars, visited, passVars, stale, used>>

\* The last object observed is published first, the root last.
Publish(i) ==
    LET f == Head(found[i]) IN
    /\ bpc[i] = "publish" /\ found[i] # <<>>
    /\ Write(IF f.rev = {} THEN InsertMissing(f.path, f.body)
             ELSE UpsertIfRevision(f.path, f.body, CHOOSE rev \in f.rev : TRUE))
    /\ found' = Set(found, i, Tail(found[i]))
    /\ UNCHANGED <<store, clientVars, bpc, pending, visited, cur, passVars, used>>

BackfillDone(i) ==
    /\ bpc[i] = "publish" /\ found[i] = <<>>
    /\ EndBackfill(i)
    /\ UNCHANGED <<store, rows, clientVars, passVars, used>>

\* A storage or database error ends the backfill; the pass goes on to the next
\* manifest, the listing answers with the size it has.
BackfillFails(i) ==
    /\ bpc[i] # Quiet /\ used.faults < MaxFaults /\ Spend("faults")
    /\ EndBackfill(i)
    /\ UNCHANGED <<store, rows, clientVars, passVars>>

BackfillStep(i) == Capture(i) \/ ReadObject(i) \/ Publish(i) \/ BackfillDone(i)

-----------------------------------------------------------------------------
(* reconcile_docker_objects, run by the periodic usage refresh. *)

StartPass ==
    /\ rpc = Quiet
    /\ MaxPasses = Unbounded \/ used.passes < MaxPasses
    /\ used' = IF MaxPasses = Unbounded THEN used ELSE [used EXCEPT !.passes = @ + 1]
    /\ rpc' = "graphs" /\ entries' = {p \in ManifestPaths : store[p] # NoObject}
    /\ UNCHANGED <<store, rows, clientVars, backfillVars, snap, drift, missing, stale>>

ExamineManifest ==
    /\ rpc = "graphs" /\ bpc["reconcile"] = Quiet
    /\ \E e \in entries :
          /\ entries' = entries \ {e}
          /\ IF NeedsBackfill(e) THEN StartBackfill("reconcile", e) ELSE UNCHANGED backfillVars
    /\ UNCHANGED <<store, rows, clientVars, rpc, snap, drift, missing, stale, used>>

ListRows ==
    /\ rpc = "graphs" /\ bpc["reconcile"] = Quiet /\ entries = {}
    /\ rpc' = "probe" /\ snap' = rows
    /\ stale' = Set(stale, "snapshot", {})
    /\ UNCHANGED <<store, rows, clientVars, backfillVars, entries, drift, missing, used>>

\* One object of the inventory.  A local storage is probed row by row, and a
\* drifted size is corrected before the next probe; an S3 listing is complete
\* before the first correction.  snap[p] is emptied once p is dealt with, except
\* for a missing path, whose revision is needed at the end.
Unprobed == {p \in Paths : snap[p] # NoRow} \ (missing \cup {d.path : d \in drift})

Probe(p) ==
    LET o == store[p] IN
    /\ rpc = "probe" /\ p \in Unprobed /\ (S3Listing \/ drift = {})
    /\ missing' = IF o = NoObject THEN missing \cup {p} ELSE missing
    /\ drift' = IF o # NoObject /\ \E r \in snap[p] : r.size # Size[o]
                THEN drift \cup {[path |-> p, size |-> Size[o]]} ELSE drift
    /\ snap' = IF missing' = missing /\ drift' = drift THEN Set(snap, p, NoRow) ELSE snap
    /\ UNCHANGED <<store, rows, clientVars, backfillVars, rpc, entries, stale, used>>

\* get_file_information fails: the object is skipped.
ProbeFails(p) ==
    /\ rpc = "probe" /\ p \in Unprobed /\ ~S3Listing /\ drift = {}
    /\ used.faults < MaxFaults /\ Spend("faults")
    /\ snap' = Set(snap, p, NoRow)
    /\ UNCHANGED <<store, rows, clientVars, backfillVars, rpc, entries, drift, missing, stale>>

CorrectSize(d) ==
    /\ rpc = "probe" /\ d \in drift /\ (S3Listing => Unprobed = {})
    /\ Write(UpdateSizeIfRevision(d.path, d.size, (CHOOSE r \in snap[d.path] : TRUE).rev))
    /\ drift' = drift \ {d} /\ snap' = Set(snap, d.path, NoRow)
    /\ UNCHANGED <<store, clientVars, backfillVars, rpc, entries, missing, used>>

EndPass == rpc' = Quiet /\ entries' = {} /\ missing' = {} /\ drift' = {} /\ snap' = [p \in Paths |-> NoRow]

RemoveMissing ==
    /\ rpc = "probe" /\ Unprobed = {} /\ drift = {}
    /\ rows' = DeletePathsIfRevisions(missing, snap)
    /\ stale' = Set(Outdated(rows'), "snapshot", {})
    /\ EndPass
    /\ UNCHANGED <<store, clientVars, backfillVars, used>>

\* A database error, a failed listing or a crash ends the pass where it is.
PassFails ==
    /\ rpc # Quiet /\ used.faults < MaxFaults /\ Spend("faults")
    /\ EndPass
    /\ EndBackfill("reconcile")
    /\ UNCHANGED <<store, rows, clientVars>>

PassStep ==
    \/ StartPass \/ ExamineManifest \/ ListRows \/ RemoveMissing
    \/ \E p \in Paths : Probe(p)
    \/ \E d \in drift : CorrectSize(d)

-----------------------------------------------------------------------------
Next ==
    \/ \E c \in Clients : Request(c)
    \/ \E root \in ManifestPaths : ListPackages(root)
    \/ \E i \in Repairers : BackfillStep(i) \/ BackfillFails(i)
    \/ PassStep \/ PassFails \/ \E p \in Paths : ProbeFails(p)

Spec == Init /\ [][Next]_vars

\* The periodic refresh starts a pass again and again and its steps are not
\* starved; nothing is assumed of the clients and the listings, which may hang.
Fairness == WF_vars(PassStep) /\ WF_vars(BackfillStep("reconcile"))
FairSpec == Spec /\ Fairness

-----------------------------------------------------------------------------
(* Properties. *)

\* No row that changed since the reader read its revision changes again in this step.
KeepsNewer(reader) == \A p \in Paths : rows[p] # NoRow /\ rows'[p] # rows[p] => p \notin stale[reader]

\* A backfill that publishes, a correction of a size and a removal of a row that
\* lacks its object take effect on an existing row only if nobody changed it since
\* its revision was read: a newer row is never overwritten or removed.
GuardsHold ==
    [][/\ \A i \in Repairers : Publish(i) => KeepsNewer(i)
       /\ \A d \in drift : CorrectSize(d) => KeepsNewer("snapshot")
       /\ RemoveMissing => KeepsNewer("snapshot")]_vars

\* Whenever no request is under way every row describes exactly the object in
\* the storage, size and references, wherever a listing and a reconciliation are.
AccurateWhenQuiet ==
    (\A c \in Clients : pc[c] = Quiet) =>
        \A p \in Paths : \A r \in rows[p] :
            store[p] # NoObject /\ r.size = Size[store[p]] /\ r.refs = Refs[store[p]]

\* No row without an object, no wrong size, and every stored object that the
\* rows lead to from a stored manifest has a row.
Accurate ==
    /\ \A p \in Paths : \A r \in rows[p] : store[p] # NoObject /\ r.size = Size[store[p]]
    /\ \A m \in ManifestPaths : store[m] # NoObject =>
          \A p \in Reachable(m) : store[p] # NoObject => rows[p] # NoRow

\* Whatever races, failures and abandoned requests left behind, the reconciliation
\* repairs the table for good once the clients leave the repository alone.
DriftRepaired == <>[]Accurate

\* The same for the references of the manifests, on which the size of an image rests.
ReferencesRepaired ==
    <>[](\A m \in ManifestPaths : \A r \in rows[m] : store[m] # NoObject => r.refs = Refs[store[m]])

\* Deleting packages leaves the blobs that a manifest outside the deletion references.
SharedBlobsPreserved ==
    [][\A c \in Clients : Erase(c) =>
         \A b \in Blobs : (store[b] # NoObject /\ store'[b] = NoObject) =>
            \A m \in ManifestPaths \ doomed[c] : store[m] # NoObject => b \notin Refs[store[m]]]_vars
=============================================================================
