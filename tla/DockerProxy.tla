----------------------------- MODULE DockerProxy -----------------------------
(***************************************************************************)
(* The Docker proxy.  A manifest is asked for by tag or by digest.  A tag  *)
(* in the cache is compared with the upstream once its side file is older  *)
(* than the TTL; a digest never changes.  A download stores the tag file,  *)
(* then the digest file, records both in the catalog and at last stamps    *)
(* the side file.  A manifest of the old schema 1 is asked for again in    *)
(* the modern form, and purged from the cache where it got there.          *)
(*                                                                         *)
(* aux.meta is the side file of a tag (its digest and whether it is within *)
(* the TTL), and aux.recent, a history variable, what the upstream's tag    *)
(* has been since the TTL last passed.  Deletions and the accounting of    *)
(* objects are in DockerRegistry; the proxy itself refuses writes.         *)
(***************************************************************************)
EXTENDS ProxyCache, TLC

\* The manifests, their digests (numbered past the tags, which are the versions) and files.
DockerBodies == Bodies \cup {"schema1"}
DockerDigest == CHOOSE f \in [DockerBodies -> 91 .. 90 + Cardinality(DockerBodies)] :
                    \A a, b \in DockerBodies : f[a] = f[b] => a = b
IsDigest(v) == v > 90
DigestBody(v) == CHOOSE b \in DockerBodies : DockerDigest[b] = v
ManifestPath(p, v) == <<Dir("v2"), Dir(p), File(p, v, "manifest")>>
BlobPath(p, b) == <<Dir("v2"), Dir(p), Dir("blobs"), Dir(b)>>

DockerUpstream == [path \in {ManifestPath(p, v) : p \in Packages, v \in Versions} |-> CHOOSE b \in Bodies : TRUE]
DockerProxyInit == [meta |-> EmptyMap, recent |-> [path \in DOMAIN DockerUpstream |-> {DockerUpstream[path]}]]

DownloadByDigest == <<"dockerFetch", "dockerWrite", "dockerSave">> \o IndexSteps \o <<"dockerDone">>
TagSteps ==
    <<"dockerFetch", "dockerWrite", "dockerSave", "dockerWriteDigest", "dockerSaveDigest">>
    \o IndexSteps \o <<"dockerByDigest", "dockerSave">> \o IndexSteps \o <<"dockerStamp">>
DownloadByTag == TagSteps \o <<"dockerDone">>
Download(v) == IF IsDigest(v) THEN DownloadByDigest ELSE DownloadByTag
\* In the form the client wants; where that fails, the modern one.
DownloadTwice(v) == Download(v) \o <<"logged", "dockerAgain">> \o Download(v)

DockerGet(c) == \E p \in Packages, v \in Versions \cup {DockerDigest[b] : b \in DockerBodies} :
    \E accept \in {"modern"} \cup (IF IsDigest(v) THEN {} ELSE {"schema1"}) :
      Start(c, [NoJob EXCEPT !.op = "dockerGet", !.p = p, !.v = v, !.path = ManifestPath(p, v),
                !.mem = IndexRow(ManifestPath(p, v), "") @@
                        [tag |-> v, accept |-> accept, asks |-> "modern", header |-> ""],
                !.plan = <<"dockerLoad">>])

\* load_cached_manifest, and what the cached manifest leads to: a schema 1 manifest is purged,
\* a digest is served, a tag looks at its side file.
DockerServe(c, b) ==
    IF job[c].mem.accept = "modern" THEN Reply(c, 200, Nothing)
    ELSE job' = [job EXCEPT ![c].mem.asks = "schema1", ![c].plan = DownloadTwice(job[c].v)]
DockerLoad(c) ==
    /\ At(c, "dockerLoad")
    /\ LET path == job[c].path  v == job[c].v IN
       CASE path \notin DOMAIN store ->
              job' = [job EXCEPT ![c].plan = Download(v), ![c].reads = {<<"file", path>>}]
         [] path \in DOMAIN store /\ store[path] = "schema1" ->
              job' = [job EXCEPT ![c].body = "schema1", ![c].reads = {<<"file", path>>},
                        ![c].mem.asks = job[c].mem.accept,
                        ![c].plan = IF IsDigest(v) THEN <<"dockerPurge", "notFound">>
                                    ELSE <<"dockerPurge", "dockerPurgeDigest">> \o DownloadTwice(v)]
         [] path \in DOMAIN store /\ store[path] # "schema1" /\ IsDigest(v) -> DockerServe(c, store[path])
         [] OTHER -> job' = [job EXCEPT ![c].body = store[path], ![c].plan = <<"dockerSideFile">>,
                                        ![c].reads = {<<"file", path>>}]
    /\ UNCHANGED <<worldVars, store, catalogVars, aux, used, historyVars>>
\* Errors of the purge are ignored.
DockerPurge(c) ==
    /\ At(c, "dockerPurge")
    /\ store' = Drop(store, {job[c].path})
    /\ Touch(c, {<<"file", job[c].path>>})
    /\ Advance(c)
    /\ UNCHANGED <<worldVars, catalogVars, aux, used, broken>>
DockerPurgeDigest(c) ==
    /\ At(c, "dockerPurgeDigest")
    /\ LET path == ManifestPath(job[c].p, DockerDigest[job[c].body])
       IN store' = Drop(store, {path}) /\ Touch(c, {<<"file", path>>})
    /\ Advance(c)
    /\ UNCHANGED <<worldVars, catalogVars, aux, used, broken>>

\* revalidate_manifest_tag.  The side file spares the question only if it is about the manifest
\* that is stored.
DockerSideFile(c) ==
    /\ At(c, "dockerSideFile")
    /\ LET path == job[c].path  b == job[c].body IN
       IF path \in DOMAIN aux.meta /\ aux.meta[path].fresh /\ aux.meta[path].digest = b
       THEN DockerServe(c, b) ELSE Goto(c, <<"dockerHead">>)
    /\ UNCHANGED <<worldVars, store, catalogVars, aux, used, historyVars>>
\* Mutant: any answer of the upstream counts as unchanged.
DockerLaxHead(c) ==
    /\ At(c, "dockerHead")
    /\ Goto(c, IF job[c].path \in DOMAIN upstream THEN <<"dockerStamp", "dockerUnchanged">>
               ELSE <<"dockerPurge", "notFound">>)
    /\ UNCHANGED <<worldVars, store, catalogVars, aux, used, historyVars>>
\* Without a digest in the answer the manifest counts as moved.  Its download stamps the side
\* file, and so does the revalidation after it.
DockerHead(c) ==
    /\ At(c, "dockerHead")
    /\ \/ /\ job[c].path \notin DOMAIN upstream
          /\ Goto(c, <<"dockerPurge", "notFound">>)
          /\ UNCHANGED <<used, broken>>
       \/ Fault(c) /\ Goto(c, <<"dockerUnchanged">>)
       \/ /\ job[c].path \in DOMAIN upstream
          /\ \E header \in {"", upstream[job[c].path]} :
               Goto(c, IF header = job[c].body THEN <<"dockerStamp", "dockerUnchanged">>
                       ELSE TagSteps \o <<"dockerStamp", "dockerDone">>)
          /\ UNCHANGED <<used, broken>>
    /\ UNCHANGED <<worldVars, store, catalogVars, aux, raced>>
\* The cached manifest is served, or downloaded in the form the client wants; where that fails
\* it is downloaded once more in the modern form.
DockerUnchanged(c) ==
    /\ At(c, "dockerUnchanged")
    /\ DockerServe(c, job[c].body)
    /\ UNCHANGED <<worldVars, store, catalogVars, aux, used, historyVars>>

\* What the upstream sends: the tag's manifest, perhaps in the old form to who asks for it, or
\* the manifest of the digest.  A wrong body shows in its digest.
DockerSends(c) ==
    IF IsDigest(job[c].v) THEN {DigestBody(job[c].v)}
    ELSE {upstream[path] : path \in {job[c].path} \cap DOMAIN upstream}
         \cup {b \in {"schema1"} : job[c].path \in DOMAIN upstream /\ job[c].mem.asks = "schema1"}
\* Mutant: the digest of what came is not compared with the digest asked for.
DockerTrusts(v, header, b) == TRUE
DockerAccepts(v, header, b) == (header = "" \/ header = b) /\ (IsDigest(v) => b = DigestBody(v))

\* The first answer's digest header is what the body is compared with in the end.
DockerFetch(c) ==
    /\ At(c, "dockerFetch")
    /\ \/ /\ DockerSends(c) = {}
          /\ Abort(c, 404)
          /\ UNCHANGED <<used, broken>>
       \/ \E sent \in DockerSends(c), b \in DockerBodies : \E header \in {"", sent} :
            /\ b = sent \/ header = sent \/ IsDigest(job[c].v)
            /\ IF b = sent THEN UNCHANGED <<used, broken>> ELSE Fault(c)
            /\ IF b = "schema1"
               THEN job' = [job EXCEPT ![c].body = b, ![c].mem.header = header,
                                       ![c].plan = <<"dockerRefetch">> \o Rest(c)]
               ELSE IF DockerAccepts(job[c].v, header, b)
               THEN job' = [job EXCEPT ![c].body = b, ![c].mem.extra = b, ![c].plan = Rest(c)]
               ELSE Abort(c, 500)
    /\ UNCHANGED <<worldVars, store, catalogVars, aux, raced>>
\* A schema 1 manifest is asked for once more in the modern form; it is kept where the upstream
\* has no other.
DockerRefetch(c) ==
    /\ At(c, "dockerRefetch")
    /\ \E b \in {"schema1"} \cup {upstream[path] : path \in {job[c].path} \cap DOMAIN upstream} :
         IF DockerAccepts(job[c].v, job[c].mem.header, b)
         THEN job' = [job EXCEPT ![c].body = b, ![c].mem.extra = b, ![c].plan = Rest(c)]
         ELSE Abort(c, 500)
    /\ UNCHANGED <<worldVars, store, catalogVars, aux, used, historyVars>>

\* write_manifest_file: the file that is there is kept when it is the manifest, else deleted,
\* and the new one saved.  A digest file that is another manifest is an error, which undoes the
\* tag file written before it.
WriteManifest(c, path, digest, undo) ==
    \/ /\ path \in DOMAIN store /\ store[path] = job[c].body
       /\ Goto(c, Tail(Rest(c)))
       /\ UNCHANGED <<store, raced>>
    \/ /\ path \in DOMAIN store /\ store[path] # job[c].body /\ ~digest
       /\ store' = Drop(store, {path}) /\ Touch(c, {<<"file", path>>})
       /\ Advance(c)
    \/ /\ path \in DOMAIN store /\ store[path] # job[c].body /\ digest
       /\ IF undo THEN Goto(c, <<"dockerUndo">> \o Rest(c)) ELSE Abort(c, 500)
       /\ UNCHANGED <<store, raced>>
    \/ /\ path \notin DOMAIN store
       /\ Advance(c)
       /\ UNCHANGED <<store, raced>>
DigestFile(c) == ManifestPath(job[c].p, DockerDigest[job[c].body])
DockerWrite(c) ==
    /\ At(c, "dockerWrite")
    /\ WriteManifest(c, job[c].path, IsDigest(job[c].v), FALSE)
    /\ UNCHANGED <<worldVars, catalogVars, aux, used, broken>>
DockerWriteDigest(c) ==
    /\ At(c, "dockerWriteDigest")
    /\ \/ WriteManifest(c, DigestFile(c), TRUE, TRUE) /\ UNCHANGED used
       \/ CleanFault /\ Goto(c, <<"dockerUndo">> \o Rest(c)) /\ UNCHANGED <<store, raced>>
    /\ UNCHANGED <<worldVars, catalogVars, aux, broken>>
\* The digest file is looked at once more and gets a row of its own.
Becomes(r, v) == [r EXCEPT !.v = v, !.path = ManifestPath(r.p, v), !.mem.path = ManifestPath(r.p, v),
                           !.mem.file = ManifestPath(r.p, v)]
DockerByDigest(c) ==
    /\ At(c, "dockerByDigest")
    /\ job' = [job EXCEPT ![c] = [Becomes(job[c], DockerDigest[job[c].body]) EXCEPT
                   !.plan = IF DigestFile(c) \in DOMAIN store THEN Tail(Rest(c)) ELSE Rest(c)]]
    /\ UNCHANGED <<worldVars, store, catalogVars, aux, used, historyVars>>
\* The download in the form the client asked for failed.
DockerAgain(c) ==
    /\ At(c, "dockerAgain")
    /\ job' = [job EXCEPT ![c] = [Becomes(job[c], job[c].mem.tag) EXCEPT !.plan = Rest(c), !.mem.asks = "modern"]]
    /\ UNCHANGED <<worldVars, store, catalogVars, aux, used, historyVars>>
DockerSave(c) == SaveFetched(c, "dockerSave")
\* Mutant: the tag file stays when its digest file could not be written.
DockerNoUndo(c) ==
    /\ At(c, "dockerSaveDigest")
    /\ \/ /\ store' = Put(store, DigestFile(c), job[c].body)
          /\ Touch(c, {<<"file", DigestFile(c)>>})
          /\ job' = [job EXCEPT ![c].plan = Rest(c), ![c].reads = @ \cup {<<"file", DigestFile(c)>>}]
          /\ UNCHANGED used
       \/ CleanFault /\ Abort(c, 500) /\ UNCHANGED <<store, raced>>
    /\ UNCHANGED <<worldVars, catalogVars, aux, broken>>
DockerSaveDigest(c) ==
    /\ At(c, "dockerSaveDigest")
    /\ \/ /\ store' = Put(store, DigestFile(c), job[c].body)
          /\ Touch(c, {<<"file", DigestFile(c)>>})
          /\ job' = [job EXCEPT ![c].plan = Rest(c), ![c].reads = @ \cup {<<"file", DigestFile(c)>>}]
          /\ UNCHANGED used
       \/ CleanFault /\ Goto(c, <<"dockerUndo">> \o Rest(c)) /\ UNCHANGED <<store, raced>>
    /\ UNCHANGED <<worldVars, catalogVars, aux, broken>>
DockerUndo(c) ==
    /\ At(c, "dockerUndo")
    /\ store' = Drop(store, {job[c].path})
    /\ Touch(c, {<<"file", job[c].path>>})
    /\ Abort(c, 500)
    /\ UNCHANGED <<worldVars, catalogVars, aux, used, broken>>

\* save_manifest_meta, beside the tag file.
DockerStamp(c) ==
    /\ At(c, "dockerStamp")
    /\ aux' = [aux EXCEPT !.meta = Put(@, ManifestPath(job[c].p, job[c].mem.tag),
                                          [digest |-> job[c].body, fresh |-> TRUE])]
    /\ Advance(c)
    /\ UNCHANGED <<worldVars, store, catalogVars, used, historyVars>>
\* The answer streams the temporary file of the download, not what is stored.
DockerDone(c) ==
    /\ At(c, "dockerDone")
    /\ Reply(c, 200, Nothing)
    /\ UNCHANGED <<worldVars, store, catalogVars, aux, used, historyVars>>

-----------------------------------------------------------------------------
(* Blobs, by digest only.                                                  *)

DockerBlobGet(c) == \E p \in Packages, b \in Bodies :
    Start(c, [NoJob EXCEPT !.op = "dockerBlob", !.p = p, !.v = DockerDigest[b], !.path = BlobPath(p, b),
                !.mem = IndexRow(BlobPath(p, b), "") @@
                        [tag |-> 0, accept |-> "modern", asks |-> "modern", header |-> ""],
                !.plan = <<"dockerBlob">>])
DockerBlob(c) ==
    /\ At(c, "dockerBlob")
    /\ IF job[c].path \in DOMAIN store
       THEN job' = [job EXCEPT ![c].body = store[job[c].path], ![c].plan = <<"dockerDone">>]
       ELSE job' = [job EXCEPT ![c].plan = <<"dockerFetch", "dockerSave", "dockerDone">>,
                               ![c].reads = {<<"file", job[c].path>>}]
    /\ UNCHANGED <<worldVars, store, catalogVars, aux, used, historyVars>>
\* The catalog and the tag list are passed through; writes are refused.
DockerPass(c) == \E op \in {"catalog", "tags", "write"} :
    Start(c, Refused("dockerPass", IF op = "write" THEN 405 ELSE 200))

\* The upstream moves or withdraws a tag; the TTL passes, which is longer than any request.
DockerTagMoves == \E path \in DOMAIN upstream, b \in DockerBodies \cup {""} :
    /\ used.changes < used.bound.changes
    /\ used' = [used EXCEPT !.changes = @ + 1]
    /\ upstream[path] # b
    /\ IF b = "" THEN upstream' = Drop(upstream, {path}) /\ UNCHANGED aux
       ELSE upstream' = Put(upstream, path, b) /\ aux' = [aux EXCEPT !.recent[path] = @ \cup {b}]
    /\ UNCHANGED <<kind, storage, store, catalogVars, job, historyVars>>
DockerTtlPasses ==
    /\ Quiescent /\ \E path \in DOMAIN aux.meta : aux.meta[path].fresh
    /\ aux' = [aux EXCEPT !.meta = [path \in DOMAIN @ |-> [@[path] EXCEPT !.fresh = FALSE]],
                          !.recent = [path \in DOMAIN @ |-> {upstream[q] : q \in {path} \cap DOMAIN upstream}]]
    /\ UNCHANGED <<worldVars, store, catalogVars, job, used, historyVars>>

DockerProxyStep(c) ==
    \/ DockerGet(c) \/ DockerLoad(c) \/ DockerPurge(c) \/ DockerPurgeDigest(c) \/ DockerSideFile(c)
    \/ DockerHead(c) \/ DockerUnchanged(c) \/ DockerFetch(c) \/ DockerRefetch(c) \/ DockerWrite(c)
    \/ DockerWriteDigest(c) \/ DockerSave(c) \/ DockerSaveDigest(c) \/ DockerUndo(c)
    \/ DockerByDigest(c) \/ DockerAgain(c) \/ DockerStamp(c) \/ DockerDone(c)
    \/ DockerBlobGet(c) \/ DockerBlob(c) \/ DockerPass(c)

-----------------------------------------------------------------------------
\* A file named after a digest has that digest: whatever the upstream sends, and however
\* downloads, purges and revalidations of the same image interleave.
DockerDigestsGenuine ==
    kind = "dockerProxy" => \A path \in DOMAIN store :
        /\ IsDigest(FileOf(path)[2]) => store[path] = DigestBody(FileOf(path)[2])
        /\ ~HasKey(path) => store[path] = FileOf(path)[1]

\* A tag the proxy serves without asking the upstream is a manifest the upstream's tag has been
\* since the TTL last passed: two refreshes that cross leave no older manifest marked as checked.
DockerFreshTagRecent ==
    kind = "dockerProxy" => \A path \in DOMAIN aux.meta \cap DOMAIN store :
        aux.meta[path].fresh /\ aux.meta[path].digest = store[path]
            => store[path] \in aux.recent[path] \cup {"schema1"}

\* Once the requests are over, the manifest of a cached tag is cached by its digest too, even
\* after a failed download; only a request cut off by a crash or overtaken by a purge leaves a
\* tag without.  (A schema 1 manifest is purged by its digest alone when it is asked for so.)
DockerTagHasDigest ==
    kind = "dockerProxy" /\ Quiescent => \A path \in DOMAIN store :
        LET digest == ManifestPath(FileOf(path)[1], DockerDigest[store[path]]) IN
        HasKey(path) /\ store[path] # "schema1" =>
               \/ digest \in DOMAIN store
               \/ {<<"file", path>>, <<"file", digest>>} \cap (raced \cup broken) # {}
=============================================================================
