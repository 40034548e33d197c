------------------------------ MODULE ProxyCache ------------------------------
(***************************************************************************)
(* What the proxy repositories share: a request looks in the storage,      *)
(* fetches what is missing from the upstream, saves it, records it in the  *)
(* catalog and answers with the stored file.  The catalog is written by    *)
(* DatabaseProxyIndexer: find or insert the project, delete the version's  *)
(* old row, insert the new one.  Nothing locks a path between the look-up  *)
(* and the save, so two requests may download the same artifact.           *)
(***************************************************************************)
EXTENDS PackageDeletion

\* The catalog key a cached file's name and place spell out.
CacheKey(path) == <<FileOf(path)[1], FileOf(path)[2]>>
\* The cached files a proxy records: of a Go module only the archive, of a Python package the
\* copy under packages/.
Artifacts == {path \in DOMAIN store :
                 /\ HasKey(path)
                 /\ kind = "goProxy" => FileOf(path)[3] = "zip"
                 /\ kind = "pythonProxy" => path[1] = Dir("packages")}

\* Mutant: the version is not inserted.
IndexProject == <<"project">>
IndexSteps == <<"project", "indexFind", "newVersion">>
IndexRow(path, body) == [path |-> path, file |-> path, extra |-> body, todo |-> {}]

\* A request for a file of the upstream.
Wanted(op, p, v, path, plan) ==
    [NoJob EXCEPT !.op = op, !.p = p, !.v = v, !.path = path, !.plan = plan,
                  !.mem = IndexRow(path, Blank)]

\* Mutant: the cache is not looked at.
CacheSkipped(c, step) ==
    /\ At(c, step) /\ Advance(c)
    /\ UNCHANGED <<worldVars, store, catalogVars, aux, used, historyVars>>

\* Look in the cache.
CacheLookup(c, step) ==
    /\ At(c, step)
    /\ IF job[c].path \in DOMAIN store THEN Reply(c, 200, Shows(store[job[c].path]))
       ELSE job' = [job EXCEPT ![c].plan = Rest(c), ![c].reads = @ \cup {<<"file", job[c].path>>}]
    /\ UNCHANGED <<worldVars, store, catalogVars, aux, used, historyVars>>

\* What the upstream lists but serves no more.
Withdrawn == "withdrawn"
Served(path) == IF path \in DOMAIN upstream THEN upstream[path] # Withdrawn ELSE FALSE

\* Ask the upstream routes in turn.  A route that fails or answers with an error is skipped;
\* when none has the file the request goes on with otherwise.
FetchUpstream(c, step, otherwise) ==
    /\ At(c, step)
    /\ \/ /\ Served(job[c].path)
          /\ job' = [job EXCEPT ![c].plan = Rest(c), ![c].body = upstream[job[c].path],
                                ![c].mem.extra = upstream[job[c].path]]
          /\ UNCHANGED <<used, broken>>
       \/ /\ ~Served(job[c].path)
          /\ Goto(c, otherwise)
          /\ UNCHANGED <<used, broken>>
       \/ Fault(c) /\ Goto(c, otherwise)
    /\ UNCHANGED <<worldVars, store, catalogVars, aux, raced>>

SaveFetched(c, step) ==
    /\ At(c, step)
    /\ store' = Put(store, job[c].path, job[c].body)
    /\ Touch(c, {<<"file", job[c].path>>})
    /\ Advance(c)
    /\ UNCHANGED <<worldVars, catalogVars, aux, used, broken>>

\* The stored file is opened again for the answer.
ServeStored(c) ==
    /\ At(c, "serve")
    /\ IF job[c].path \in DOMAIN store THEN Reply(c, 200, Shows(store[job[c].path])) ELSE Reply(c, 404, Nothing)
    /\ UNCHANGED <<worldVars, store, catalogVars, aux, used, historyVars>>

\* Where the stored file is gone again, or no route delivered it, the routes are asked once
\* more and the answer passed through without being stored.
ServeOrPass(c, step) ==
    /\ At(c, step)
    /\ IF job[c].path \in DOMAIN store THEN Reply(c, 200, Shows(store[job[c].path]))
       ELSE Goto(c, <<"passThrough">>)
    /\ UNCHANGED <<worldVars, store, catalogVars, aux, used, historyVars>>
PassThrough(c) ==
    /\ At(c, "passThrough")
    /\ IF Served(job[c].path) THEN Reply(c, 200, Shows(upstream[job[c].path]))
       ELSE Reply(c, 404, Nothing)
    /\ UNCHANGED <<worldVars, store, catalogVars, aux, used, historyVars>>

\* Nothing to serve.
NotFound(c) ==
    /\ At(c, "notFound")
    /\ Reply(c, 404, Nothing)
    /\ UNCHANGED <<worldVars, store, catalogVars, aux, used, historyVars>>

\* record_cached_artifact: the version's row is looked up, deleted by its id, inserted anew.
IndexFind(c) ==
    /\ At(c, "indexFind")
    /\ IF Key(c) \in DOMAIN rows
       THEN job' = [job EXCEPT ![c].plan = <<"indexDelete">> \o Rest(c), ![c].row = rows[Key(c)].id]
       ELSE Advance(c)
    /\ UNCHANGED <<worldVars, store, catalogVars, aux, used, historyVars>>
IndexDelete(c) ==
    /\ At(c, "indexDelete")
    /\ LET keys == {k \in DOMAIN rows : rows[k].id = job[c].row}
       IN rows' = Drop(rows, keys) /\ files' = WithoutVersions(keys)
    /\ Advance(c)
    /\ UNCHANGED <<worldVars, store, projects, aux, used, historyVars>>

\* Mutant: the version stays in the catalog.
EvictNothing(c) ==
    /\ At(c, "evict") /\ Advance(c)
    /\ UNCHANGED <<worldVars, store, catalogVars, aux, used, historyVars>>

\* handle_external_eviction: the deletion of a cached file takes its version from the catalog.
EvictCached(c) ==
    /\ At(c, "evict")
    /\ LET keys == {k \in DOMAIN rows : HasKey(job[c].mem.cur) /\ k = CacheKey(job[c].mem.cur)}
       IN rows' = Drop(rows, keys) /\ files' = WithoutVersions(keys) /\ Touch(c, keys)
    /\ Advance(c)
    /\ UNCHANGED <<worldVars, store, projects, aux, used, broken>>

\* The upstream publishes, replaces or withdraws a file on its own.
UpstreamChanges == \E path \in DOMAIN upstream, b \in Bodies \cup {Withdrawn} :
    /\ used.changes < used.bound.changes
    /\ used' = [used EXCEPT !.changes = @ + 1]
    /\ upstream[path] # b /\ upstream' = Put(upstream, path, b)
    /\ UNCHANGED <<kind, storage, store, catalogVars, aux, job, historyVars>>

ProxySteps(c) ==
    \/ ServeStored(c) \/ PassThrough(c) \/ NotFound(c)
    \/ IndexFind(c) \/ IndexDelete(c) \/ EvictCached(c)

-----------------------------------------------------------------------------
ProxyKinds == {"npmProxy", "mavenProxy", "pythonProxy", "phpProxy", "goProxy",
               "rubyProxy", "nugetProxy", "debProxy", "dockerProxy"}

\* A cached artifact, and a package of the hosted formats that refuse to replace one, keeps its
\* content until it is deleted: only a request that missed it before it was stored may
\* replace it.
ReplacesArtifact(path) ==
    path \in DOMAIN store \cap DOMAIN store' /\ HasKey(path) /\ store'[path] # store[path]
KeepsArtifacts ==
    kind \in (ProxyKinds \ {"dockerProxy"}) \cup {"nuget"} => \A path \in DOMAIN store :
        ReplacesArtifact(path) => <<"file", path>> \in raced'
ArtifactsStable == [][KeepsArtifacts]_vars

\* Once the requests are over, a cached artifact is in the catalog, unless a request about its
\* version failed half way or ran beside a deletion.  (The files of a Maven version share one
\* row, which leaves with the first of them that is deleted.)
CachedIsCatalogued ==
    kind \in ProxyKinds \ {"mavenProxy"} /\ Quiescent => \A path \in Artifacts :
        \/ CacheKey(path) \in DOMAIN rows
        \/ {CacheKey(path), <<"file", path>>} \cap (broken \cup raced) # {}

\* Conversely a version in the catalog has a cached file, with the same excuses.  (An npm or
\* Composer document catalogues all the versions it lists; an expired Go archive and
\* a withdrawn Docker tag leave their rows.)
CataloguedIsCached ==
    kind \in ProxyKinds \ {"npmProxy", "goProxy", "phpProxy", "dockerProxy"} /\ Quiescent =>
      \A k \in DOMAIN rows :
        ~Excused(k) => \E path \in DOMAIN store : Under(rows[k].path, path)
=============================================================================
