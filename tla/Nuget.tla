-------------------------------- MODULE Nuget --------------------------------
(***************************************************************************)
(* The hosted NuGet repository and the NuGet proxy.  A hosted package is   *)
(* refused if its archive is stored already; else the archive, the nuspec  *)
(* and then the catalog are written.  The proxy learns the addresses of    *)
(* the upstream once (aux.known) and keeps what it fetches until it is     *)
(* deleted; every hit of an archive writes its catalog row again.          *)
(***************************************************************************)
EXTENDS ProxyCache

NugetDir(p, v) == <<Dir("flatcontainer"), Dir(p), File(Blank, v, Blank)>>
NugetArchive(p, v) == NugetDir(p, v) \o <<File(p, v, "nupkg")>>
NugetNuspec(p, v) == NugetDir(p, v) \o <<Dir("nuspec")>>
NugetIndexPath(p) == <<Dir("registration"), Dir(p), Dir("index.json")>>
NugetMem(p, v, path, b) == [IndexRow(path, b) EXCEPT !.file = path]

\* A push whose form, archive or nuspec cannot be read is refused.
NugetPushes == {"package", "unreadable"}
NugetPublish(c) == \E p \in Packages, v \in Versions, b \in Bodies, push \in NugetPushes :
    Start(c, IF push = "unreadable" THEN Refused("nugetPublish", 400)
             ELSE [NoJob EXCEPT !.op = "nugetPublish", !.p = p, !.v = v, !.body = b,
                     !.path = NugetArchive(p, v), !.mem = NugetMem(p, v, NugetDir(p, v), b),
                     !.plan = <<"nugetExists", "nugetArchive", "nugetNuspec", "project",
                                "nugetHostedVersion", "nugetDone">>])
\* Mutant: a package that is stored is published again.
NugetOverwrite(c) ==
    /\ At(c, "nugetExists")
    /\ job' = [job EXCEPT ![c].plan = Rest(c)]
    /\ UNCHANGED <<worldVars, store, catalogVars, aux, used, historyVars>>
NugetExists(c) ==
    /\ At(c, "nugetExists")
    /\ IF job[c].path \in DOMAIN store THEN Reply(c, 409, Nothing)
       ELSE job' = [job EXCEPT ![c].plan = Rest(c),
                      ![c].reads = {Key(c), <<"file", job[c].path>>, <<"file", NugetDir(job[c].p, job[c].v)>>}]
    /\ UNCHANGED <<worldVars, store, catalogVars, aux, used, historyVars>>
NugetSave(c, step, path) ==
    /\ At(c, step)
    /\ store' = Put(store, path, job[c].body)
    /\ Touch(c, {Key(c), <<"file", path>>, <<"file", NugetDir(job[c].p, job[c].v)>>})
    /\ Advance(c)
    /\ UNCHANGED <<worldVars, catalogVars, aux, used, broken>>
NugetSaveArchive(c) == NugetSave(c, "nugetArchive", NugetArchive(job[c].p, job[c].v))
\* The nuspec; the index files a repository once stored are deleted, there are none.
NugetSaveNuspec(c) == NugetSave(c, "nugetNuspec", NugetNuspec(job[c].p, job[c].v))
NugetHostedVersion(c) ==
    /\ At(c, "nugetHostedVersion")
    /\ Goto(c, IF Key(c) \in DOMAIN rows THEN Rest(c) ELSE <<"newVersion">> \o Rest(c))
    /\ UNCHANGED <<worldVars, store, catalogVars, aux, used, historyVars>>
NugetDone(c) ==
    /\ At(c, "nugetDone")
    /\ Reply(c, 201, Nothing)
    /\ UNCHANGED <<worldVars, store, catalogVars, aux, used, historyVars>>

\* The version index and the registration: the catalogued versions whose nuspec is stored.
NugetVersions(p) == {v \in VersionsOf(p) : NugetNuspec(p, v) \in DOMAIN store}
NugetIndex(c) == \E p \in Packages :
    Start(c, Refused("nugetIndex", IF NugetVersions(p) = {} THEN 404 ELSE 200))
NugetGet(c) == \E p \in Packages, v \in Versions :
    Start(c, Refused("nugetGet", IF NugetArchive(p, v) \in DOMAIN store THEN 200 ELSE 404))

NugetHostedStep(c) ==
    \/ NugetPublish(c) \/ NugetExists(c) \/ NugetSaveArchive(c) \/ NugetSaveNuspec(c)
    \/ NugetHostedVersion(c) \/ NugetDone(c) \/ NugetIndex(c) \/ NugetGet(c) \/ DeletePackages(c)

-----------------------------------------------------------------------------
(* The proxy.                                                              *)

NugetProxyInit == [known |-> FALSE]
NugetUpstream == [path \in {NugetArchive(p, v) : p \in Packages, v \in Versions}
                           \cup {NugetIndexPath(p) : p \in Packages} |-> CHOOSE b \in Bodies : TRUE]

NugetProxyGet(c) == \E path \in DOMAIN upstream :
    Start(c, Wanted("nugetProxyGet", IF HasKey(path) THEN FileOf(path)[1] ELSE Blank, FileOf(path)[2], path,
                    <<"nugetDiscover", "nugetCached", "nugetFetch", "nugetKeep">>))
\* discover_resources: the service index of the upstream, asked for once.
NugetDiscover(c) ==
    /\ At(c, "nugetDiscover")
    /\ aux' = [known |-> TRUE]
    /\ Advance(c)
    /\ UNCHANGED <<worldVars, store, catalogVars, used, historyVars>>
NugetIndexing == <<"project", "nugetVersion", "logged", "serve">>
NugetCached(c) ==
    /\ At(c, "nugetCached")
    /\ \/ /\ job[c].path \in DOMAIN store
          /\ job' = [job EXCEPT ![c].plan = IF HasKey(job[c].path) THEN NugetIndexing ELSE <<"serve">>,
                                ![c].mem.extra = store[job[c].path],
                                ![c].reads = {<<"file", job[c].path>>, Key(c)}]
       \/ /\ job[c].path \notin DOMAIN store
          /\ job' = [job EXCEPT ![c].plan = Rest(c), ![c].reads = {<<"file", job[c].path>>, Key(c)}]
    /\ UNCHANGED <<worldVars, store, catalogVars, aux, used, historyVars>>
NugetFetch(c) == FetchUpstream(c, "nugetFetch", <<"notFound">>)
NugetKeep(c) ==
    /\ At(c, "nugetKeep")
    /\ store' = Put(store, job[c].path, job[c].body)
    /\ Touch(c, {<<"file", job[c].path>>})
    /\ Goto(c, IF HasKey(job[c].path) THEN NugetIndexing ELSE <<"serve">>)
    /\ UNCHANGED <<worldVars, catalogVars, aux, used, broken>>
\* upsert_proxy_metadata: update the row or insert it.
NugetVersion(c) ==
    /\ At(c, "nugetVersion")
    /\ IF Key(c) \in DOMAIN rows
       THEN job' = [job EXCEPT ![c].plan = <<"updateVersion">> \o Rest(c), ![c].row = rows[Key(c)].id]
       ELSE Goto(c, <<"newVersion">> \o Rest(c))
    /\ UNCHANGED <<worldVars, store, catalogVars, aux, used, historyVars>>

NugetProxyStep(c) ==
    \/ NugetProxyGet(c) \/ NugetDiscover(c) \/ NugetCached(c) \/ NugetFetch(c) \/ NugetKeep(c)
    \/ NugetVersion(c) \/ DeletePackages(c)
=============================================================================
