--------------------------------- MODULE Deb ---------------------------------
(***************************************************************************)
(* The hosted Debian repository, its proxy and the refresh of a proxy's    *)
(* offline mirror.  An upload saves the package before it looks in the     *)
(* catalog; the Packages and Release files are made from the catalog at    *)
(* every request.  The refresh stores the upstream's Release and Packages, *)
(* then downloads every package they list that is not there yet.           *)
(***************************************************************************)
EXTENDS ProxyCache, TLC

DebPath(p, v) == <<Dir("pool"), Dir(p), File(p, v, "deb")>>
DebIndexPath == <<Dir("dists"), Dir("Packages")>>
DebReleasePath == <<Dir("dists"), Dir("Release")>>

\* An upload without a package, or of an architecture or for a distribution that is not
\* configured, is refused.
DebUploads == {"package", "incomplete", "unsupported", "unreadable"}
DebUpload(c) == \E p \in Packages, v \in Versions, b \in Bodies, upload \in DebUploads :
    Start(c, IF upload # "package" THEN Refused("debUpload", 400)
             ELSE [NoJob EXCEPT !.op = "debUpload", !.p = p, !.v = v, !.body = b, !.path = DebPath(p, v),
                     !.mem = IndexRow(DebPath(p, v), b),
                     !.plan = <<"debPackage", "project", "debExists", "newVersion", "debDone">>])
DebSavePackage(c) ==
    /\ At(c, "debPackage")
    /\ store' = Put(store, job[c].path, job[c].body)
    /\ Touch(c, {Key(c), <<"file", job[c].path>>})
    /\ job' = [job EXCEPT ![c].plan = Rest(c), ![c].reads = {Key(c), <<"file", job[c].path>>}]
    /\ UNCHANGED <<worldVars, catalogVars, aux, used, broken>>
\* A version that is in the catalog is refused, when its file has been replaced already.
DebExists(c) ==
    /\ At(c, "debExists")
    /\ IF Key(c) \in DOMAIN rows THEN Reply(c, 400, Nothing) ELSE Advance(c)
    /\ UNCHANGED <<worldVars, store, catalogVars, aux, used, historyVars>>
DebDone(c) ==
    /\ At(c, "debDone")
    /\ Reply(c, 201, Nothing)
    /\ UNCHANGED <<worldVars, store, catalogVars, aux, used, historyVars>>

\* build_packages_index: the rows of one query; the Release file gives its checksum.
DebPackagesIndex == [k \in DOMAIN rows |-> rows[k].extra]
DebIndexGet(c) == \E file \in {"Packages", "Release", "unsigned", "unknown"} :
    Start(c, [Refused("debIndex", IF file \in {"Packages", "Release"} THEN 200 ELSE 404)
                EXCEPT !.got = [index |-> DebPackagesIndex]])
DebGet(c) == \E p \in Packages, v \in Versions :
    Start(c, Refused("debGet", IF DebPath(p, v) \in DOMAIN store THEN 200 ELSE 404))

DebHostedStep(c) ==
    \/ DebUpload(c) \/ DebSavePackage(c) \/ DebExists(c) \/ DebDone(c)
    \/ DebIndexGet(c) \/ DebGet(c) \/ DeletePackages(c)

-----------------------------------------------------------------------------
(* The proxy and its refresh.  aux holds the index files of the mirror,    *)
(* each the checksums the upstream's packages had when it was fetched.     *)

DebProxyInit == [release |-> EmptyMap, packages |-> EmptyMap]
DebUpstream == [path \in {DebPath(p, v) : p \in Packages, v \in Versions} |-> CHOOSE b \in Bodies : TRUE]

DebProxyGet(c) == \E path \in DOMAIN upstream :
    Start(c, Wanted("debProxyGet", FileOf(path)[1], FileOf(path)[2], path,
                    <<"debOpen", "debStat", "debFetch", "debSave">> \o IndexSteps \o <<"serve">>))
DebOpen(c) == CacheLookup(c, "debOpen")
DebStat(c) == CacheLookup(c, "debStat")
DebFetch(c) == FetchUpstream(c, "debFetch", <<"notFound">>)
DebSave(c) == SaveFetched(c, "debSave")

\* A client's request caches an index file that is not there; only a refresh replaces it.
DebProxyIndexGet(c) == \E file \in {"release", "packages"} :
    /\ kind = "debProxy"
    /\ Start(c, IF aux[file] # EmptyMap THEN Refused("debProxyIndex", 200)
                ELSE [NoJob EXCEPT !.op = "debProxyIndex", !.plan = <<"debIndexFetch">>, !.p = file])
DebProxyIndexFetch(c) ==
    /\ At(c, "debIndexFetch")
    /\ aux' = [aux EXCEPT ![job[c].p] = upstream]
    /\ Reply(c, 200, Nothing)
    /\ UNCHANGED <<worldVars, store, catalogVars, used, historyVars>>

\* One refresh at a time: the caller holds the advisory lock of MaintenanceLock.
DebRefresh(c) ==
    /\ Running("debRefresh") = {}
    /\ Start(c, [NoJob EXCEPT !.op = "debRefresh", !.plan = <<"debRelease", "debPackages">>,
                              !.mem = IndexRow(<<>>, Blank) @@ [index |-> EmptyMap, fetched |-> {}, missing |-> {}]])
DebRefreshRelease(c) ==
    /\ At(c, "debRelease")
    /\ aux' = [aux EXCEPT !.release = upstream]
    /\ Advance(c)
    /\ UNCHANGED <<worldVars, store, catalogVars, used, historyVars>>
DebRefreshPackages(c) ==
    /\ At(c, "debPackages")
    /\ aux' = [aux EXCEPT !.packages = upstream]
    /\ job' = [job EXCEPT ![c].plan = <<"debEntry">>, ![c].mem.index = upstream,
                          ![c].mem.todo = DOMAIN upstream]
    /\ UNCHANGED <<worldVars, store, catalogVars, used, historyVars>>
DebEntry(c) ==
    /\ At(c, "debEntry")
    /\ LET s == job[c].mem IN
       \/ \E path \in s.todo :
            job' = [job EXCEPT ![c].path = path, ![c].p = FileOf(path)[1], ![c].v = FileOf(path)[2],
                      ![c].mem.todo = @ \ {path}, ![c].mem.path = path, ![c].mem.file = path,
                      ![c].reads = @ \cup {<<"file", path>>},
                      ![c].plan = IF path \in DOMAIN store THEN <<"debEntry">>
                                  ELSE <<"debDownload", "debMirror">> \o IndexSteps \o <<"debEntry">>]
       \/ s.todo = {} /\ Goto(c, <<"debRefreshed">>)
    /\ UNCHANGED <<worldVars, store, catalogVars, aux, used, historyVars>>
\* Mutant: the checksum of the index is not compared with what came.
DebUnchecked(c) ==
    /\ At(c, "debDownload") /\ Served(job[c].path)
    /\ job' = [job EXCEPT ![c].plan = Rest(c), ![c].body = upstream[job[c].path],
                          ![c].mem.extra = upstream[job[c].path]]
    /\ UNCHANGED <<worldVars, store, catalogVars, aux, used, historyVars>>
\* A package whose size or checksum is not the index's ends the refresh with an error; one the
\* upstream has no more is passed over.
DebDownload(c) ==
    /\ At(c, "debDownload")
    /\ IF ~Served(job[c].path)
       THEN job' = [job EXCEPT ![c].plan = <<"debEntry">>, ![c].mem.missing = @ \cup {job[c].path}]
       ELSE IF upstream[job[c].path] = job[c].mem.index[job[c].path]
       THEN job' = [job EXCEPT ![c].plan = Rest(c), ![c].body = upstream[job[c].path],
                               ![c].mem.extra = upstream[job[c].path]]
       ELSE Reply(c, 500, Nothing)
    /\ UNCHANGED <<worldVars, store, catalogVars, aux, used, historyVars>>
DebMirror(c) ==
    /\ At(c, "debMirror")
    /\ store' = Put(store, job[c].path, job[c].body)
    /\ Touch(c, {<<"file", job[c].path>>})
    /\ job' = [job EXCEPT ![c].plan = Rest(c), ![c].mem.fetched = @ \cup {job[c].path}]
    /\ UNCHANGED <<worldVars, catalogVars, aux, used, broken>>
DebRefreshed(c) ==
    /\ At(c, "debRefreshed")
    /\ Reply(c, 200, Nothing)
    /\ UNCHANGED <<worldVars, store, catalogVars, aux, used, historyVars>>

DebProxyStep(c) ==
    \/ DebProxyGet(c) \/ DebOpen(c) \/ DebStat(c) \/ DebFetch(c) \/ DebSave(c)
    \/ DebProxyIndexGet(c) \/ DebProxyIndexFetch(c)
    \/ DebRefresh(c) \/ DebRefreshRelease(c) \/ DebRefreshPackages(c) \/ DebEntry(c)
    \/ DebDownload(c) \/ DebMirror(c) \/ DebRefreshed(c) \/ DeletePackages(c)

\* When a refresh is about to report success, every package of the index it stored is in the
\* mirror, but those the upstream did not have, and what it downloaded is what the index
\* describes, unless a deletion or another download of the package ran beside it.
DebMirrorComplete ==
    kind = "debProxy" => \A c \in Clients : At(c, "debRefreshed") =>
        \A path \in DOMAIN job[c].mem.index \ job[c].mem.missing :
            \/ <<"file", path>> \in raced
            \/ /\ path \in DOMAIN store
               /\ path \in job[c].mem.fetched => store[path] = job[c].mem.index[path]
=============================================================================
