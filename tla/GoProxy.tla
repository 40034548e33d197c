------------------------------- MODULE GoProxy -------------------------------
(***************************************************************************)
(* The Go proxy.  An answer of the upstream is cached with the time it was *)
(* stored; once it is older than the TTL the entry is deleted by the next  *)
(* request that reads it and fetched again.  aux.stale is the set of the   *)
(* entries whose TTL has passed.  Errors of the cache are only logged.     *)
(***************************************************************************)
EXTENDS ProxyCache, GoHosted

GoProxyInit == [stale |-> {}]
GoCacheList(p) == GoBase \o <<Dir(p), Dir("@v"), Dir("list")>>
GoProxyPaths == {GoCacheList(p) : p \in Packages}
                \cup UNION {GoFiles(p, v) : p \in Packages, v \in Versions}
GoUpstream == [path \in GoProxyPaths |-> CHOOSE b \in Bodies : TRUE]

\* Only an archive is recorded in the catalog.
GoProxyGet(c) == \E path \in GoProxyPaths :
    Start(c, Wanted("goProxyGet", IF HasKey(path) THEN FileOf(path)[1] ELSE Blank, FileOf(path)[2], path,
                    <<"goCached", "goFetch", "goStore">>
                    \o (IF FileOf(path)[3] = "zip" THEN IndexSteps ELSE <<>>) \o <<"logged", "goAnswer">>))

\* A HEAD deletes an expired entry too, but passes the upstream's answer on without storing it.
GoProxyHead(c) == \E path \in GoProxyPaths :
    Start(c, Wanted("goProxyHead", IF HasKey(path) THEN FileOf(path)[1] ELSE Blank, FileOf(path)[2], path,
                    <<"goCached", "passThrough">>))

\* get_cached_content: what is in the cache and not too old; an expired entry is deleted.
GoCached(c) ==
    /\ At(c, "goCached")
    /\ \/ /\ job[c].path \in DOMAIN store \ aux.stale
          /\ Reply(c, 200, Shows(store[job[c].path]))
       \/ /\ job[c].path \notin DOMAIN store \ aux.stale
          /\ job' = [job EXCEPT ![c].reads = {Key(c), <<"file", job[c].path>>},
               ![c].plan = (IF job[c].path \in DOMAIN store THEN <<"goExpire">> ELSE <<>>) \o Rest(c)]
    /\ UNCHANGED <<worldVars, store, catalogVars, aux, used, historyVars>>
GoExpire(c) ==
    /\ At(c, "goExpire")
    /\ store' = Drop(store, {job[c].path})
    /\ Advance(c)
    /\ UNCHANGED <<worldVars, catalogVars, aux, used, historyVars>>

\* proxy_from_route, one route after the other.
GoFetch(c) == FetchUpstream(c, "goFetch", <<"notFound">>)
\* cache_content: the entry with its time.
GoStore(c) ==
    /\ At(c, "goStore")
    /\ store' = Put(store, job[c].path, job[c].body)
    /\ aux' = [aux EXCEPT !.stale = @ \ {job[c].path}]
    /\ Touch(c, {<<"file", job[c].path>>})
    /\ Advance(c)
    /\ UNCHANGED <<worldVars, catalogVars, used, broken>>
GoAnswer(c) ==
    /\ At(c, "goAnswer")
    /\ Reply(c, 200, Shows(job[c].body))
    /\ UNCHANGED <<worldVars, store, catalogVars, aux, used, historyVars>>

\* Time passes: the TTL of an entry is over.
GoTtlPasses == \E path \in DOMAIN store \ aux.stale :
    /\ used.changes < used.bound.changes
    /\ used' = [used EXCEPT !.changes = @ + 1]
    /\ aux' = [aux EXCEPT !.stale = @ \cup {path}]
    /\ UNCHANGED <<worldVars, store, catalogVars, job, historyVars>>

\* The deletion reads the cached list with its time stamp in front: where those bytes are not
\* UTF-8 the deletion stops there, else the list is saved without the version.
GoProxyDelete(c) == \E p \in Packages, v \in Versions, ext \in GoSuffixes :
    /\ GoFile(p, v, ext) \in Deletable
    /\ Start(c, GoDeletion(p, v, ext, <<"goProxyList">>))
GoProxyList(c) ==
    /\ At(c, "goProxyList")
    /\ \/ Advance(c) /\ UNCHANGED broken
       \/ /\ GoCacheList(job[c].p) \in DOMAIN store
          /\ Abort(c, 200)
          /\ broken' = broken \cup {Key(c)}
    /\ UNCHANGED <<worldVars, store, catalogVars, aux, used, raced>>
GoEvict(c) ==
    /\ At(c, "goEvict")
    /\ LET keys == DOMAIN rows \cap {Key(c)}
       IN rows' = Drop(rows, keys) /\ files' = WithoutVersions(keys) /\ Touch(c, keys)
    /\ Advance(c)
    /\ UNCHANGED <<worldVars, store, projects, aux, used, broken>>

GoProxyStep(c) ==
    \/ GoProxyGet(c) \/ GoProxyHead(c) \/ GoCached(c) \/ GoExpire(c) \/ GoFetch(c) \/ GoStore(c) \/ GoAnswer(c)
    \/ GoProxyDelete(c) \/ GoEraseZip(c) \/ GoEraseMod(c) \/ GoEraseInfo(c) \/ GoProxyList(c)
    \/ GoDeleted(c) \/ GoEvict(c) \/ GoRows(c)
=============================================================================
