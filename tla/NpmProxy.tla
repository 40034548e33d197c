------------------------------- MODULE NpmProxy -------------------------------
(***************************************************************************)
(* The npm proxy.  A tarball is cached under packages/, a package document *)
(* under metadata-v2/ and never refreshed while it is there.  Caching a    *)
(* document records every version the document lists, cached or not.       *)
(***************************************************************************)
EXTENDS ProxyCache

NpmCachePath(p, v) == <<Dir("packages"), Dir(p), File(p, v, "tgz")>>
NpmDocumentPath(p) == <<Dir("metadata-v2"), Dir(p), Dir("document")>>
NpmUpstream == [path \in {NpmCachePath(p, v) : p \in Packages, v \in Versions}
                         \cup {NpmDocumentPath(p) : p \in Packages} |->
                  CHOOSE b \in Bodies : TRUE]

NpmFill == <<"npmCached", "npmFetch", "npmSave">>
NpmCached(c) == CacheLookup(c, "npmCached")
NpmFetch(c) == FetchUpstream(c, "npmFetch", <<"passThrough">>)
NpmSave(c) == SaveFetched(c, "npmSave")

NpmServe(c) == ServeOrPass(c, "npmServe")

\* An indexing error fails the request.
NpmProxyGet(c) == \E p \in Packages, v \in Versions :
    Start(c, Wanted("npmProxyGet", p, v, NpmCachePath(p, v),
                    NpmFill \o IndexSteps \o <<"npmServe">>))
NpmProxyDocument(c) == \E p \in Packages :
    Start(c, [Wanted("npmProxyDocument", p, 0, NpmDocumentPath(p), NpmFill \o <<"npmDocument">>)
                EXCEPT !.mem.todo = Versions])

\* A HEAD downloads and caches what is missing like a GET, and answers without the content.
NpmProxyHead(c) == NpmProxyGet(c) \/ NpmProxyDocument(c)

\* record_npm_metadata_cache_hit, one version of the document after the other.
NpmIndexDocument(c) ==
    /\ At(c, "npmDocument")
    /\ \/ \E v \in job[c].mem.todo :
            job' = [job EXCEPT ![c].v = v, ![c].plan = IndexSteps \o <<"npmDocument">>,
                        ![c].mem = [IndexRow(NpmCachePath(job[c].p, v), job[c].body)
                                      EXCEPT !.todo = job[c].mem.todo \ {v}]]
       \/ job[c].mem.todo = {} /\ Goto(c, <<"npmServe">>)
    /\ UNCHANGED <<worldVars, store, catalogVars, aux, used, historyVars>>

NpmProxyStep(c) ==
    \/ NpmCached(c) \/ NpmFetch(c) \/ NpmSave(c) \/ NpmServe(c)
    \/ NpmProxyGet(c) \/ NpmProxyDocument(c) \/ NpmProxyHead(c) \/ NpmIndexDocument(c)
    \/ DeletePackages(c)
=============================================================================
