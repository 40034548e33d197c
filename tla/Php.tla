--------------------------------- MODULE Php ---------------------------------
(***************************************************************************)
(* The hosted Composer repository and its proxy.  An upload saves the      *)
(* archive, appends an entry to the package's document (p2/...json, read,  *)
(* extended, written to a temporary name and moved into place) and inserts *)
(* the version.  The temporary name is the same for every request.  The    *)
(* proxy rewrites and caches the upstream's documents, records every       *)
(* version they list, and finds the address of an archive in that record.  *)
(***************************************************************************)
EXTENDS ProxyCache, TLC

PhpDist(p, v) == <<Dir("dist"), Dir(p), File(p, v, "zip")>>
\* A package has a document for its releases and one for its development versions.
PhpDoc(p, v) == <<p, v \in Prereleases>>
PhpDocs == {PhpDoc(p, v) : p \in Packages, v \in Versions}

\* A document is a sequence of entries, a version and the checksum of its archive; tmp holds
\* the temporary files that exist.
PhpInit == [docs |-> [d \in PhpDocs |-> <<>>], tmp |-> EmptyMap]
PhpDocRes(c) == <<"doc", PhpDoc(job[c].p, job[c].v)>>

\* An upload outside dist/, without composer.json or of another package is refused.
PhpUploads == {"archive", "elsewhere", "unreadable", "mismatch"}
PhpUpload(c) == \E p \in Packages, v \in Versions, b \in Bodies, upload \in PhpUploads :
    Start(c, IF upload # "archive" THEN Refused("phpUpload", 400)
             ELSE [NoJob EXCEPT !.op = "phpUpload", !.p = p, !.v = v, !.body = b, !.path = PhpDist(p, v),
                     !.mem = IndexRow(PhpDist(p, v), b) @@ [doc |-> <<>>],
                     !.plan = <<"phpDist", "phpRead", "phpTmp", "phpMove", "project", "phpVersion",
                                "phpDone">>])
PhpSaveDist(c) ==
    /\ At(c, "phpDist")
    /\ store' = Put(store, job[c].path, job[c].body)
    /\ Touch(c, {Key(c), <<"file", job[c].path>>})
    /\ job' = [job EXCEPT ![c].plan = Rest(c), ![c].reads = {Key(c), <<"file", job[c].path>>}]
    /\ UNCHANGED <<worldVars, catalogVars, aux, used, broken>>
\* Mutant: the document starts over with every upload.
PhpForgetDoc(c) ==
    /\ At(c, "phpRead")
    /\ job' = [job EXCEPT ![c].plan = Rest(c), ![c].reads = @ \cup {PhpDocRes(c)},
                          ![c].mem.doc = <<<<job[c].v, job[c].body>>>>]
    /\ UNCHANGED <<worldVars, store, catalogVars, aux, used, historyVars>>
\* load_metadata and add_version, which appends whether or not the version is listed.
PhpReadDoc(c) ==
    /\ At(c, "phpRead")
    /\ job' = [job EXCEPT ![c].plan = Rest(c), ![c].reads = @ \cup {PhpDocRes(c)},
                          ![c].mem.doc = Append(aux.docs[PhpDoc(job[c].p, job[c].v)],
                                                <<job[c].v, job[c].body>>)]
    /\ UNCHANGED <<worldVars, store, catalogVars, aux, used, historyVars>>
PhpWriteTmp(c) ==
    /\ At(c, "phpTmp")
    /\ aux' = [aux EXCEPT !.tmp = Put(@, PhpDoc(job[c].p, job[c].v), job[c].mem.doc)]
    /\ Touch(c, {PhpDocRes(c)})
    /\ Advance(c)
    /\ UNCHANGED <<worldVars, store, catalogVars, used, broken>>
\* move_file: of two requests that wrote the temporary file one moves what the other wrote, and
\* the other finds nothing to move.
PhpMove(c) ==
    /\ At(c, "phpMove")
    /\ LET d == PhpDoc(job[c].p, job[c].v) IN
       \/ /\ d \in DOMAIN aux.tmp
          /\ aux' = [docs |-> [aux.docs EXCEPT ![d] = aux.tmp[d]], tmp |-> Drop(aux.tmp, {d})]
          /\ Touch(c, {PhpDocRes(c)})
          /\ Advance(c)
          /\ UNCHANGED broken
       \/ /\ d \notin DOMAIN aux.tmp
          /\ Abort(c, 400)
          /\ broken' = broken \cup {Key(c)}
          /\ UNCHANGED <<aux, raced>>
    /\ UNCHANGED <<worldVars, store, catalogVars, used>>
PhpVersion(c) ==
    /\ At(c, "phpVersion")
    /\ Goto(c, IF Key(c) \in DOMAIN rows THEN Rest(c) ELSE <<"newVersion">> \o Rest(c))
    /\ UNCHANGED <<worldVars, store, catalogVars, aux, used, historyVars>>
PhpDone(c) ==
    /\ At(c, "phpDone")
    /\ Reply(c, 201, Nothing)
    /\ UNCHANGED <<worldVars, store, catalogVars, aux, used, historyVars>>
PhpGet(c) == \E p \in Packages, v \in Versions, what \in {"index", "document", "archive"} :
    Start(c, Refused("phpGet", CASE what = "index" -> 200
        [] what = "document" -> (IF aux.docs[PhpDoc(p, v)] = <<>> THEN 404 ELSE 200)
        [] what = "archive" -> (IF PhpDist(p, v) \in DOMAIN store THEN 200 ELSE 404)))

PhpHostedStep(c) ==
    \/ PhpUpload(c) \/ PhpSaveDist(c) \/ PhpReadDoc(c) \/ PhpWriteTmp(c) \/ PhpMove(c)
    \/ PhpVersion(c) \/ PhpDone(c) \/ PhpGet(c) \/ DeletePackages(c)

\* Once the requests are over, the newest entry of a catalogued version gives the checksum of the
\* stored archive, unless requests about the document overlapped or one failed half way.
PhpEntries(p, v) == {i \in DOMAIN aux.docs[PhpDoc(p, v)] : aux.docs[PhpDoc(p, v)][i][1] = v}
PhpDocumentCurrent ==
    kind = "php" /\ Quiescent => \A k \in DOMAIN rows :
        \/ Excused(k) \/ <<"doc", PhpDoc(k[1], k[2])>> \in raced \cup broken
        \/ /\ PhpEntries(k[1], k[2]) # {}
           /\ aux.docs[PhpDoc(k[1], k[2])][HighestOf(PhpEntries(k[1], k[2]))][2] = store[rows[k].path]

-----------------------------------------------------------------------------
(* The proxy.  aux holds the temporary documents.                          *)

PhpMetadataPath(p) == <<Dir("p2"), Dir(p)>>
PhpProxyInit == [tmp |-> EmptyMap]
PhpUpstream == [path \in {PhpDist(p, v) : p \in Packages, v \in Versions}
                         \cup {PhpMetadataPath(p) : p \in Packages} |-> CHOOSE b \in Bodies : TRUE]

PhpProxyDocument(c) == \E p \in Packages :
    Start(c, [Wanted("phpProxyDocument", p, 0, PhpMetadataPath(p),
                     <<"phpCached", "phpFetch", "phpProxyTmp", "phpProxyMove", "phpDocument">>)
                EXCEPT !.mem.todo = Versions])
PhpCached(c) == CacheLookup(c, "phpCached")
PhpFetch(c) == FetchUpstream(c, "phpFetch", <<"notFound">>)
PhpProxyTmp(c) ==
    /\ At(c, "phpProxyTmp")
    /\ aux' = [tmp |-> Put(aux.tmp, job[c].path, job[c].body)]
    /\ Advance(c)
    /\ UNCHANGED <<worldVars, store, catalogVars, used, historyVars>>
PhpProxyMove(c) ==
    /\ At(c, "phpProxyMove")
    /\ \/ /\ job[c].path \in DOMAIN aux.tmp
          /\ store' = Put(store, job[c].path, aux.tmp[job[c].path])
          /\ aux' = [tmp |-> Drop(aux.tmp, {job[c].path})]
          /\ Advance(c)
       \/ /\ job[c].path \notin DOMAIN aux.tmp
          /\ Abort(c, 400)
          /\ UNCHANGED <<store, aux>>
    /\ UNCHANGED <<worldVars, catalogVars, used, historyVars>>
\* Every version the document lists is recorded with its upstream address.
PhpIndexDocument(c) ==
    /\ At(c, "phpDocument")
    /\ \/ \E v \in job[c].mem.todo :
            job' = [job EXCEPT ![c].v = v, ![c].plan = IndexSteps \o <<"phpDocument">>,
                        ![c].mem = [IndexRow(PhpDist(job[c].p, v), job[c].body)
                                      EXCEPT !.todo = job[c].mem.todo \ {v}]]
       \/ job[c].mem.todo = {} /\ Reply(c, 200, Shows(job[c].body))
    /\ UNCHANGED <<worldVars, store, catalogVars, aux, used, historyVars>>

PhpProxyGet(c) == \E p \in Packages, v \in Versions :
    Start(c, Wanted("phpProxyGet", p, v, PhpDist(p, v),
                    <<"phpCached", "phpResolve", "phpFetch", "phpKeep">> \o IndexSteps \o <<"phpProxyDone">>))
\* A HEAD of a document caches it like a GET; that of an archive is passed on.
PhpProxyHead(c) ==
    \/ PhpProxyDocument(c)
    \/ \E p \in Packages, v \in Versions :
         Start(c, Wanted("phpProxyHead", p, v, PhpDist(p, v), <<"phpCached", "phpResolve", "passThrough">>))
\* resolve_upstream_meta asks for exactly one row: without it the request fails, and the
\* recovery from the cached document that fetch_proxy_meta goes on with is never reached.
PhpResolve(c) ==
    /\ At(c, "phpResolve")
    /\ IF PathTaken(job[c].path)
       THEN job' = [job EXCEPT ![c].plan = Rest(c), ![c].reads = @ \cup {Key(c)}]
       ELSE Reply(c, 500, Nothing)
    /\ UNCHANGED <<worldVars, store, catalogVars, aux, used, historyVars>>
PhpKeep(c) == SaveFetched(c, "phpKeep")
PhpProxyDone(c) ==
    /\ At(c, "phpProxyDone")
    /\ Reply(c, 200, Shows(job[c].body))
    /\ UNCHANGED <<worldVars, store, catalogVars, aux, used, historyVars>>

PhpProxyStep(c) ==
    \/ PhpProxyDocument(c) \/ PhpCached(c) \/ PhpFetch(c) \/ PhpProxyTmp(c) \/ PhpProxyMove(c)
    \/ PhpIndexDocument(c) \/ PhpProxyGet(c) \/ PhpProxyHead(c) \/ PhpResolve(c) \/ PhpKeep(c) \/ PhpProxyDone(c)
    \/ DeletePackages(c)

\* The intent of fetch_proxy_meta: an archive whose record is gone is found through the package's
\* document, so that a request for it fails only if one of its steps does.
PhpDistRecovered ==
    kind = "phpProxy" => \A c \in Clients :
        job[c].op = "phpProxyGet" /\ job[c].code = 500 => used.faults > 0
=============================================================================
