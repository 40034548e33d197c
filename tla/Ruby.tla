-------------------------------- MODULE Ruby --------------------------------
(***************************************************************************)
(* The hosted RubyGems repository and its proxy.  A publication refuses a  *)
(* version in the catalog, saves the gem, inserts the version and rebuilds *)
(* every index file from the catalog; a yank takes the version away and    *)
(* rebuilds too.  Rebuilds hold no lock.  The proxy caches whatever it is  *)
(* asked for and extends a cached index file by the ranges its clients     *)
(* ask the upstream for.                                                   *)
(***************************************************************************)
EXTENDS ProxyCache

GemPath(p, v) == <<Dir("gems"), File(p, v, "gem")>>

\* The index files of the hosted repository, each the set of the entries it shows: the
\* versions file (with names), the info files of the gems, and the three specs files.
RubyInit == [versions |-> {}, info |-> {}, specs |-> {}]
Entries == {<<k[1], k[2], rows[k].extra>> : k \in DOMAIN rows}
GemsOf(entries) == {e[1] : e \in entries}
RebuildSteps == <<"rubyLoad", "rubyVersions", "rubyStale", "rubyInfo", "rubySpecs", "rubyDone">>

\* A push that is empty or no gem is refused.
RubyPushes == {"gem", "empty", "unreadable"}
RubyPublish(c) == \E p \in Packages, v \in Versions, b \in Bodies, push \in RubyPushes :
    Start(c, IF push # "gem" THEN Refused("rubyPublish", 400)
             ELSE [NoJob EXCEPT !.op = "rubyPublish", !.p = p, !.v = v, !.body = b,
                     !.path = GemPath(p, v), !.mem = IndexRow(GemPath(p, v), b),
                     !.plan = <<"project", "rubyExists", "rubyGem", "newVersion">> \o RebuildSteps])
RubyExists(c) ==
    /\ At(c, "rubyExists")
    /\ IF Key(c) \in DOMAIN rows THEN Reply(c, 409, Nothing)
       ELSE job' = [job EXCEPT ![c].plan = Rest(c), ![c].reads = {Key(c), <<"file", job[c].path>>}]
    /\ UNCHANGED <<worldVars, store, catalogVars, aux, used, historyVars>>
RubySaveGem(c) ==
    /\ At(c, "rubyGem")
    /\ store' = Put(store, job[c].path, job[c].body)
    /\ Touch(c, {Key(c), <<"file", job[c].path>>})
    /\ Advance(c)
    /\ UNCHANGED <<worldVars, catalogVars, aux, used, broken>>

\* rebuild_indexes: the rows are read once, then each file is written in turn.
RubyLoad(c) ==
    /\ At(c, "rubyLoad")
    /\ Recall(c, Rest(c), [entries |-> Entries],
              job[c].reads \cup {<<"versions", p>> : p \in Packages})
    /\ UNCHANGED <<worldVars, store, catalogVars, aux, used, historyVars>>
RubyWrites(c, step, index) ==
    /\ At(c, step)
    /\ aux' = index
    /\ Advance(c)
    /\ UNCHANGED <<worldVars, store, catalogVars, used, historyVars>>
RubyWriteVersions(c) == RubyWrites(c, "rubyVersions", [aux EXCEPT !.versions = job[c].mem.entries])
\* Mutant: the info file of a gem that lost its last version stays.
RubyKeepsStale(c) == RubyWrites(c, "rubyStale", aux)
\* delete_stale_info_files: the info files of gems that are gone.
RubyDeleteStale(c) ==
    RubyWrites(c, "rubyStale", [aux EXCEPT !.info = {e \in @ : e[1] \in GemsOf(job[c].mem.entries)}])
RubyWriteInfo(c) ==
    RubyWrites(c, "rubyInfo", [aux EXCEPT !.info = {e \in @ : e[1] \notin GemsOf(job[c].mem.entries)}
                                                    \cup job[c].mem.entries])
RubyWriteSpecs(c) == RubyWrites(c, "rubySpecs", [aux EXCEPT !.specs = job[c].mem.entries])
RubyDone(c) ==
    /\ At(c, "rubyDone")
    /\ Reply(c, 200, Nothing)
    /\ UNCHANGED <<worldVars, store, catalogVars, aux, used, historyVars>>

RubyYank(c) == \E p \in Packages, v \in Versions :
    Start(c, [NoJob EXCEPT !.op = "rubyYank", !.p = p, !.v = v, !.path = GemPath(p, v),
                !.plan = <<"rubyFind", "rubyDelete", "rubyErase", "rubyCount">> \o RebuildSteps])
RubyFind(c) ==
    /\ At(c, "rubyFind")
    /\ \/ Key(c) \notin DOMAIN rows /\ Reply(c, 404, Nothing)
       \/ /\ Key(c) \in DOMAIN rows
          /\ job' = [job EXCEPT ![c].plan = Rest(c), ![c].row = rows[Key(c)].id,
                                ![c].reads = {Key(c), <<"file", job[c].path>>}]
    /\ UNCHANGED <<worldVars, store, catalogVars, aux, used, historyVars>>
RubyDeleteRow(c) ==
    /\ At(c, "rubyDelete")
    /\ LET keys == {k \in DOMAIN rows : rows[k].id = job[c].row}
       IN /\ rows' = Drop(rows, keys) /\ files' = WithoutVersions(keys)
          /\ Touch(c, keys \cup {<<"versions", job[c].p>>})
    /\ Advance(c)
    /\ UNCHANGED <<worldVars, store, projects, aux, used, broken>>
RubyErase(c) ==
    /\ At(c, "rubyErase")
    /\ store' = Drop(store, {job[c].path})
    /\ Touch(c, {Key(c), <<"file", job[c].path>>})
    /\ Advance(c)
    /\ UNCHANGED <<worldVars, catalogVars, aux, used, broken>>
\* A project without versions goes.  The count and the DELETE are two statements.
RubyCount(c) ==
    /\ At(c, "rubyCount")
    /\ job' = [job EXCEPT
          ![c].plan = IF VersionsOf(job[c].p) = {} THEN <<"rubyDropProject">> \o Rest(c) ELSE Rest(c),
          ![c].reads = @ \cup {<<"versions", job[c].p>>}]
    /\ UNCHANGED <<worldVars, store, catalogVars, aux, used, historyVars>>
RubyDropProject(c) ==
    /\ At(c, "rubyDropProject")
    /\ projects' = projects \ {job[c].p}
    /\ LET keys == {k \in DOMAIN rows : k[1] = job[c].p}
       IN /\ rows' = Drop(rows, keys) /\ files' = WithoutVersions(keys)
          /\ Touch(c, keys \cup {<<"versions", job[c].p>>})
    /\ Advance(c)
    /\ UNCHANGED <<worldVars, store, aux, used, broken>>

\* Reads: a gem, the info file of one, or the gemspec made from its row.
RubyGet(c) == \E p \in Packages, v \in Versions, what \in {"gem", "info", "gemspec"} :
    Start(c, Refused("rubyGet",
        IF CASE what = "gem" -> GemPath(p, v) \in DOMAIN store
             [] what = "info" -> p \in GemsOf(aux.info)
             [] what = "gemspec" -> <<p, v>> \in DOMAIN rows
        THEN 200 ELSE 404))

RubyHostedStep(c) ==
    \/ RubyPublish(c) \/ RubyExists(c) \/ RubySaveGem(c)
    \/ RubyLoad(c) \/ RubyWriteVersions(c) \/ RubyDeleteStale(c) \/ RubyWriteInfo(c)
    \/ RubyWriteSpecs(c) \/ RubyDone(c)
    \/ RubyYank(c) \/ RubyFind(c) \/ RubyDeleteRow(c) \/ RubyErase(c)
    \/ RubyCount(c) \/ RubyDropProject(c) \/ RubyGet(c) \/ DeletePackages(c)

\* Once the requests are over, every index file shows each catalogued gem with its checksum, and
\* a gem that is no longer in the catalog is shown by all of them or by none, unless a rebuild
\* was overtaken by another change of the gem or failed.  (A deletion through the API does not
\* rebuild; the gem stays in every index until the next publication or yank.)
RubyDisturbed(p) == <<"versions", p>> \in raced \cup broken \/ \E v \in Versions : <<p, v>> \in broken
RubyIndexCurrent ==
    kind = "ruby" /\ Quiescent => \A p \in Packages :
        LET of(entries) == {e \in entries : e[1] = p}
        IN ~RubyDisturbed(p) => /\ of(Entries) \subseteq of(aux.versions)
                                /\ of(aux.versions) = of(aux.info) /\ of(aux.info) = of(aux.specs)

\* When a yank is about to be answered, no index shows the gem, unless other requests about the
\* gem ran beside it.
YankedIsGone ==
    kind = "ruby" => \A c \in Clients :
        /\ At(c, "rubyDone") /\ job[c].op = "rubyYank"
        /\ Key(c) \notin raced /\ ~RubyDisturbed(job[c].p)
        => Key(c) \notin {<<e[1], e[2]>> : e \in aux.versions \cup aux.info \cup aux.specs}

-----------------------------------------------------------------------------
(* The proxy.  Its versions file is a sequence of the upstream's entries,  *)
(* of which there are aux.origin; index is empty or holds the cached file. *)

RubyProxyInit == [origin |-> 1, index |-> {}]
RubyUpstream == [path \in {GemPath(p, v) : p \in Packages, v \in Versions} |-> CHOOSE b \in Bodies : TRUE]
Numbered(from, to) == [i \in 1 .. to - from |-> from + i]

\* The compact index of the upstream only grows.
RubyUpstreamGrows ==
    /\ used.changes < used.bound.changes
    /\ used' = [used EXCEPT !.changes = @ + 1]
    /\ aux' = [aux EXCEPT !.origin = @ + 1]
    /\ UNCHANGED <<worldVars, store, catalogVars, job, historyVars>>

\* A path the RubyGems protocol does not know is answered 404.
RubyProxyGet(c) == \E path \in DOMAIN upstream \cup {<<Dir("elsewhere")>>} :
    Start(c, IF path \notin DOMAIN upstream THEN Refused("rubyProxyGet", 404)
             ELSE Wanted("rubyProxyGet", FileOf(path)[1], FileOf(path)[2], path,
                         <<"rubyOpen", "rubyStat", "rubyFetch", "rubySave">>
                         \o IndexSteps \o <<"serve">>))
RubyProxyHead(c) == \E path \in DOMAIN upstream :
    Start(c, Wanted("rubyProxyHead", FileOf(path)[1], FileOf(path)[2], path, <<"rubyStat", "passThrough">>))
RubyOpen(c) == CacheLookup(c, "rubyOpen")
RubyStat(c) == CacheLookup(c, "rubyStat")
RubyFetch(c) == FetchUpstream(c, "rubyFetch", <<"notFound">>)
RubySave(c) == SaveFetched(c, "rubySave")

RubyIndexGet(c) ==
    /\ kind = "rubyProxy"
    /\ Start(c, IF aux.index # {} THEN Refused("rubyIndexGet", 200)
                ELSE [NoJob EXCEPT !.op = "rubyIndexGet", !.plan = <<"rubyIndexFetch", "rubyIndexSave">>,
                                   !.reads = {<<"index", "versions">>}])
RubyIndexFetch(c) ==
    /\ At(c, "rubyIndexFetch")
    /\ Recall(c, Rest(c), [chunk |-> Numbered(0, aux.origin)], job[c].reads)
    /\ UNCHANGED <<worldVars, store, catalogVars, aux, used, historyVars>>
RubyIndexSave(c) ==
    /\ At(c, "rubyIndexSave")
    /\ aux' = [aux EXCEPT !.index = {job[c].mem.chunk}]
    /\ Touch(c, {<<"index", "versions">>})
    /\ Reply(c, 200, Nothing)
    /\ UNCHANGED <<worldVars, store, catalogVars, used, broken>>

\* A range is fetched from the upstream and passed on; it extends a cached file that ends
\* where the range begins.  The size is read after the answer came, the append is a later await.
RubyRangeGet(c) == \E from \in 0 .. aux.origin :
    Start(c, [NoJob EXCEPT !.op = "rubyRangeGet", !.plan = <<"rubyRangeFetch", "rubyRangeSize">>,
                           !.mem = [from |-> from, chunk |-> <<>>]])
RubyRangeFetch(c) ==
    /\ At(c, "rubyRangeFetch")
    /\ \/ /\ job[c].mem.from < aux.origin
          /\ job' = [job EXCEPT ![c].plan = Rest(c), ![c].mem.chunk = Numbered(job[c].mem.from, aux.origin)]
       \/ job[c].mem.from >= aux.origin /\ Reply(c, 416, Nothing)
    /\ UNCHANGED <<worldVars, store, catalogVars, aux, used, historyVars>>
\* Mutant: the range is appended to whatever is cached.
RubyNoSizeCheck(c) ==
    /\ At(c, "rubyRangeSize")
    /\ IF aux.index # {}
       THEN job' = [job EXCEPT ![c].plan = <<"rubyAppend">>, ![c].reads = {<<"index", "versions">>}]
       ELSE Reply(c, 206, Nothing)
    /\ UNCHANGED <<worldVars, store, catalogVars, aux, used, historyVars>>
RubyRangeSize(c) ==
    /\ At(c, "rubyRangeSize")
    /\ IF \E s \in aux.index : Len(s) = job[c].mem.from
       THEN job' = [job EXCEPT ![c].plan = <<"rubyAppend">>, ![c].reads = {<<"index", "versions">>}]
       ELSE Reply(c, 206, Nothing)
    /\ UNCHANGED <<worldVars, store, catalogVars, aux, used, historyVars>>
\* A failed append is only logged.
RubyAppend(c) ==
    /\ At(c, "rubyAppend")
    /\ aux' = [aux EXCEPT !.index = {s \o job[c].mem.chunk : s \in @}]
    /\ Touch(c, {<<"index", "versions">>})
    /\ Reply(c, 206, Nothing)
    /\ UNCHANGED <<worldVars, store, catalogVars, used, broken>>

RubyProxyStep(c) ==
    \/ RubyProxyGet(c) \/ RubyProxyHead(c) \/ RubyOpen(c) \/ RubyStat(c) \/ RubyFetch(c) \/ RubySave(c)
    \/ RubyIndexGet(c) \/ RubyIndexFetch(c) \/ RubyIndexSave(c)
    \/ RubyRangeGet(c) \/ RubyRangeFetch(c) \/ RubyRangeSize(c) \/ RubyAppend(c) \/ DeletePackages(c)

\* The cached index is what the upstream once served, never a splice of two answers, unless a
\* second request changed it between the check of its size and the append.
RubyIndexGenuine ==
    kind = "rubyProxy" /\ <<"index", "versions">> \notin raced =>
        \A s \in aux.index : Len(s) <= aux.origin /\ s = Numbered(0, Len(s))
=============================================================================
