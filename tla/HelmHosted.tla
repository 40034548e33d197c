------------------------------ MODULE HelmHosted ------------------------------
(***************************************************************************)
(* The hosted Helm repository.  A chart is saved before the catalog is     *)
(* asked whether its version exists; the index is rendered from the        *)
(* catalog and kept in memory until a change of the catalog drops it or    *)
(* its TTL passes.                                                         *)
(*                                                                         *)
(* aux.overwrite is the repository's setting, aux.cache the set of the     *)
(* cached index (or empty), aux.old whether its TTL has passed.  The extra *)
(* of a version is the digest of its chart and whether it has provenance.  *)
(***************************************************************************)
EXTENDS PackageDeletion

HelmInits == [overwrite : BOOLEAN, cache : {{}}, old : {FALSE}]

HelmChart(p, v) == <<Dir("charts"), Dir(p), File(p, v, "tgz")>>
HelmProvenance(p, v) == <<Dir("charts"), Dir(p), File(p, v, "prov")>>
HelmIndexEntries == {<<k, rows[k].extra[1]>> : k \in DOMAIN rows}
HelmMem(p, v, b) == [path |-> HelmChart(p, v), file |-> HelmChart(p, v), extra |-> <<b, FALSE>>,
                     done |-> {}, index |-> {}]

HelmPersist == <<"helmSave", "project", "helmVersion">>

\* PUT of a chart whose name and version match its archive: an error of the catalog deletes
\* the file that was saved.
HelmArchives == {"ofThePath", "ofAnotherChart", "invalid"}
HelmPut(c) == \E p \in Packages, v \in Versions, b \in Bodies, archive \in HelmArchives :
    Start(c, IF archive # "ofThePath" THEN Refused("helmPut", 400)
             ELSE [NoJob EXCEPT !.op = "helmPut", !.p = p, !.v = v, !.body = b, !.mem = HelmMem(p, v, b),
                     !.plan = <<"helmPutSave">> \o Tail(HelmPersist) \o <<"helmInvalidate">>])
\* The ChartMuseum upload, with the provenance file if the form has one: nothing is undone.
HelmMuseumUpload(c) == \E p \in Packages, v \in Versions, b \in Bodies, prov \in BOOLEAN :
    Start(c, [NoJob EXCEPT !.op = "helmPut", !.p = p, !.v = v, !.body = b, !.mem = HelmMem(p, v, b),
                !.plan = HelmPersist \o (IF prov THEN <<"helmProvSave", "helmProv">> ELSE <<>>)
                         \o <<"helmInvalidate">>])
HelmPutProvenance(c) == \E p \in Packages, v \in Versions :
    Start(c, [NoJob EXCEPT !.op = "helmPut", !.p = p, !.v = v, !.mem = HelmMem(p, v, Blank),
                !.plan = <<"helmProvSave", "helmProv", "helmInvalidate">>])

\* Every step on a version disturbs the requests that rely on it.
HelmSave(c, step, path, content, undo) ==
    /\ At(c, step)
    /\ store' = Put(store, path, content)
    /\ Touch(c, {Key(c)})
    /\ job' = [job EXCEPT ![c].plan = Rest(c) \o undo, ![c].reads = @ \cup {Key(c)}]
    /\ UNCHANGED <<worldVars, catalogVars, aux, used, broken>>
HelmSaveChart(c) ==
    \/ HelmSave(c, "helmSave", HelmChart(job[c].p, job[c].v), job[c].body, <<>>)
    \/ HelmSave(c, "helmPutSave", HelmChart(job[c].p, job[c].v), job[c].body, <<"logged", "helmUndo">>)
HelmSaveProvenance(c) ==
    HelmSave(c, "helmProvSave", HelmProvenance(job[c].p, job[c].v), "signature", <<>>)

\* Mutant: the row of a version that is overwritten keeps its digest.
HelmVersionKept(c) ==
    /\ At(c, "helmVersion")
    /\ Goto(c, IF Key(c) \in DOMAIN rows THEN Rest(c) ELSE <<"newVersion">> \o Rest(c))
    /\ UNCHANGED <<worldVars, store, catalogVars, aux, used, historyVars>>
\* persist_chart_archive: an existing version is updated only where overwriting is allowed.
HelmVersion(c) ==
    /\ At(c, "helmVersion")
    /\ \/ /\ Key(c) \notin DOMAIN rows
          /\ Goto(c, <<"newVersion">> \o Rest(c))
       \/ /\ Key(c) \in DOMAIN rows /\ aux.overwrite
          /\ job' = [job EXCEPT ![c].plan = <<"updateVersion">> \o Rest(c), ![c].row = rows[Key(c)].id,
                                ![c].mem.extra = <<job[c].body, rows[Key(c)].extra[2]>>]
       \/ /\ Key(c) \in DOMAIN rows /\ ~aux.overwrite
          /\ Abort(c, 409)
    /\ Touch(c, {Key(c)})
    /\ UNCHANGED <<worldVars, store, catalogVars, aux, used, broken>>
HelmUndo(c) ==
    /\ At(c, "helmUndo")
    /\ store' = Drop(store, {HelmChart(job[c].p, job[c].v)})
    /\ Reply(c, 409, Nothing)
    /\ UNCHANGED <<worldVars, catalogVars, aux, used, historyVars>>

\* persist_provenance: the metadata is read, marked and written back.
HelmMarkProvenance(c) ==
    /\ At(c, "helmProv")
    /\ \/ /\ Key(c) \in DOMAIN rows
          /\ job' = [job EXCEPT ![c].plan = <<"updateVersion">> \o Rest(c), ![c].row = rows[Key(c)].id,
                                ![c].mem.extra = <<rows[Key(c)].extra[1], TRUE>>]
       \/ /\ Key(c) \notin DOMAIN rows
          /\ Reply(c, 404, Nothing)
    /\ Touch(c, {Key(c)})
    /\ UNCHANGED <<worldVars, store, catalogVars, aux, used, broken>>

\* Mutant: the cached index stays.
HelmKeepsIndex(c) ==
    /\ At(c, "helmInvalidate") /\ Reply(c, 201, Nothing)
    /\ UNCHANGED <<worldVars, store, catalogVars, aux, used, historyVars>>
\* invalidate_index_cache, the last step of every change.  A deletion asked for through the
\* package API still marks its file row.
HelmInvalidate(c) ==
    /\ At(c, "helmInvalidate")
    /\ aux' = [aux EXCEPT !.cache = {}]
    /\ Touch(c, {<<"index", 0>>})
    /\ IF job[c].op = "helmApiDelete"
       THEN job' = [job EXCEPT ![c].plan = <<"soft">>, ![c].mem.done = {job[c].mem.path}]
       ELSE Reply(c, IF job[c].op = "helmDelete" THEN 204 ELSE 201, Nothing)
    /\ UNCHANGED <<worldVars, store, catalogVars, used, broken>>

\* delete_chart_versions: the chart, its provenance, the row, and the project without versions.
HelmDelete(c) == \E k \in DOMAIN rows, op \in {"helmDelete", "helmApiDelete"} :
    Start(c, [NoJob EXCEPT !.op = op, !.p = k[1], !.v = k[2], !.reads = {k},
                !.mem = HelmMem(k[1], k[2], Blank),
                !.plan = <<"helmFind", "helmErase", "helmEraseProv", "helmRow", "helmRemaining",
                           "helmInvalidate">>
                         \o (IF op = "helmApiDelete" THEN <<"logged", "soft">> ELSE <<>>)])
HelmFind(c) ==
    /\ At(c, "helmFind")
    /\ IF Key(c) \in DOMAIN rows THEN job' = [job EXCEPT ![c].plan = Rest(c), ![c].mem.extra = rows[Key(c)].extra]
       ELSE Abort(c, 404)
    /\ UNCHANGED <<worldVars, store, catalogVars, aux, used, historyVars>>
HelmErase(c, step, paths) ==
    /\ At(c, step)
    /\ store' = Drop(store, paths)
    /\ Touch(c, {Key(c)})
    /\ Advance(c)
    /\ UNCHANGED <<worldVars, catalogVars, aux, used, broken>>
HelmEraseChart(c) == HelmErase(c, "helmErase", {HelmChart(job[c].p, job[c].v)})
HelmEraseProvenance(c) ==
    HelmErase(c, "helmEraseProv", IF job[c].mem.extra[2] THEN {HelmProvenance(job[c].p, job[c].v)} ELSE {})
HelmDeleteRows(c, step, keys) ==
    /\ At(c, step)
    /\ rows' = Drop(rows, keys) /\ files' = WithoutVersions(keys)
    /\ Touch(c, keys)
    /\ Advance(c)
    /\ UNCHANGED <<worldVars, store, aux, used, broken>>
HelmDeleteRow(c) == HelmDeleteRows(c, "helmRow", DOMAIN rows \cap {Key(c)}) /\ UNCHANGED projects
HelmRemaining(c) ==
    /\ At(c, "helmRemaining")
    /\ Goto(c, IF VersionsOf(job[c].p) = {} THEN <<"helmProject">> \o Rest(c) ELSE Rest(c))
    /\ UNCHANGED <<worldVars, store, catalogVars, aux, used, historyVars>>
\* A version published after the count goes with the project.
HelmDeleteProject(c) ==
    /\ HelmDeleteRows(c, "helmProject", {k \in DOMAIN rows : k[1] = job[c].p})
    /\ projects' = projects \ {job[c].p}

\* The index: from the cache, or rendered from the catalog and cached.
HelmIndex(c) == \E force \in BOOLEAN :
    Start(c, IF ~force /\ aux.cache # {} /\ ~aux.old THEN Refused("helmIndex", 200)
             ELSE [NoJob EXCEPT !.op = "helmIndex", !.plan = <<"helmRecords", "helmCache">>])
HelmRecords(c) ==
    /\ At(c, "helmRecords")
    /\ job' = [job EXCEPT ![c].plan = Rest(c), ![c].mem = [index |-> HelmIndexEntries],
                          ![c].reads = {<<"index", 0>>}]
    /\ UNCHANGED <<worldVars, store, catalogVars, aux, used, historyVars>>
HelmCache(c) ==
    /\ At(c, "helmCache")
    /\ aux' = [aux EXCEPT !.cache = {job[c].mem.index}, !.old = FALSE]
    /\ Reply(c, 200, Nothing)
    /\ UNCHANGED <<worldVars, store, catalogVars, used, historyVars>>
HelmTtlPasses ==
    /\ aux.cache # {} /\ ~aux.old /\ used.changes < used.bound.changes
    /\ used' = [used EXCEPT !.changes = @ + 1]
    /\ aux' = [aux EXCEPT !.old = TRUE]
    /\ UNCHANGED <<worldVars, store, catalogVars, job, historyVars>>

HelmGet(c) == \E p \in Packages, v \in Versions :
    Start(c, Refused("helmGet", IF HelmChart(p, v) \in DOMAIN store THEN 200 ELSE 404))

\* The JSON listings are rendered from the catalog, of all the charts or of one.
HelmList(c) == \E p \in Packages, all \in BOOLEAN :
    Start(c, Refused("helmList", IF all \/ VersionsOf(p) # {} THEN 200 ELSE 404))

HelmHostedStep(c) ==
    \/ HelmPut(c) \/ HelmMuseumUpload(c) \/ HelmPutProvenance(c) \/ HelmSaveChart(c)
    \/ HelmSaveProvenance(c) \/ HelmVersion(c) \/ HelmUndo(c) \/ HelmMarkProvenance(c)
    \/ HelmInvalidate(c) \/ HelmDelete(c) \/ HelmFind(c) \/ HelmEraseChart(c)
    \/ HelmEraseProvenance(c) \/ HelmDeleteRow(c) \/ HelmRemaining(c) \/ HelmDeleteProject(c)
    \/ HelmIndex(c) \/ HelmRecords(c) \/ HelmCache(c) \/ HelmGet(c) \/ HelmList(c)

-----------------------------------------------------------------------------
\* Once the requests are over, an index in the cache is that of the catalog, unless it was
\* rendered beside a change of the catalog or a change failed half way: a chart that was
\* published or deleted never hides behind the cache.
HelmIndexCurrent ==
    kind = "helm" /\ Quiescent /\ broken = {} /\ <<"index", 0>> \notin raced =>
        \A index \in aux.cache : index = HelmIndexEntries

\* Where overwriting is allowed, the digest the index gives for a version is that of the chart
\* served for it, unless requests about the version overlapped or one failed half way.
HelmDigestServed ==
    kind = "helm" /\ Quiescent => \A k \in DOMAIN rows \ (raced \cup broken) :
        aux.overwrite => /\ HelmChart(k[1], k[2]) \in DOMAIN store
                         /\ store[HelmChart(k[1], k[2])] = rows[k].extra[1]

\* Where overwriting is not allowed, a version in the catalog keeps the chart it was
\* published with: a second publication of it is refused and changes nothing.
HelmPublishedKept ==
    kind = "helm" /\ Quiescent => \A k \in DOMAIN rows \ (raced \cup broken) :
        ~aux.overwrite => /\ HelmChart(k[1], k[2]) \in DOMAIN store
                          /\ store[HelmChart(k[1], k[2])] = rows[k].extra[1]
=============================================================================
