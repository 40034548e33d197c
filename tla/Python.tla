-------------------------------- MODULE Python --------------------------------
(***************************************************************************)
(* The hosted Python repository and the Python proxy.  A hosted version is *)
(* a directory of distribution files and one catalog row, written with the *)
(* first of them; the simple index lists the directories of the catalogued *)
(* versions.  The proxy keeps a file under the path it was asked for and,  *)
(* if that is below simple/, a copy under packages/; only the latter is    *)
(* catalogued.                                                             *)
(***************************************************************************)
EXTENDS ProxyCache

PythonDir(p, v) == <<Dir(p), File(Blank, v, Blank)>>
PythonFile(p, v, ext) == PythonDir(p, v) \o <<File(p, v, ext)>>
PythonFormats == {"whl", "tar.gz"}

\* An upload, plain or as a form: a form may lack a field, a path the version.
PythonUploads == {"complete", "incomplete"}
PythonUpload(c) ==
    \E p \in Packages, v \in Versions, ext \in PythonFormats, b \in Bodies, form \in PythonUploads :
        Start(c, IF form = "incomplete" THEN Refused("pythonUpload", 400)
                 ELSE [NoJob EXCEPT !.op = "pythonUpload", !.p = p, !.v = v, !.body = b,
                         !.path = PythonFile(p, v, ext), !.reads = {<<p, v>>, <<"file", PythonDir(p, v)>>},
                         !.plan = <<"pythonSave", "project", "pythonVersion", "pythonDone">>,
                         !.mem = [path |-> PythonDir(p, v), file |-> PythonDir(p, v), extra |-> b]])
PythonSave(c) ==
    /\ At(c, "pythonSave")
    /\ store' = Put(store, job[c].path, job[c].body)
    /\ Touch(c, {Key(c), <<"file", PythonDir(job[c].p, job[c].v)>>})
    /\ Advance(c)
    /\ UNCHANGED <<worldVars, catalogVars, aux, used, broken>>
\* upsert_metadata: a version that has a row keeps it.
PythonVersion(c) ==
    /\ At(c, "pythonVersion")
    /\ Goto(c, IF Key(c) \in DOMAIN rows THEN Rest(c) ELSE <<"newVersion">> \o Rest(c))
    /\ UNCHANGED <<worldVars, store, catalogVars, aux, used, historyVars>>
PythonDone(c) ==
    /\ At(c, "pythonDone")
    /\ Reply(c, 201, Nothing)
    /\ UNCHANGED <<worldVars, store, catalogVars, aux, used, historyVars>>

\* The simple index of a package: the versions first, then the directory of each.
PythonIndex(c) == \E p \in Packages :
    Start(c, IF p \notin projects THEN Refused("pythonIndex", 404)
             ELSE [NoJob EXCEPT !.op = "pythonIndex", !.p = p, !.mem = [todo |-> VersionsOf(p), files |-> {}],
                     !.plan = <<"pythonList">>])
PythonList(c) ==
    /\ At(c, "pythonList")
    /\ LET m == job[c].mem IN
       \/ \E v \in m.todo :
             job' = [job EXCEPT ![c].mem = [todo |-> m.todo \ {v},
                        files |-> m.files \cup {q \in DOMAIN store : Under(PythonDir(job[c].p, v), q)}]]
       \/ m.todo = {} /\ Reply(c, 200, Nothing)
    /\ UNCHANGED <<worldVars, store, catalogVars, aux, used, historyVars>>
PythonGet(c) == \E p \in Packages, v \in Versions, ext \in PythonFormats :
    Start(c, Refused("pythonGet", IF PythonFile(p, v, ext) \in DOMAIN store THEN 200 ELSE 404))

PythonHostedStep(c) ==
    \/ PythonUpload(c) \/ PythonSave(c) \/ PythonVersion(c) \/ PythonDone(c)
    \/ PythonIndex(c) \/ PythonList(c) \/ PythonGet(c) \/ DeletePackages(c)

-----------------------------------------------------------------------------
(* The proxy.                                                              *)

PythonCachePath(p, v) == <<Dir("packages"), Dir(p), File(p, v, "whl")>>
PythonSimplePath(p, v) == <<Dir("simple"), Dir(p), File(p, v, "whl")>>
PythonUpstream == [path \in {PythonCachePath(p, v) : p \in Packages, v \in Versions}
                            \cup {PythonSimplePath(p, v) : p \in Packages, v \in Versions} |->
                     CHOOSE b \in Bodies : TRUE]

PythonProxyGet(c) == \E p \in Packages, v \in Versions, path \in DOMAIN upstream :
    /\ CacheKey(path) = <<p, v>>
    /\ Start(c, [Wanted("pythonProxyGet", p, v, path,
                        <<"pythonCached", "pythonFetch", "pythonKeep", "pythonCopy">> \o IndexSteps
                        \o <<"pythonServe">>)
                  EXCEPT !.mem = IndexRow(PythonCachePath(p, v), Blank)])
\* A directory is a page of the simple index: passed through with its links rewritten.
PythonProxyIndex(c) == \E p \in Packages : Start(c, Refused("pythonProxyIndex", 200))
\* A HEAD downloads and caches what is missing like a GET.
PythonProxyHead(c) == PythonProxyGet(c) \/ PythonProxyIndex(c)

PythonCached(c) ==
    /\ At(c, "pythonCached")
    /\ LET found == <<job[c].path, job[c].mem.path>> IN
       \/ \E i \in {1, 2} :
             /\ found[i] \in DOMAIN store /\ (i = 2 => found[1] \notin DOMAIN store)
             /\ Reply(c, 200, Shows(store[found[i]]))
       \/ /\ found[1] \notin DOMAIN store /\ found[2] \notin DOMAIN store
          /\ job' = [job EXCEPT ![c].plan = Rest(c),
                                ![c].reads = {<<"file", found[1]>>, <<"file", found[2]>>, Key(c)}]
    /\ UNCHANGED <<worldVars, store, catalogVars, aux, used, historyVars>>
PythonFetch(c) == FetchUpstream(c, "pythonFetch", <<"passThrough">>)
PythonKeep(c) == SaveFetched(c, "pythonKeep")
\* The copy under packages/, whose failure is only logged.
PythonCopy(c) ==
    /\ At(c, "pythonCopy")
    /\ store' = Put(store, job[c].mem.path, job[c].body)
    /\ Touch(c, {<<"file", job[c].mem.path>>})
    /\ Advance(c)
    /\ UNCHANGED <<worldVars, catalogVars, aux, used, broken>>
PythonCopyFails(c) ==
    /\ At(c, "pythonCopy") /\ job[c].path # job[c].mem.path
    /\ Fault(c) /\ Advance(c)
    /\ UNCHANGED <<worldVars, store, catalogVars, aux, raced>>
PythonServe(c) == ServeOrPass(c, "pythonServe")

PythonProxyStep(c) ==
    \/ PythonProxyGet(c) \/ PythonProxyIndex(c) \/ PythonProxyHead(c)
    \/ PythonCached(c) \/ PythonFetch(c) \/ PythonKeep(c) \/ PythonCopy(c) \/ PythonCopyFails(c)
    \/ PythonServe(c) \/ DeletePackages(c)
=============================================================================
