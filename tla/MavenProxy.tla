------------------------------ MODULE MavenProxy ------------------------------
(***************************************************************************)
(* The Maven proxy.  A file of a version is cached at its own path; the    *)
(* files of one version share one row of the catalog, which follows the    *)
(* last one recorded.  When a POM is cached, a task is spawned that        *)
(* prefetches the jar and then enters the POM into the catalog the way a   *)
(* hosted repository does.  aux.tasks holds the tasks not yet started.     *)
(***************************************************************************)
EXTENDS ProxyCache, MavenHosted

MavenProxyInit == [meta |-> EmptyMap, dirs |-> {}, misplaced |-> {}, tasks |-> {}]
MavenUpstream == [path \in {MavenPath(p, v, ext) : p \in Packages, v \in Versions, ext \in {"pom", "jar"}}
                    |-> CHOOSE b \in Bodies : TRUE]

MavenFill == <<"mavenFetch", "mavenStore">> \o IndexSteps

MavenProxyGet(c) == \E p \in Packages, v \in Versions, ext \in {"pom", "jar"} :
    Start(c, Wanted("mavenProxyGet", p, v, MavenPath(p, v, ext),
               <<"mavenCached">> \o MavenFill
                 \o (IF ext = "pom" THEN <<"mavenSpawn", "serve">> ELSE <<"serve">>)))

\* A HEAD of what is not cached is passed on, and nothing stored.
MavenProxyHead(c) == \E p \in Packages, v \in Versions, ext \in {"pom", "jar"} :
    Start(c, Wanted("mavenProxyHead", p, v, MavenPath(p, v, ext), <<"mavenCached", "passThrough">>))

MavenCached(c) == CacheLookup(c, "mavenCached")

\* For a request no route that answers means 404; the task goes on without the file.
MavenFetch(c) ==
    FetchUpstream(c, "mavenFetch",
                  IF job[c].op = "mavenPrefetch" THEN <<"mavenDescribed">> ELSE <<"notFound">>)

MavenStore(c) ==
    /\ At(c, "mavenStore")
    /\ store' = Put(store, job[c].path, job[c].body)
    /\ aux' = [aux EXCEPT !.dirs = WithDirs(job[c].path)]
    /\ Touch(c, {<<"file", job[c].path>>})
    /\ Advance(c)
    /\ UNCHANGED <<worldVars, catalogVars, used, broken>>

MavenSpawn(c) ==
    /\ At(c, "mavenSpawn")
    /\ aux' = [aux EXCEPT !.tasks = @ \cup {[p |-> job[c].p, v |-> job[c].v, body |-> job[c].body]}]
    /\ Advance(c)
    /\ UNCHANGED <<worldVars, store, catalogVars, used, historyVars>>

\* proxy_project_download starts beside the requests.  It relies on the POM it was spawned for,
\* and does not look whether a deletion has taken it meanwhile.
MavenPrefetch(c) == \E t \in aux.tasks :
    LET dir == <<"file", MavenVersionDir(t.p, t.v)>> IN
    /\ Idle(c)
    /\ job' = [job EXCEPT ![c] = [Wanted("mavenPrefetch", t.p, t.v, MavenPath(t.p, t.v, "jar"),
                                         <<"mavenMissing">> \o MavenFill \o <<"mavenDescribed">>)
                                    EXCEPT !.body = t.body, !.reads = {dir}]]
    /\ aux' = [aux EXCEPT !.tasks = @ \ {t}]
    /\ raced' = IF MavenPath(t.p, t.v, "pom") \in DOMAIN store THEN raced ELSE raced \cup {dir}
    /\ UNCHANGED <<worldVars, store, catalogVars, used, broken>>

\* A jar that is there already is not fetched.
MavenMissing(c) ==
    /\ At(c, "mavenMissing")
    /\ IF job[c].path \in DOMAIN store THEN Goto(c, <<"mavenDescribed">>)
       ELSE job' = [job EXCEPT ![c].plan = Rest(c), ![c].reads = @ \cup {<<"file", job[c].path>>}]
    /\ UNCHANGED <<worldVars, store, catalogVars, aux, used, historyVars>>

\* post_pom_upload for the POM.
MavenDescribed(c) ==
    /\ At(c, "mavenDescribed")
    /\ LET dir == MavenVersionDir(job[c].p, job[c].v) IN
       job' = [job EXCEPT ![c].mem.path = dir, ![c].mem.file = dir,
                 ![c].plan = <<"project", "mavenProjectMeta", "mavenVersion", "mavenVersionMeta",
                               "logged", "mavenDone">>]
    /\ UNCHANGED <<worldVars, store, catalogVars, aux, used, historyVars>>

MavenProxyStep(c) ==
    \/ MavenProxyGet(c) \/ MavenProxyHead(c) \/ MavenCached(c) \/ MavenFetch(c) \/ MavenStore(c)
    \/ MavenSpawn(c) \/ MavenPrefetch(c) \/ MavenMissing(c) \/ MavenDescribed(c)
    \/ MavenProjectMeta(c) \/ MavenVersion(c) \/ MavenVersionMeta(c) \/ MavenDone(c)
    \/ DeletePackages(c)
=============================================================================
