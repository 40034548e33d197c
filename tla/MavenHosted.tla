----------------------------- MODULE MavenHosted -----------------------------
(***************************************************************************)
(* The hosted Maven repository.  Any file may be deployed; a POM also puts *)
(* the version it describes into the catalog, whatever the path it was     *)
(* deployed to says, and writes the ids of the project and of the version  *)
(* into the metadata of the directories.  Everything after the POM is      *)
(* saved is best effort: its errors are logged and the reply is the same.  *)
(*                                                                         *)
(* aux.meta: directory -> the version id in its metadata (0: project only) *)
(* aux.dirs: the directories that exist                                    *)
(* aux.misplaced: history, the directories that got a POM of another       *)
(*                version                                                  *)
(***************************************************************************)
EXTENDS PackageDeletion

MavenInit == [meta |-> EmptyMap, dirs |-> {}, misplaced |-> {}]

MavenProjectDir(p) == <<Dir("group"), Dir(p)>>
MavenVersionDir(p, v) == MavenProjectDir(p) \o <<File(Blank, v, Blank)>>
MavenPath(p, v, ext) == MavenVersionDir(p, v) \o <<File(p, v, ext)>>

\* The directories a save creates.
WithDirs(path) == aux.dirs \cup {Parent(path), Parent(Parent(path))}

\* The POM's own version may differ from the path's, or be missing (0).
MavenDeployPom(c) == \E p \in Packages, v \in Versions, b \in Bodies : \E said \in {v, 0, HighestOf(Versions)} :
    Start(c, [NoJob EXCEPT !.op = "mavenPom", !.p = p, !.v = said, !.body = b,
                !.path = MavenPath(p, v, "pom"),
                !.plan = <<"mavenSave", "project", "mavenProjectMeta", "mavenVersion",
                           "mavenVersionMeta", "logged", "mavenDone">>,
                !.mem = [path |-> MavenVersionDir(p, v), file |-> MavenVersionDir(p, v), extra |-> b]])

\* Any other file: on the local backend through a temporary file beside it, whose name is
\* unique, then renamed.
MavenDeployFile(c) == \E p \in Packages, v \in Versions, b \in Bodies :
    Start(c, [NoJob EXCEPT !.op = "mavenFile", !.p = p, !.v = v, !.body = b,
                !.path = MavenPath(p, v, "jar"), !.row = used.requests + 1,
                !.plan = IF storage = "local" THEN <<"mavenTemp", "mavenMove", "mavenDone">>
                         ELSE <<"mavenSave", "mavenDone">>])

MavenSave(c) ==
    /\ At(c, "mavenSave")
    /\ store' = Put(store, job[c].path, job[c].body)
    /\ aux' = [aux EXCEPT !.dirs = WithDirs(job[c].path)]
    /\ Touch(c, {<<"file", job[c].path>>, <<"file", Parent(job[c].path)>>})
    /\ job' = [job EXCEPT ![c].plan = Rest(c), ![c].reads = @ \cup {<<"file", Parent(job[c].path)>>}]
    /\ UNCHANGED <<worldVars, catalogVars, used, broken>>

MavenTemp(c) == Parent(job[c].path) \o <<File("upload", job[c].row, Blank)>>
MavenStreamToTemp(c) ==
    /\ At(c, "mavenTemp")
    /\ store' = Put(store, MavenTemp(c), job[c].body)
    /\ aux' = [aux EXCEPT !.dirs = WithDirs(job[c].path)]
    /\ Advance(c)
    /\ UNCHANGED <<worldVars, catalogVars, used, historyVars>>
\* A body that breaks off: the temporary file is deleted, its directories stay.
MavenStreamFails(c) ==
    /\ At(c, "mavenTemp") /\ CleanFault
    /\ aux' = [aux EXCEPT !.dirs = WithDirs(job[c].path)]
    /\ Reply(c, 500, Nothing)
    /\ UNCHANGED <<worldVars, store, catalogVars, historyVars>>

\* The rename; a temporary file that is gone fails the deployment.
MavenMove(c) ==
    /\ At(c, "mavenMove")
    /\ \/ /\ MavenTemp(c) \in DOMAIN store
          /\ store' = Put(Drop(store, {MavenTemp(c)}), job[c].path, job[c].body)
          /\ Advance(c)
       \/ /\ MavenTemp(c) \notin DOMAIN store
          /\ Reply(c, 500, Nothing)
          /\ UNCHANGED store
    /\ UNCHANGED <<worldVars, catalogVars, aux, used, historyVars>>

\* put_repository_meta: on the local backend a directory that is gone is an error.
CanHoldMeta(dir) == storage = "s3" \/ dir \in aux.dirs
MavenProjectMeta(c) ==
    /\ At(c, "mavenProjectMeta")
    /\ LET dir == Parent(Parent(job[c].path)) IN
       \/ /\ CanHoldMeta(dir)
          /\ aux' = IF dir \in DOMAIN aux.meta THEN aux ELSE [aux EXCEPT !.meta = Put(@, dir, 0)]
          /\ Advance(c)
          /\ UNCHANGED broken
       \/ /\ ~CanHoldMeta(dir)
          /\ Abort(c, 500)
          /\ broken' = broken \cup {Key(c)}
          /\ UNCHANGED aux
    /\ UNCHANGED <<worldVars, store, catalogVars, used, raced>>

\* add_or_update_version: a version found is updated in place and keeps its directory.
MavenVersion(c) ==
    /\ At(c, "mavenVersion")
    /\ \/ /\ job[c].v = 0
          /\ Abort(c, 400)
       \/ /\ job[c].v # 0 /\ Key(c) \in DOMAIN rows
          /\ job' = [job EXCEPT ![c].plan = <<"updateVersion">> \o Rest(c),
                                ![c].row = rows[Key(c)].id,
                                ![c].reads = {Key(c), <<"file", job[c].mem.path>>}]
       \/ /\ job[c].v # 0 /\ Key(c) \notin DOMAIN rows
          /\ job' = [job EXCEPT ![c].plan = <<"newVersion">> \o Rest(c),
                                ![c].reads = {Key(c), <<"file", job[c].mem.path>>}]
    /\ aux' = IF job[c].mem.path = MavenVersionDir(job[c].p, job[c].v) THEN aux
              ELSE [aux EXCEPT !.misplaced = @ \cup {job[c].mem.path}]
    /\ UNCHANGED <<worldVars, store, catalogVars, used, historyVars>>

\* Mutant: the metadata of a directory that has some is left as it is.
MavenVersionMetaKept(c) ==
    /\ At(c, "mavenVersionMeta")
    /\ aux' = IF job[c].mem.path \in DOMAIN aux.meta THEN aux
              ELSE [aux EXCEPT !.meta = Put(@, job[c].mem.path, job[c].row)]
    /\ Advance(c)
    /\ UNCHANGED <<worldVars, store, catalogVars, used, raced, broken>>
MavenVersionMeta(c) ==
    /\ At(c, "mavenVersionMeta")
    /\ \/ /\ CanHoldMeta(job[c].mem.path)
          /\ aux' = [aux EXCEPT !.meta = Put(@, job[c].mem.path, job[c].row)]
          /\ Advance(c)
          /\ UNCHANGED broken
       \/ /\ ~CanHoldMeta(job[c].mem.path)
          /\ Abort(c, 500)
          /\ broken' = broken \cup {Key(c)}
          /\ UNCHANGED aux
    /\ UNCHANGED <<worldVars, store, catalogVars, used, raced>>

\* The webhook event of a POM is enqueued (its errors are logged) and the reply sent.
MavenDone(c) ==
    /\ At(c, "mavenDone")
    /\ Reply(c, 201, Nothing)
    /\ UNCHANGED <<worldVars, store, catalogVars, aux, used, historyVars>>

MavenGet(c) == \E path \in DOMAIN store :
    Start(c, [Refused("mavenGet", 200) EXCEPT !.got = Shows(store[path])])

\* resolve_project_and_version_for_path: the metadata of the directory is believed before
\* the catalog is asked.
MavenResolve(c) == \E dir \in aux.dirs :
    LET known == dir \in DOMAIN aux.meta
        rowIds == {rows[k].id : k \in {m \in DOMAIN rows : rows[m].path = dir}}
    IN Start(c, [Refused("mavenResolve", 200) EXCEPT
                   !.got = [ids |-> IF known THEN {aux.meta[dir]} \ {0} ELSE rowIds]])

MavenHostedStep(c) ==
    \/ MavenDeployPom(c) \/ MavenDeployFile(c) \/ MavenSave(c) \/ MavenStreamToTemp(c) \/ MavenStreamFails(c) \/ MavenMove(c)
    \/ MavenProjectMeta(c) \/ MavenVersion(c) \/ MavenVersionMeta(c) \/ MavenDone(c)
    \/ MavenGet(c) \/ MavenResolve(c) \/ DeletePackages(c)

-----------------------------------------------------------------------------
\* Once the requests are over, the metadata of a version's directory names the row the
\* version has in the catalog, also when the version was deleted and deployed again; a
\* deployment that failed half way or ran beside a deletion, and a directory into which the
\* POM of another version was deployed, are excused.
MavenMetaCurrent ==
    kind = "maven" /\ Quiescent => \A k \in DOMAIN rows :
        ~Excused(k) /\ rows[k].path \notin aux.misplaced => aux.meta[rows[k].path] = rows[k].id
=============================================================================
