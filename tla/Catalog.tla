------------------------------- MODULE Catalog -------------------------------
(***************************************************************************)
(* The package catalog: the tables projects, project_versions and          *)
(* package_files, and the statements the handlers of every format run on   *)
(* them.  Each statement commits by itself, so other requests run between  *)
(* the look-up of a row and the insertion it leads to, and between the     *)
(* insertion of a version and that of its file row.                        *)
(***************************************************************************)
EXTENDS RepositoryState

Key(c) == <<job[c].p, job[c].v>>

\* What a request was working on, for the history of requests that failed half way.
Breaks(c) == broken' = broken \cup {Key(c)} \cup job[c].reads

\* The row the request found or inserted is still there.
RowStands(c) == Key(c) \in DOMAIN rows /\ rows[Key(c)].id = job[c].row

\* A row of project_versions: where the version is, what its metadata says of the artifact,
\* the path its file row gets, and its identity (also its place in the order of creation).
NewRow(m) == [path |-> m.path, file |-> m.file, extra |-> m.extra, id |-> used.clock + 1]

PathTaken(path) == \E k \in DOMAIN rows : rows[k].path = path
RowIds(keys) == {rows[k].id : k \in keys}
VersionsOf(p) == {v \in Versions : <<p, v>> \in DOMAIN rows}
NewestFirst(p, v, w) == rows[<<p, v>>].id >= rows[<<p, w>>].id

\* The file rows that are not marked deleted: what the package listing shows.
Listed == {path \in DOMAIN files : ~files[path].gone}

\* DELETE FROM project_versions: the file rows of the versions go with them.
WithoutVersions(keys) == Keep(files, LAMBDA path : files[path].row \notin RowIds(keys))

FindProject(c) ==
    /\ At(c, "project")
    /\ Goto(c, IF job[c].p \in projects THEN Rest(c) ELSE <<"newProject">> \o Rest(c))
    /\ UNCHANGED <<worldVars, store, catalogVars, aux, used, historyVars>>

\* Two requests that both found no project race for its unique key: the later one fails.
InsertProject(c) ==
    /\ At(c, "newProject")
    /\ \/ /\ job[c].p \notin projects
          /\ projects' = projects \cup {job[c].p}
          /\ Advance(c)
          /\ UNCHANGED broken
       \/ /\ job[c].p \in projects
          /\ Abort(c, 500)
          /\ Breaks(c)
          /\ UNCHANGED projects
    /\ UNCHANGED <<worldVars, store, rows, files, aux, used, raced>>

\* The constraints on project_versions: its project, its unique version and its unique path.
InsertAllowed(c) ==
    job[c].p \in projects /\ Key(c) \notin DOMAIN rows /\ ~PathTaken(job[c].mem.path)

\* NewVersion::insert, the first of its two statements.  mem is the row the format built.
InsertVersion(c) ==
    /\ At(c, "newVersion")
    /\ \/ /\ InsertAllowed(c)
          /\ rows' = Put(rows, Key(c), NewRow(job[c].mem))
          /\ Touch(c, {Key(c), <<"versions", job[c].p>>, <<"file", job[c].mem.path>>})
          /\ used' = [used EXCEPT !.clock = @ + 1]
          /\ job' = [job EXCEPT ![c].plan = <<"fileRow">> \o Rest(c), ![c].row = used.clock + 1]
          /\ UNCHANGED broken
       \/ /\ ~InsertAllowed(c)
          /\ Abort(c, 500)
          /\ Breaks(c)
          /\ UNCHANGED <<rows, used, raced>>
    /\ UNCHANGED <<worldVars, store, projects, files, aux>>

\* UpdateProjectVersion::update on the version found before: a version deleted in between
\* makes the re-read fail.
UpdateVersion(c) ==
    /\ At(c, "updateVersion")
    /\ \/ /\ RowStands(c)
          /\ rows' = [rows EXCEPT ![Key(c)].extra = job[c].mem.extra]
          /\ used' = [used EXCEPT !.clock = @ + 1]
          /\ Goto(c, <<"fileRow">> \o Rest(c))
          /\ UNCHANGED broken
       \/ /\ ~RowStands(c)
          /\ Abort(c, 500)
          /\ Breaks(c)
          /\ UNCHANGED <<rows, used>>
    /\ UNCHANGED <<worldVars, store, projects, files, aux, raced>>

\* Mutant: a file row may name a version that is gone.
UpsertUnchecked(c) ==
    /\ At(c, "fileRow")
    /\ files' = Put(files, job[c].mem.file,
                    [row |-> job[c].row, p |-> job[c].p, gone |-> FALSE, stamp |-> used.clock])
    /\ Advance(c)
    /\ UNCHANGED <<worldVars, store, projects, rows, aux, used, historyVars>>

\* Mutant: the file row is left out.
UpsertNothing(c) ==
    /\ At(c, "fileRow") /\ Advance(c)
    /\ UNCHANGED <<worldVars, store, catalogVars, aux, used, historyVars>>

\* DBPackageFile::upsert_from_project_version: the foreign key refuses a version that is gone;
\* where its project is gone too there is no row, and the request goes on.
UpsertFileRow(c) ==
    /\ At(c, "fileRow")
    /\ \/ /\ RowStands(c)
          /\ files' = Put(files, rows[Key(c)].file,
                          [row |-> job[c].row, p |-> job[c].p, gone |-> FALSE, stamp |-> used.clock])
          /\ Advance(c)
          /\ UNCHANGED broken
       \/ /\ ~RowStands(c)
          /\ Abort(c, 500) \/ (job[c].p \notin projects /\ Advance(c))
          /\ Breaks(c)
          /\ UNCHANGED files
    /\ UNCHANGED <<worldVars, store, projects, rows, aux, used, raced>>

CatalogSteps(c) ==
    \/ FindProject(c) \/ InsertProject(c)
    \/ InsertVersion(c) \/ UpdateVersion(c) \/ UpsertFileRow(c)

-----------------------------------------------------------------------------
(* What the catalog promises.                                              *)

\* Every file row that names a version names one that exists: the listing never shows a
\* file of a version the catalog does not know.
FileRowsHaveVersions ==
    \A path \in DOMAIN files :
        files[path].row # 0 => \E k \in DOMAIN rows : rows[k].id = files[path].row

\* A request about the version failed half way, or a deletion of it ran beside its publication.
Excused(k) == {k, <<"file", rows[k].path>>} \cap (broken \cup raced) # {}

\* Once the requests are over, every version has its file row in the listing.
VersionsAreListed ==
    Quiescent => \A k \in DOMAIN rows :
        ~Excused(k) => \E path \in Listed : files[path].row = rows[k].id
=============================================================================
