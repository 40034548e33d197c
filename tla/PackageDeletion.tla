--------------------------- MODULE PackageDeletion ---------------------------
(***************************************************************************)
(* The deletion of packages through the API and by the retention task, for *)
(* every format that does not delete in a way of its own.  A request names *)
(* paths; each is erased from the storage, then the versions and the file  *)
(* rows below it leave the catalog.  The retention task picks its paths    *)
(* from the file rows and hands them to the same code.                     *)
(***************************************************************************)
EXTENDS Catalog

\* catalog_deletion_mode: what a deleted path says of the version's path.
StripLast == {"npm", "cargo", "python", "maven", "mavenProxy", "nuget", "nugetProxy"}
ExactPath == {"php", "phpProxy", "deb", "debProxy", "ruby", "rubyProxy"}
CatalogMode == kind \in StripLast \cup ExactPath
EvictsByKey == {"pythonProxy", "npmProxy", "phpProxy", "mavenProxy"}

\* Mutant: the path of a file is taken for the path of its version.
DeriveSamePath(path) == IF kind \in ExactPath \cup StripLast THEN {path} ELSE {}

DeriveVersionPath(path) ==
    IF kind \in ExactPath THEN {path}
    ELSE IF kind \in StripLast /\ Len(path) > 1 THEN {Parent(path)} ELSE {}

\* The versions a set of catalog paths selects, with everything below when trees.
Selected(paths, trees) ==
    {k \in DOMAIN rows : \E q \in paths :
        rows[k].path = q \/ (trees /\ Under(q, rows[k].path))}

\* The versions retention may remove: not among the newest `keep` file rows of the package,
\* and modified before the cutoff.
RetentionCandidates(keep, cutoff) ==
    {path \in Listed :
        /\ files[path].stamp < cutoff
        /\ Cardinality({q \in Listed : files[q].p = files[path].p
                                      /\ files[q].stamp > files[path].stamp}) >= keep}

NoSelection == [todo |-> {}, cur |-> <<>>, dir |-> FALSE, targets |-> {}, trees |-> {},
                done |-> {}]

\* A request names what the package list shows, or an artifact in the storage; the index and
\* metadata files of the formats are not packages.
Deletable == Listed \cup {path \in DOMAIN store : HasKey(path) /\ path[1] # Dir("simple")}
DeletePackages(c) == \E path \in Deletable :
    Start(c, [NoJob EXCEPT !.op = "delete", !.plan = <<"nextPath">>, !.path = path,
                           !.mem = [NoSelection EXCEPT !.todo = {path}]])

\* The retention task runs beside the requests; its advisory lock keeps a second run out.
RetentionRun(c) == \E keep \in 0 .. 1, cutoff \in 1 .. used.clock + 1 :
    /\ Running("retention") = {}
    /\ RetentionCandidates(keep, cutoff) # {}
    /\ Start(c, [NoJob EXCEPT !.op = "retention", !.plan = <<"nextPath">>,
                  !.mem = [NoSelection EXCEPT !.todo = RetentionCandidates(keep, cutoff)]])

\* The loop over the paths: is it a directory (asked only when the catalog cares)?
NextPath(c) ==
    /\ At(c, "nextPath")
    /\ LET s == job[c].mem IN
       \/ \E path \in s.todo :
             job' = [job EXCEPT ![c].plan = <<"erase">>,
                        ![c].reads = @ \cup Selected({path} \cup DeriveVersionPath(path), TRUE)
                                       \cup {<<"file", q>> : q \in {path} \cup DeriveVersionPath(path)},
                        ![c].mem = [s EXCEPT !.todo = @ \ {path}, !.cur = path,
                                             !.dir = CatalogMode /\ IsDirectory(path)]]
       \/ /\ s.todo = {}
          /\ Goto(c, IF CatalogMode THEN <<"targets", "trees", "soft">> ELSE <<"soft">>)
    /\ UNCHANGED <<worldVars, store, catalogVars, aux, used, historyVars>>

\* The metadata of a local directory is a file inside it, and goes with it.
MetaWithout(dir) ==
    IF kind \in {"maven", "mavenProxy"} /\ storage = "local"
    THEN [aux EXCEPT !.meta = Keep(@, LAMBDA d : ~Under(dir, d)),
                     !.dirs = {d \in @ : ~Under(dir, d)}]
    ELSE aux

\* delete_file and what it teaches the deletion: a missing path still loses its catalog tree.
Erase(c) ==
    /\ At(c, "erase")
    /\ LET s == job[c].mem
           gone == DeletedPaths(s.cur)
       IN /\ store' = Drop(store, gone)
          /\ aux' = MetaWithout(s.cur)
          /\ Touch(c, {<<"file", q>> : q \in gone \cup UNION {DeriveVersionPath(g) : g \in gone}})
          /\ \/ /\ gone # {}
                /\ job' = [job EXCEPT
                     ![c].plan = IF kind \in EvictsByKey THEN <<"evict", "nextPath">>
                                 ELSE <<"nextPath">>,
                     ![c].mem = IF s.dir THEN [s EXCEPT !.done = @ \cup {s.cur},
                                                        !.trees = @ \cup {s.cur}]
                                ELSE [s EXCEPT !.done = @ \cup {s.cur},
                                          !.targets = IF CatalogMode
                                                      THEN @ \cup {s.cur} \cup DeriveVersionPath(s.cur)
                                                      ELSE @]]
             \/ /\ gone = {}
                /\ job' = [job EXCEPT ![c].plan = <<"nextPath">>,
                                      ![c].mem = [s EXCEPT !.trees = @ \cup {s.cur}]]
    /\ UNCHANGED <<worldVars, catalogVars, used, broken>>

\* A file that cannot be deleted is logged and counted as missing, and the loop goes on.
EraseFails(c) ==
    /\ At(c, "erase")
    /\ Fault(c)
    /\ Goto(c, <<"nextPath">>)
    /\ UNCHANGED <<worldVars, store, catalogVars, aux, raced>>

\* npm: the tags of a project whose tag column is NULL are inferred from its versions.
StableVersions(p) == {v \in VersionsOf(p) : v \notin Prereleases}
LegacyTags(p) ==
    IF StableVersions(p) = {} THEN EmptyMap
    ELSE [t \in {"latest"} |->
             CHOOSE v \in StableVersions(p) : \A w \in StableVersions(p) : NewestFirst(p, v, w)]

\* Mutant: the tags of deleted versions stay.
TagsUntouched(keys) == aux.tags
\* clear_deleted_version_tags, in the transaction that deletes the versions.
TagsWithout(keys) ==
    [p \in Packages |->
        LET lost == {v \in Versions : <<p, v>> \in keys}
            inferred == {LegacyTags(p)[t] : t \in DOMAIN LegacyTags(p)}
        IN IF aux.tags[p] # {}
           THEN {Keep(m, LAMBDA t : m[t] \notin lost) : m \in aux.tags[p]}
           ELSE IF inferred \cap lost # {} THEN {EmptyMap} ELSE {}]

\* One transaction of sql_delete_project_versions.
DeleteVersions(c, step, paths, trees) ==
    /\ At(c, step)
    /\ LET keys == Selected(paths, trees)
           left == WithoutVersions(keys)
       IN /\ rows' = Drop(rows, keys)
          /\ files' = [q \in DOMAIN left |->
                         IF \E t \in paths : q = t \/ (trees /\ Under(t, q))
                         THEN [left[q] EXCEPT !.gone = TRUE] ELSE left[q]]
          /\ aux' = IF kind = "npm" THEN [aux EXCEPT !.tags = TagsWithout(keys)] ELSE aux
          /\ Touch(c, keys \cup {<<"versions", k[1]>> : k \in keys})
    /\ Advance(c)
    /\ UNCHANGED <<worldVars, store, projects, used, broken>>

DeleteTargets(c) == DeleteVersions(c, "targets", job[c].mem.targets, FALSE)
DeleteTrees(c) == DeleteVersions(c, "trees", job[c].mem.trees, TRUE)

\* soft_delete_by_paths, whose failure is ignored, and the reply.
SoftDelete(c) ==
    /\ At(c, "soft")
    /\ \/ /\ files' = [q \in DOMAIN files |->
                      IF q \in job[c].mem.done THEN [files[q] EXCEPT !.gone = TRUE] ELSE files[q]]
          /\ UNCHANGED <<used, broken>>
       \/ Fault(c) /\ job[c].mem.done # {} /\ UNCHANGED files
    /\ Reply(c, 200, Nothing)
    /\ UNCHANGED <<worldVars, store, projects, rows, aux, raced>>

DeletionSteps(c) ==
    \/ NextPath(c) \/ Erase(c) \/ EraseFails(c) \/ DeleteTargets(c) \/ DeleteTrees(c) \/ SoftDelete(c)

-----------------------------------------------------------------------------
\* Once the requests are over, a version in the catalog of a hosted repository has a file in
\* the storage, unless requests about it overlapped or one failed half way.  (A Helm
\* repository that refuses to overwrite deletes the chart it has, see HelmPublishedKept.)
CataloguedIsStored ==
    kind \in {"npm", "cargo", "go", "python", "maven", "nuget", "ruby", "php", "deb"} /\ Quiescent =>
        \A k \in DOMAIN rows :
            ~Excused(k) => \E path \in DOMAIN store : Under(rows[k].path, path)
=============================================================================
