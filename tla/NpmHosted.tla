------------------------------ MODULE NpmHosted ------------------------------
(***************************************************************************)
(* The hosted npm registry.  The catalog holds the versions and their      *)
(* metadata, the storage the tarballs, and the project row the dist-tags:  *)
(* aux.tags[p] is empty while the column is NULL (the tags are then        *)
(* inferred from the versions), else the set of its one value.             *)
(***************************************************************************)
EXTENDS PackageDeletion

NpmTags == {"latest", "beta"}
NpmInit == [tags |-> [p \in Packages |-> {}]]

NpmVersionPath(p, v) == <<Dir(p), File(Blank, v, Blank)>>
NpmTarball(p, v) == NpmVersionPath(p, v) \o <<File(p, v, "tgz")>>

LoadTags(p) == IF aux.tags[p] = {} THEN LegacyTags(p) ELSE CHOOSE m \in aux.tags[p] : TRUE
Merged(stored, fallback, tags) ==
    LET old == IF stored = {} THEN fallback ELSE CHOOSE m \in stored : TRUE
    IN [t \in DOMAIN old \cup DOMAIN tags |-> IF t \in DOMAIN tags THEN tags[t] ELSE old[t]]

\* publish_tags: without a tag the version becomes latest.
PublishTags(tags, v) == [t \in IF tags = {} THEN {"latest"} ELSE tags |-> v]

\* What a publication says of itself: the name in the route, in the body and in the
\* advertised tarball URL, and the versions of the body and of the metadata.
NpmPublications == [route : Packages, name : Packages, target : Packages,
                    v : Versions, data : Versions, tags : {{}, {"beta"}}, body : Bodies]
ValidPublication(r) == r.name = r.route /\ r.target = r.name /\ r.data = r.v

NpmPublish(c) == \E r \in NpmPublications :
    Start(c, IF ~ValidPublication(r) THEN Refused("npmPublish", 400)
             ELSE [NoJob EXCEPT !.op = "npmPublish", !.p = r.name, !.v = r.v, !.body = r.body,
                     !.plan = <<"project", "npmFallback", "npmVersion", "npmTarball", "npmMerge">>,
                     !.mem = [path |-> NpmVersionPath(r.name, r.v), file |-> NpmVersionPath(r.name, r.v),
                              extra |-> r.body, tags |-> PublishTags(r.tags, r.v),
                              fallback |-> EmptyMap]])

\* The tags to fall back on are read before the version is inserted.
NpmFallback(c) ==
    /\ At(c, "npmFallback")
    /\ LET old == LoadTags(job[c].p)
       IN job' = [job EXCEPT ![c].plan = Rest(c), ![c].mem.fallback = old,
                             ![c].reads = {Key(c)} \cup {<<job[c].p, old[t]>> : t \in DOMAIN old}]
    /\ UNCHANGED <<worldVars, store, catalogVars, aux, used, historyVars>>

\* create_version_if_missing: the metadata of a version published before is kept.
NpmVersion(c) ==
    /\ At(c, "npmVersion")
    /\ Goto(c, IF Key(c) \in DOMAIN rows THEN Rest(c) ELSE <<"newVersion">> \o Rest(c))
    /\ UNCHANGED <<worldVars, store, catalogVars, aux, used, historyVars>>

NpmSaveTarball(c) ==
    /\ At(c, "npmTarball")
    /\ store' = Put(store, NpmTarball(job[c].p, job[c].v), job[c].body)
    /\ Advance(c)
    /\ UNCHANGED <<worldVars, catalogVars, aux, used, historyVars>>

\* The transaction that locks the project and merges the tags.
NpmMergeTags(c) ==
    /\ At(c, "npmMerge")
    /\ aux' = [aux EXCEPT !.tags[job[c].p] = {Merged(@, job[c].mem.fallback, job[c].mem.tags)}]
    /\ Reply(c, 204, Nothing)
    /\ UNCHANGED <<worldVars, store, catalogVars, used, historyVars>>

\* A dist-tag is set or removed in one transaction that locks the project first.
NpmDistTag(c) == \E p \in Packages, t \in NpmTags, v \in Versions \cup {0} :
    LET tags == LoadTags(p) IN
    /\ ~(v = 0 /\ t = "latest")                    \* latest cannot be removed
    /\ p \in projects
    /\ Free(c)
    /\ used' = [used EXCEPT !.requests = @ + 1]
    /\ \/ /\ (v # 0 /\ v \notin VersionsOf(p)) \/ (v = 0 /\ t \notin DOMAIN tags)
          /\ job' = [job EXCEPT ![c] = Refused("npmTag", 404)]
          /\ UNCHANGED aux
       \/ /\ v \in VersionsOf(p)
          /\ aux' = [aux EXCEPT !.tags[p] = {Merged(@, tags, [x \in {t} |-> v])}]
          /\ job' = [job EXCEPT ![c] = Refused("npmTag", 204)]
       \/ /\ v = 0 /\ t \in DOMAIN tags
          /\ aux' = [aux EXCEPT !.tags[p] = {[x \in DOMAIN tags \ {t} |-> tags[x]]}]
          /\ job' = [job EXCEPT ![c] = Refused("npmTag", 204)]
    /\ UNCHANGED <<worldVars, store, catalogVars, historyVars>>

\* The package document: the versions are read first, the tags after.
NpmInfo(c) == \E p \in projects :
    Start(c, [NoJob EXCEPT !.op = "npmInfo", !.p = p, !.plan = <<"npmVersions", "npmTags">>])
\* Mutant: the pre-releases are left out of the document.
NpmInfoStable(c) ==
    /\ At(c, "npmVersions")
    /\ Recall(c, Rest(c), [versions |-> StableVersions(job[c].p)], {<<"versions", job[c].p>>})
    /\ UNCHANGED <<worldVars, store, catalogVars, aux, used, historyVars>>
NpmInfoVersions(c) ==
    /\ At(c, "npmVersions")
    /\ Recall(c, Rest(c), [versions |-> VersionsOf(job[c].p)], {<<"versions", job[c].p>>})
    /\ UNCHANGED <<worldVars, store, catalogVars, aux, used, historyVars>>
NpmInfoTags(c) ==
    /\ At(c, "npmTags")
    /\ Reply(c, 200, [p |-> job[c].p, versions |-> job[c].mem.versions, tags |-> LoadTags(job[c].p)])
    /\ UNCHANGED <<worldVars, store, catalogVars, aux, used, historyVars>>

\* A tarball: the version row gives the path, the storage the bytes.
NpmTarballGet(c) == \E p \in projects, v \in Versions :
    Start(c, [NoJob EXCEPT !.op = "npmGet", !.p = p, !.v = v, !.plan = <<"npmResolve", "npmOpen">>])
NpmResolveTarball(c) ==
    /\ At(c, "npmResolve")
    /\ IF Key(c) \in DOMAIN rows THEN Advance(c) ELSE Reply(c, 404, Nothing)
    /\ UNCHANGED <<worldVars, store, catalogVars, aux, used, historyVars>>
NpmOpenTarball(c) ==
    /\ At(c, "npmOpen")
    /\ LET path == NpmTarball(job[c].p, job[c].v)
       IN IF path \in DOMAIN store THEN Reply(c, 200, Shows(store[path])) ELSE Reply(c, 404, Nothing)
    /\ UNCHANGED <<worldVars, store, catalogVars, aux, used, historyVars>>

\* update_deprecations: all the named versions exist or nothing changes.
NpmDeprecate(c) == \E p \in projects, vs \in SUBSET Versions \ {{}} :
    Start(c, Refused("npmDeprecate", IF vs \subseteq VersionsOf(p) THEN 204 ELSE 404))

NpmHostedStep(c) ==
    \/ NpmPublish(c) \/ NpmFallback(c) \/ NpmVersion(c) \/ NpmSaveTarball(c) \/ NpmMergeTags(c)
    \/ NpmDistTag(c) \/ NpmDeprecate(c)
    \/ NpmInfo(c) \/ NpmInfoVersions(c) \/ NpmInfoTags(c)
    \/ NpmTarballGet(c) \/ NpmResolveTarball(c) \/ NpmOpenTarball(c)
    \/ DeletePackages(c) \/ RetentionRun(c)

-----------------------------------------------------------------------------
\* A dist-tag names a version that exists, unless that version was deleted while a
\* publication that read or created it had still to write its tags.
NpmTagsResolve ==
    kind = "npm" => \A p \in Packages : \A m \in aux.tags[p] : \A t \in DOMAIN m :
        <<p, m[t]>> \in DOMAIN rows \cup raced

\* A package document is of one moment: its tags name versions it lists, unless the versions
\* changed while it was put together.
NpmDocumentConsistent ==
    kind = "npm" => \A c \in Clients : job[c].op = "npmInfo" /\ job[c].code = 200 =>
        \A t \in DOMAIN job[c].got.tags :
            \/ job[c].got.tags[t] \in job[c].got.versions
            \/ <<"versions", job[c].got.p>> \in raced
            \/ <<job[c].got.p, job[c].got.tags[t]>> \in raced
=============================================================================
