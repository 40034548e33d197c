----------------------------- MODULE CargoHosted -----------------------------
(***************************************************************************)
(* The hosted Cargo registry.  A publication checks the catalog, saves the *)
(* archive, rewrites the sparse index of the crate (read, append, save)    *)
(* and inserts the version last.  The index of a crate is a file whose     *)
(* content maps the versions listed to the checksum of their archive.      *)
(* Deleting a version leaves its line in the index.                        *)
(***************************************************************************)
EXTENDS PackageDeletion

CargoVersionPath(p, v) == <<Dir("crates"), Dir(p), File(Blank, v, Blank)>>
CargoArchive(p, v) == CargoVersionPath(p, v) \o <<File(p, v, "crate")>>
CargoIndexPath(p) == <<Dir("index"), Dir(p)>>
CargoIndex(p) == IF CargoIndexPath(p) \in DOMAIN store THEN store[CargoIndexPath(p)] ELSE EmptyMap

\* What a publish payload says: the crate, the version and the archive.  A malformed payload
\* is refused before anything is read.
CargoPublish(c) == \E p \in Packages, v \in Versions, b \in Bodies \cup {"malformed"} :
    Start(c, IF b = "malformed" THEN Refused("cargoPublish", 400)
             ELSE [NoJob EXCEPT !.op = "cargoPublish", !.p = p, !.v = v, !.body = b,
                     !.plan = <<"project", "cargoVersion", "cargoArchive", "cargoReadIndex",
                                "cargoSaveIndex", "newVersion", "cargoDone">>,
                     !.mem = [path |-> CargoVersionPath(p, v), file |-> CargoVersionPath(p, v),
                              extra |-> b, index |-> EmptyMap]])

\* Mutant: the catalog is not asked whether the version exists.
CargoNoCheck(c) ==
    /\ At(c, "cargoVersion") /\ Advance(c)
    /\ UNCHANGED <<worldVars, store, catalogVars, aux, used, historyVars>>
CargoVersion(c) ==
    /\ At(c, "cargoVersion")
    /\ IF Key(c) \in DOMAIN rows THEN Reply(c, 409, Nothing)
       ELSE job' = [job EXCEPT ![c].plan = Rest(c), ![c].reads = {Key(c)}]
    /\ UNCHANGED <<worldVars, store, catalogVars, aux, used, historyVars>>

CargoSaveArchive(c) ==
    /\ At(c, "cargoArchive")
    /\ store' = Put(store, CargoArchive(job[c].p, job[c].v), job[c].body)
    /\ Touch(c, {Key(c), <<"file", CargoArchive(job[c].p, job[c].v)>>,
                 <<"file", CargoVersionPath(job[c].p, job[c].v)>>})
    /\ job' = [job EXCEPT ![c].plan = Rest(c),
                          ![c].reads = @ \cup {<<"file", CargoArchive(job[c].p, job[c].v)>>,
                                                 <<"file", CargoVersionPath(job[c].p, job[c].v)>>}]
    /\ UNCHANGED <<worldVars, catalogVars, aux, used, broken>>

\* update_sparse_index: a version the index lists already is refused, the archive stays.
CargoReadIndex(c) ==
    /\ At(c, "cargoReadIndex")
    /\ LET index == CargoIndex(job[c].p) IN
       IF job[c].v \in DOMAIN index THEN Reply(c, 409, Nothing)
       ELSE job' = [job EXCEPT ![c].plan = Rest(c), ![c].mem.index = index,
                               ![c].reads = @ \cup {<<"index", job[c].p>>}]
    /\ UNCHANGED <<worldVars, store, catalogVars, aux, used, historyVars>>
CargoSaveIndex(c) ==
    /\ At(c, "cargoSaveIndex")
    /\ store' = Put(store, CargoIndexPath(job[c].p), Put(job[c].mem.index, job[c].v, job[c].body))
    /\ Touch(c, {<<"index", job[c].p>>, <<"file", CargoIndexPath(job[c].p)>>})
    /\ Advance(c)
    /\ UNCHANGED <<worldVars, catalogVars, aux, used, broken>>

CargoDone(c) ==
    /\ At(c, "cargoDone") /\ Reply(c, 200, Nothing)
    /\ UNCHANGED <<worldVars, store, catalogVars, aux, used, historyVars>>

\* A line of the sparse index, an archive, and the crate's versions out of the catalog.
CargoSparseIndex(c) == \E p \in Packages :
    /\ CargoIndexPath(p) \in DOMAIN store
    /\ Start(c, Refused("cargoIndex", 200))
CargoDownload(c) == \E p \in Packages, v \in Versions :
    Start(c, IF CargoArchive(p, v) \in DOMAIN store THEN Refused("cargoGet", 200)
             ELSE Refused("cargoGet", 404))
CargoMetadata(c) == \E p \in Packages :
    Start(c, IF p \in projects THEN Refused("cargoMetadata", 200) ELSE Refused("cargoMetadata", 404))

CargoHostedStep(c) ==
    \/ CargoPublish(c) \/ CargoVersion(c) \/ CargoSaveArchive(c) \/ CargoReadIndex(c)
    \/ CargoSaveIndex(c) \/ CargoDone(c)
    \/ CargoSparseIndex(c) \/ CargoDownload(c) \/ CargoMetadata(c) \/ DeletePackages(c)

-----------------------------------------------------------------------------
\* Once the requests are over, a version in the catalog is in the sparse index with the
\* checksum of the archive that is served: what Cargo resolves it can download and verify.
\* Excused are a request that failed half way, publications of the same version at a time, and
\* publications of the crate whose rewrites of the index overlapped.
CargoIndexServesArchive ==
    kind = "cargo" /\ Quiescent => \A k \in DOMAIN rows :
        LET archive == CargoArchive(k[1], k[2]) IN
        ~Excused(k) /\ {<<"index", k[1]>>, <<"file", archive>>} \cap (raced \cup broken) = {} =>
          /\ archive \in DOMAIN store
          /\ k[2] \in DOMAIN CargoIndex(k[1]) /\ CargoIndex(k[1])[k[2]] = store[archive]
=============================================================================
