------------------------- MODULE RepositoriesProofs -------------------------
(***************************************************************************)
(* Proofs about Repositories: a repository keeps its kind and its storage, *)
(* and every file row of the catalog that names a version names one that   *)
(* exists, in every format, for any number of requests and any faults.     *)
(*                                                                         *)
(* Most steps of most formats leave the catalog alone; a lemma says so of  *)
(* each.  The few that write it do so through the operators of Catalog and *)
(* PackageDeletion, one lemma each.                                        *)
(***************************************************************************)
EXTENDS Repositories, TLAPS

\* A repository keeps its kind and its storage.
Fixed == kind' = kind /\ storage' = storage
\* The step leaves the catalog alone as well.
Rests == Fixed /\ rows' = rows /\ files' = files
\* The fields of a version.
RowShape(r) == r = [path |-> r.path, file |-> r.file, extra |-> r.extra, id |-> r.id]
\* The fields of a file row.
FileRowShape(f) == f = [row |-> f.row, p |-> f.p, gone |-> f.gone, stamp |-> f.stamp]
\* The invariant: the rows are rows, and no file row outlives its version.
RowsInv ==
    /\ \A k \in DOMAIN rows : RowShape(rows[k])
    /\ \A q \in DOMAIN files : FileRowShape(files[q])
    /\ FileRowsHaveVersions

\* A step that leaves the catalog alone keeps the invariant.
LEMMA RowsRest == ASSUME RowsInv, Rests PROVE Fixed /\ RowsInv'
  BY DEF RowsInv, Rests, RowShape, FileRowShape, FileRowsHaveVersions

\* Versions that go take their file rows with them; the rows that stay may be marked.
LEMMA RowsGo ==
  ASSUME RowsInv, NEW keys, NEW left, left = WithoutVersions(keys), rows' = Drop(rows, keys),
         DOMAIN files' = DOMAIN left,
         \A q \in DOMAIN left : files'[q] = left[q] \/ files'[q] = [left[q] EXCEPT !.gone = TRUE]
  PROVE RowsInv'
<1>1. DOMAIN rows' = DOMAIN rows \ keys /\ \A k \in DOMAIN rows' : rows'[k] = rows[k]
  BY DEF Drop
<1>2. /\ DOMAIN left = {q \in DOMAIN files : files[q].row \notin RowIds(keys)}
      /\ \A q \in DOMAIN left : left[q] = files[q]
  BY DEF WithoutVersions, Keep
<1>3. \A k \in DOMAIN rows' : RowShape(rows'[k])
  BY <1>1 DEF RowsInv, RowShape
<1>4. ASSUME NEW q \in DOMAIN files' PROVE FileRowShape(files'[q]) /\ files'[q].row = files[q].row
  <2>1. PICK f : f = files[q]
    OBVIOUS
  <2>2. FileRowShape(f) /\ left[q] = f
    BY <1>2, <2>1 DEF RowsInv
  <2>3. files'[q] = f \/ files'[q] = [f EXCEPT !.gone = TRUE]
    BY <2>2
  <2> QED BY <2>1, <2>2, <2>3 DEF FileRowShape
<1>5. ASSUME NEW q \in DOMAIN files', files'[q].row # 0
      PROVE \E k \in DOMAIN rows' : rows'[k].id = files'[q].row
  <2>1. q \in DOMAIN files /\ files[q].row # 0 /\ files[q].row \notin RowIds(keys) /\ files'[q].row = files[q].row
    BY <1>2, <1>4, <1>5
  <2>2. PICK k \in DOMAIN rows : rows[k].id = files[q].row
    BY <2>1 DEF RowsInv, FileRowsHaveVersions
  <2>3. k \notin keys
    BY <2>1, <2>2 DEF RowIds
  <2> QED BY <1>1, <2>1, <2>2, <2>3
<1> QED BY <1>3, <1>4, <1>5 DEF RowsInv, FileRowsHaveVersions

\* Versions are dropped with their file rows.
LEMMA RowsDropped ==
  ASSUME RowsInv, NEW keys, rows' = Drop(rows, keys), files' = WithoutVersions(keys)
  PROVE RowsInv'
  BY RowsGo

\* The deletion of a file or a tree drops the versions it selects and marks the files.
LEMMA RowsDeleted ==
  ASSUME RowsInv, NEW c, NEW step, NEW paths, NEW trees, DeleteVersions(c, step, paths, trees)
  PROVE Fixed /\ RowsInv'
<1> DEFINE keys == Selected(paths, trees)
           left == WithoutVersions(keys)
           Marked(q) == \E t \in paths : q = t \/ (trees /\ Under(t, q))
<1>1. /\ rows' = Drop(rows, keys)
      /\ files' = [q \in DOMAIN left |-> IF Marked(q) THEN [left[q] EXCEPT !.gone = TRUE] ELSE left[q]]
      /\ Fixed
  BY DEF DeleteVersions, Fixed, worldVars
<1> HIDE DEF keys, left, Marked
<1>2. left = WithoutVersions(keys)
  BY DEF left
<1> QED BY <1>1, <1>2, RowsGo

\* A version is inserted, with an id no file row has.
LEMMA RowInserted == ASSUME RowsInv, NEW c, InsertVersion(c) PROVE Fixed /\ RowsInv'
<1>1. Fixed /\ files' = files
  BY DEF InsertVersion, Fixed, worldVars
<1>2. CASE rows' = rows
  BY <1>1, <1>2, RowsRest DEF Rests
<1>3. CASE InsertAllowed(c) /\ rows' = Put(rows, Key(c), NewRow(job[c].mem))
  <2> DEFINE K == Key(c)
             R == NewRow(job[c].mem)
  <2>1. K \notin DOMAIN rows /\ rows' = Put(rows, K, R)
    BY <1>3 DEF InsertAllowed
  <2>2. RowShape(R)
    BY DEF NewRow, RowShape
  <2> HIDE DEF K, R
  <2>3. /\ DOMAIN rows' = DOMAIN rows \cup {K} /\ rows'[K] = R
        /\ \A k \in DOMAIN rows : rows'[k] = rows[k]
    BY <2>1 DEF Put
  <2> QED BY <1>1, <2>2, <2>3 DEF RowsInv, RowShape, FileRowShape, FileRowsHaveVersions
<1> QED BY <1>2, <1>3 DEF InsertVersion

\* A version is rewritten and keeps its id.
LEMMA RowUpdated == ASSUME RowsInv, NEW c, UpdateVersion(c) PROVE Fixed /\ RowsInv'
<1>1. Fixed /\ files' = files
  BY DEF UpdateVersion, Fixed, worldVars
<1>2. CASE rows' = rows
  BY <1>1, <1>2, RowsRest DEF Rests
<1>3. CASE RowStands(c) /\ rows' = [rows EXCEPT ![Key(c)].extra = job[c].mem.extra]
  <2> DEFINE K == Key(c)
  <2> HIDE DEF K
  <2>1. K \in DOMAIN rows /\ rows' = [rows EXCEPT ![K] = [rows[K] EXCEPT !.extra = job[c].mem.extra]]
    BY <1>3 DEF RowStands, K
  <2>2. RowShape(rows[K])
    BY <2>1 DEF RowsInv
  <2>3. PICK r : r = [rows[K] EXCEPT !.extra = job[c].mem.extra]
    OBVIOUS
  <2>4. RowShape(r) /\ r.id = rows[K].id
    BY <2>2, <2>3 DEF RowShape
  <2>5. DOMAIN rows' = DOMAIN rows /\ rows'[K] = r /\ \A k \in DOMAIN rows \ {K} : rows'[k] = rows[k]
    BY <2>1, <2>3
  <2> QED BY <1>1, <2>4, <2>5 DEF RowsInv, RowShape, FileRowShape, FileRowsHaveVersions
<1> QED BY <1>2, <1>3 DEF UpdateVersion

\* A file row is written for a version that exists.
LEMMA FileRowUpserted == ASSUME RowsInv, NEW c, UpsertFileRow(c) PROVE Fixed /\ RowsInv'
<1>1. Fixed /\ rows' = rows
  BY DEF UpsertFileRow, Fixed, worldVars
<1>2. CASE files' = files
  BY <1>1, <1>2, RowsRest DEF Rests
<1>3. CASE /\ RowStands(c)
           /\ files' = Put(files, rows[Key(c)].file,
                         [row |-> job[c].row, p |-> job[c].p, gone |-> FALSE, stamp |-> used.clock])
  <2> DEFINE Q == rows[Key(c)].file
             F == [row |-> job[c].row, p |-> job[c].p, gone |-> FALSE, stamp |-> used.clock]
  <2>1. FileRowShape(F) /\ F.row = job[c].row
    BY DEF FileRowShape
  <2>2. \E k \in DOMAIN rows : rows[k].id = job[c].row
    BY <1>3 DEF RowStands
  <2>3. files' = Put(files, Q, F)
    BY <1>3
  <2> HIDE DEF Q, F
  <2>4. /\ DOMAIN files' = DOMAIN files \cup {Q} /\ files'[Q] = F
        /\ \A q \in DOMAIN files \ {Q} : files'[q] = files[q]
    BY <2>3 DEF Put
  <2> QED BY <1>1, <2>1, <2>2, <2>4 DEF RowsInv, RowShape, FileRowShape, FileRowsHaveVersions
<1> QED BY <1>2, <1>3 DEF UpsertFileRow

\* File rows are marked as gone.
LEMMA FilesMarked == ASSUME RowsInv, NEW c, SoftDelete(c) PROVE Fixed /\ RowsInv'
<1>1. Fixed /\ rows' = rows
  BY DEF SoftDelete, Fixed, worldVars
<1>2. CASE files' = files
  BY <1>1, <1>2, RowsRest DEF Rests
<1>3. CASE files' = [q \in DOMAIN files |->
                      IF q \in job[c].mem.done THEN [files[q] EXCEPT !.gone = TRUE] ELSE files[q]]
  <2>1. DOMAIN files' = DOMAIN files
    BY <1>3
  <2>2. ASSUME NEW q \in DOMAIN files PROVE FileRowShape(files'[q]) /\ files'[q].row = files[q].row
    <3>1. FileRowShape(files[q])
      BY DEF RowsInv
    <3>2. files'[q] = files[q] \/ files'[q] = [files[q] EXCEPT !.gone = TRUE]
      BY <1>3
    <3> QED BY <3>1, <3>2 DEF FileRowShape
  <2> QED BY <1>1, <2>1, <2>2 DEF RowsInv, RowShape, FileRowsHaveVersions
<1> QED BY <1>2, <1>3 DEF SoftDelete

\* The highest version of a Go module takes the place of the one before.
LEMMA GoRowReplaced == ASSUME RowsInv, NEW c, GoPriority(c) PROVE Fixed /\ RowsInv'
<1>1. Fixed
  BY DEF GoPriority, Fixed, worldVars
<1>2. CASE rows' = rows /\ files' = files
  BY <1>1, <1>2, RowsRest DEF Rests
<1>3. CASE rows' = Drop(rows, {Key(c)}) /\ files' = WithoutVersions({Key(c)})
  BY <1>1, <1>3, RowsDropped
<1> QED BY <1>2, <1>3 DEF GoPriority

\* What DeletePackages changes is not the catalog.
LEMMA DeletePackagesRests == ASSUME NEW c, DeletePackages(c) PROVE Rests
  BY DEF DeletePackages, Start, Rests, Fixed, worldVars, catalogVars

\* What GoDeleted changes is not the catalog.
LEMMA GoDeletedRests == ASSUME NEW c, GoDeleted(c) PROVE Rests
  BY DEF GoDeleted, Rests, Fixed, worldVars, catalogVars

\* What GoEraseInfo changes is not the catalog.
LEMMA GoEraseInfoRests == ASSUME NEW c, GoEraseInfo(c) PROVE Rests
  BY DEF GoErase, GoEraseInfo, Touch, Rests, Fixed, worldVars, catalogVars

\* What GoEraseMod changes is not the catalog.
LEMMA GoEraseModRests == ASSUME NEW c, GoEraseMod(c) PROVE Rests
  BY DEF GoErase, GoEraseMod, Touch, Rests, Fixed, worldVars, catalogVars

\* What GoEraseZip changes is not the catalog.
LEMMA GoEraseZipRests == ASSUME NEW c, GoEraseZip(c) PROVE Rests
  BY DEF GoErase, GoEraseZip, Touch, Rests, Fixed, worldVars, catalogVars

\* What MavenDone changes is not the catalog.
LEMMA MavenDoneRests == ASSUME NEW c, MavenDone(c) PROVE Rests
  BY DEF MavenDone, Reply, Rests, Fixed, worldVars, catalogVars

\* What MavenProjectMeta changes is not the catalog.
LEMMA MavenProjectMetaRests == ASSUME NEW c, MavenProjectMeta(c) PROVE Rests
  BY DEF Abort, Advance, Goto, MavenProjectMeta, Reply, Rests, Fixed, worldVars, catalogVars

\* What MavenVersion changes is not the catalog.
LEMMA MavenVersionRests == ASSUME NEW c, MavenVersion(c) PROVE Rests
  BY DEF Abort, Goto, MavenVersion, Reply, Rests, Fixed, worldVars, catalogVars

\* What MavenVersionMeta changes is not the catalog.
LEMMA MavenVersionMetaRests == ASSUME NEW c, MavenVersionMeta(c) PROVE Rests
  BY DEF Abort, Advance, Goto, MavenVersionMeta, Reply, Rests, Fixed, worldVars, catalogVars

\* NpmHostedStep leaves the catalog alone.
LEMMA NpmHostedStepRests == ASSUME NEW c, NpmHostedStep(c) PROVE Rests
<1>1. CASE NpmPublish(c)
  BY <1>1 DEF NpmPublish, Start, Rests, Fixed, worldVars, catalogVars
<1>2. CASE NpmFallback(c)
  BY <1>2 DEF NpmFallback, Rests, Fixed, worldVars, catalogVars
<1>3. CASE NpmVersion(c)
  BY <1>3 DEF Goto, NpmVersion, Rests, Fixed, worldVars, catalogVars
<1>4. CASE NpmSaveTarball(c)
  BY <1>4 DEF Advance, Goto, NpmSaveTarball, Rests, Fixed, worldVars, catalogVars
<1>5. CASE NpmMergeTags(c)
  BY <1>5 DEF NpmMergeTags, Reply, Rests, Fixed, worldVars, catalogVars
<1>6. CASE NpmDistTag(c)
  BY <1>6 DEF NpmDistTag, Rests, Fixed, worldVars, catalogVars
<1>7. CASE NpmDeprecate(c)
  BY <1>7 DEF NpmDeprecate, Start, Rests, Fixed, worldVars, catalogVars
<1>8. CASE NpmInfo(c)
  BY <1>8 DEF NpmInfo, Start, Rests, Fixed, worldVars, catalogVars
<1>9. CASE NpmInfoVersions(c)
  BY <1>9 DEF NpmInfoVersions, Recall, Rests, Fixed, worldVars, catalogVars
<1>10. CASE NpmInfoTags(c)
  BY <1>10 DEF NpmInfoTags, Reply, Rests, Fixed, worldVars, catalogVars
<1>11. CASE NpmTarballGet(c)
  BY <1>11 DEF NpmTarballGet, Start, Rests, Fixed, worldVars, catalogVars
<1>12. CASE NpmResolveTarball(c)
  BY <1>12 DEF Advance, Goto, NpmResolveTarball, Reply, Rests, Fixed, worldVars, catalogVars
<1>13. CASE NpmOpenTarball(c)
  BY <1>13 DEF NpmOpenTarball, Reply, Rests, Fixed, worldVars, catalogVars
<1>14. CASE DeletePackages(c)
  BY <1>14, DeletePackagesRests
<1>15. CASE RetentionRun(c)
  BY <1>15 DEF RetentionRun, Start, Rests, Fixed, worldVars, catalogVars
<1> QED BY <1>1, <1>2, <1>3, <1>4, <1>5, <1>6, <1>7, <1>8, <1>9, <1>10, <1>11, <1>12, <1>13,
               <1>14, <1>15 DEF NpmHostedStep

\* NpmProxyStep leaves the catalog alone.
LEMMA NpmProxyStepRests == ASSUME NEW c, NpmProxyStep(c) PROVE Rests
<1>1. CASE NpmCached(c)
  BY <1>1 DEF CacheLookup, NpmCached, Reply, Rests, Fixed, worldVars, catalogVars
<1>2. CASE NpmFetch(c)
  BY <1>2 DEF Fault, FetchUpstream, Goto, NpmFetch, Rests, Fixed, worldVars, catalogVars
<1>3. CASE NpmSave(c)
  BY <1>3 DEF Advance, Goto, NpmSave, SaveFetched, Touch, Rests, Fixed, worldVars, catalogVars
<1>4. CASE NpmServe(c)
  BY <1>4 DEF Goto, NpmServe, Reply, ServeOrPass, Rests, Fixed, worldVars, catalogVars
<1>5. CASE NpmProxyGet(c)
  BY <1>5 DEF NpmProxyGet, Start, Rests, Fixed, worldVars, catalogVars
<1>6. CASE NpmProxyDocument(c)
  BY <1>6 DEF NpmProxyDocument, Start, Rests, Fixed, worldVars, catalogVars
<1>7. CASE NpmProxyHead(c)
  BY <1>7 DEF NpmProxyDocument, NpmProxyGet, NpmProxyHead, Start, Rests, Fixed, worldVars,
         catalogVars
<1>8. CASE NpmIndexDocument(c)
  BY <1>8 DEF Goto, NpmIndexDocument, Rests, Fixed, worldVars, catalogVars
<1>9. CASE DeletePackages(c)
  BY <1>9, DeletePackagesRests
<1> QED BY <1>1, <1>2, <1>3, <1>4, <1>5, <1>6, <1>7, <1>8, <1>9 DEF NpmProxyStep

\* MavenHostedStep leaves the catalog alone.
LEMMA MavenHostedStepRests == ASSUME NEW c, MavenHostedStep(c) PROVE Rests
<1>1. CASE MavenDeployPom(c)
  BY <1>1 DEF MavenDeployPom, Start, Rests, Fixed, worldVars, catalogVars
<1>2. CASE MavenDeployFile(c)
  BY <1>2 DEF MavenDeployFile, Start, Rests, Fixed, worldVars, catalogVars
<1>3. CASE MavenSave(c)
  BY <1>3 DEF MavenSave, Touch, Rests, Fixed, worldVars, catalogVars
<1>4. CASE MavenStreamToTemp(c)
  BY <1>4 DEF Advance, Goto, MavenStreamToTemp, Rests, Fixed, worldVars, catalogVars
<1>5. CASE MavenMove(c)
  BY <1>5 DEF Advance, Goto, MavenMove, Reply, Rests, Fixed, worldVars, catalogVars
<1>6. CASE MavenProjectMeta(c)
  BY <1>6, MavenProjectMetaRests
<1>7. CASE MavenVersion(c)
  BY <1>7, MavenVersionRests
<1>8. CASE MavenVersionMeta(c)
  BY <1>8, MavenVersionMetaRests
<1>9. CASE MavenDone(c)
  BY <1>9, MavenDoneRests
<1>10. CASE MavenGet(c)
  BY <1>10 DEF MavenGet, Start, Rests, Fixed, worldVars, catalogVars
<1>11. CASE MavenResolve(c)
  BY <1>11 DEF MavenResolve, Start, Rests, Fixed, worldVars, catalogVars
<1>12. CASE DeletePackages(c)
  BY <1>12, DeletePackagesRests
<1>13. CASE MavenStreamFails(c)
  BY <1>13 DEF CleanFault, MavenStreamFails, Reply, Rests, Fixed, worldVars, catalogVars
<1> QED BY <1>1, <1>2, <1>3, <1>4, <1>5, <1>6, <1>7, <1>8, <1>9, <1>10, <1>11, <1>12, <1>13 DEF
               MavenHostedStep

\* MavenProxyStep leaves the catalog alone.
LEMMA MavenProxyStepRests == ASSUME NEW c, MavenProxyStep(c) PROVE Rests
<1>1. CASE MavenProxyGet(c)
  BY <1>1 DEF MavenProxyGet, Start, Rests, Fixed, worldVars, catalogVars
<1>2. CASE MavenProxyHead(c)
  BY <1>2 DEF MavenProxyHead, Start, Rests, Fixed, worldVars, catalogVars
<1>3. CASE MavenCached(c)
  BY <1>3 DEF CacheLookup, MavenCached, Reply, Rests, Fixed, worldVars, catalogVars
<1>4. CASE MavenFetch(c)
  BY <1>4 DEF Fault, FetchUpstream, Goto, MavenFetch, Rests, Fixed, worldVars, catalogVars
<1>5. CASE MavenStore(c)
  BY <1>5 DEF Advance, Goto, MavenStore, Touch, Rests, Fixed, worldVars, catalogVars
<1>6. CASE MavenSpawn(c)
  BY <1>6 DEF Advance, Goto, MavenSpawn, Rests, Fixed, worldVars, catalogVars
<1>7. CASE MavenPrefetch(c)
  BY <1>7 DEF MavenPrefetch, Rests, Fixed, worldVars, catalogVars
<1>8. CASE MavenMissing(c)
  BY <1>8 DEF Goto, MavenMissing, Rests, Fixed, worldVars, catalogVars
<1>9. CASE MavenDescribed(c)
  BY <1>9 DEF MavenDescribed, Rests, Fixed, worldVars, catalogVars
<1>10. CASE MavenProjectMeta(c)
  BY <1>10, MavenProjectMetaRests
<1>11. CASE MavenVersion(c)
  BY <1>11, MavenVersionRests
<1>12. CASE MavenVersionMeta(c)
  BY <1>12, MavenVersionMetaRests
<1>13. CASE MavenDone(c)
  BY <1>13, MavenDoneRests
<1>14. CASE DeletePackages(c)
  BY <1>14, DeletePackagesRests
<1> QED BY <1>1, <1>2, <1>3, <1>4, <1>5, <1>6, <1>7, <1>8, <1>9, <1>10, <1>11, <1>12, <1>13, <1>14
               DEF MavenProxyStep

\* CargoHostedStep leaves the catalog alone.
LEMMA CargoHostedStepRests == ASSUME NEW c, CargoHostedStep(c) PROVE Rests
<1>1. CASE CargoPublish(c)
  BY <1>1 DEF CargoPublish, Start, Rests, Fixed, worldVars, catalogVars
<1>2. CASE CargoVersion(c)
  BY <1>2 DEF CargoVersion, Reply, Rests, Fixed, worldVars, catalogVars
<1>3. CASE CargoSaveArchive(c)
  BY <1>3 DEF CargoSaveArchive, Touch, Rests, Fixed, worldVars, catalogVars
<1>4. CASE CargoReadIndex(c)
  BY <1>4 DEF CargoReadIndex, Reply, Rests, Fixed, worldVars, catalogVars
<1>5. CASE CargoSaveIndex(c)
  BY <1>5 DEF Advance, CargoSaveIndex, Goto, Touch, Rests, Fixed, worldVars, catalogVars
<1>6. CASE CargoDone(c)
  BY <1>6 DEF CargoDone, Reply, Rests, Fixed, worldVars, catalogVars
<1>7. CASE CargoSparseIndex(c)
  BY <1>7 DEF CargoSparseIndex, Start, Rests, Fixed, worldVars, catalogVars
<1>8. CASE CargoDownload(c)
  BY <1>8 DEF CargoDownload, Start, Rests, Fixed, worldVars, catalogVars
<1>9. CASE CargoMetadata(c)
  BY <1>9 DEF CargoMetadata, Start, Rests, Fixed, worldVars, catalogVars
<1>10. CASE DeletePackages(c)
  BY <1>10, DeletePackagesRests
<1> QED BY <1>1, <1>2, <1>3, <1>4, <1>5, <1>6, <1>7, <1>8, <1>9, <1>10 DEF CargoHostedStep

\* GoHostedStep takes file rows with their versions.
LEMMA GoHostedStepRows == ASSUME RowsInv, NEW c, GoHostedStep(c) PROVE Fixed /\ RowsInv'
<1>1. CASE GoUpload(c)
  <2>1. Rests
    BY <1>1 DEF GoUpload, Start, Rests, Fixed, worldVars, catalogVars
  <2> QED BY <2>1, RowsRest
<1>2. CASE GoPut(c)
  <2>1. Rests
    BY <1>2 DEF GoPut, Start, Rests, Fixed, worldVars, catalogVars
  <2> QED BY <2>1, RowsRest
<1>3. CASE GoSaveRaw(c)
  <2>1. Rests
    BY <1>3 DEF GoSave, GoSaveRaw, Touch, Rests, Fixed, worldVars, catalogVars
  <2> QED BY <2>1, RowsRest
<1>4. CASE GoSaveZip(c)
  <2>1. Rests
    BY <1>4 DEF GoSave, GoSaveZip, Reply, Touch, Rests, Fixed, worldVars, catalogVars
  <2> QED BY <2>1, RowsRest
<1>5. CASE GoSaveMod(c)
  <2>1. Rests
    BY <1>5 DEF GoSave, GoSaveMod, Touch, Rests, Fixed, worldVars, catalogVars
  <2> QED BY <2>1, RowsRest
<1>6. CASE GoSaveInfo(c)
  <2>1. Rests
    BY <1>6 DEF GoSave, GoSaveInfo, Touch, Rests, Fixed, worldVars, catalogVars
  <2> QED BY <2>1, RowsRest
<1>7. CASE GoReadList(c)
  <2>1. Rests
    BY <1>7 DEF GoReadList, Rests, Fixed, worldVars, catalogVars
  <2> QED BY <2>1, RowsRest
<1>8. CASE GoAddVersion(c)
  <2>1. Rests
    BY <1>8 DEF Advance, GoAddVersion, Goto, Touch, Rests, Fixed, worldVars, catalogVars
  <2> QED BY <2>1, RowsRest
<1>9. CASE GoPriority(c)
  BY <1>9, GoRowReplaced
<1>10. CASE GoComplete(c)
  <2>1. Rests
    BY <1>10 DEF GoComplete, Goto, Rests, Fixed, worldVars, catalogVars
  <2> QED BY <2>1, RowsRest
<1>11. CASE GoLatest(c)
  <2>1. Rests
    BY <1>11 DEF GoLatest, Goto, Rests, Fixed, worldVars, catalogVars
  <2> QED BY <2>1, RowsRest
<1>12. CASE GoAliasInfo(c)
  <2>1. Rests
    BY <1>12 DEF Advance, GoAlias, GoAliasInfo, Goto, Rests, Fixed, worldVars, catalogVars
  <2> QED BY <2>1, RowsRest
<1>13. CASE GoAliasMod(c)
  <2>1. Rests
    BY <1>13 DEF Advance, GoAlias, GoAliasMod, Goto, Rests, Fixed, worldVars, catalogVars
  <2> QED BY <2>1, RowsRest
<1>14. CASE GoDone(c)
  <2>1. Rests
    BY <1>14 DEF GoDone, Reply, Rests, Fixed, worldVars, catalogVars
  <2> QED BY <2>1, RowsRest
<1>15. CASE GoGet(c)
  <2>1. Rests
    BY <1>15 DEF GoGet, Start, Rests, Fixed, worldVars, catalogVars
  <2> QED BY <2>1, RowsRest
<1>16. CASE GoGetLatest(c)
  <2>1. Rests
    BY <1>16 DEF GoGetLatest, Start, Rests, Fixed, worldVars, catalogVars
  <2> QED BY <2>1, RowsRest
<1>17. CASE GoGetList(c)
  <2>1. Rests
    BY <1>17 DEF GoGetList, Start, Rests, Fixed, worldVars, catalogVars
  <2> QED BY <2>1, RowsRest
<1>18. CASE GoDelete(c)
  <2>1. Rests
    BY <1>18 DEF GoDelete, Start, Rests, Fixed, worldVars, catalogVars
  <2> QED BY <2>1, RowsRest
<1>19. CASE GoEraseZip(c)
  <2>1. Rests
    BY <1>19, GoEraseZipRests
  <2> QED BY <2>1, RowsRest
<1>20. CASE GoEraseMod(c)
  <2>1. Rests
    BY <1>20, GoEraseModRests
  <2> QED BY <2>1, RowsRest
<1>21. CASE GoEraseInfo(c)
  <2>1. Rests
    BY <1>21, GoEraseInfoRests
  <2> QED BY <2>1, RowsRest
<1>22. CASE GoDropVersion(c)
  <2>1. Rests
    BY <1>22 DEF Advance, GoDropVersion, Goto, Touch, Rests, Fixed, worldVars, catalogVars
  <2> QED BY <2>1, RowsRest
<1>23. CASE GoDeleted(c)
  <2>1. Rests
    BY <1>23, GoDeletedRests
  <2> QED BY <2>1, RowsRest
<1>24. CASE GoRows(c)
  BY <1>24, RowsDeleted DEF GoRows
<1> QED BY <1>1, <1>2, <1>3, <1>4, <1>5, <1>6, <1>7, <1>8, <1>9, <1>10, <1>11, <1>12, <1>13,
               <1>14, <1>15, <1>16, <1>17, <1>18, <1>19, <1>20, <1>21, <1>22, <1>23, <1>24 DEF
               GoHostedStep

\* GoProxyStep takes file rows with their versions.
LEMMA GoProxyStepRows == ASSUME RowsInv, NEW c, GoProxyStep(c) PROVE Fixed /\ RowsInv'
<1>1. CASE GoProxyGet(c)
  <2>1. Rests
    BY <1>1 DEF GoProxyGet, Start, Rests, Fixed, worldVars, catalogVars
  <2> QED BY <2>1, RowsRest
<1>2. CASE GoProxyHead(c)
  <2>1. Rests
    BY <1>2 DEF GoProxyHead, Start, Rests, Fixed, worldVars, catalogVars
  <2> QED BY <2>1, RowsRest
<1>3. CASE GoCached(c)
  <2>1. Rests
    BY <1>3 DEF GoCached, Reply, Rests, Fixed, worldVars, catalogVars
  <2> QED BY <2>1, RowsRest
<1>4. CASE GoExpire(c)
  <2>1. Rests
    BY <1>4 DEF Advance, GoExpire, Goto, Rests, Fixed, worldVars, catalogVars
  <2> QED BY <2>1, RowsRest
<1>5. CASE GoFetch(c)
  <2>1. Rests
    BY <1>5 DEF Fault, FetchUpstream, GoFetch, Goto, Rests, Fixed, worldVars, catalogVars
  <2> QED BY <2>1, RowsRest
<1>6. CASE GoStore(c)
  <2>1. Rests
    BY <1>6 DEF Advance, GoStore, Goto, Touch, Rests, Fixed, worldVars, catalogVars
  <2> QED BY <2>1, RowsRest
<1>7. CASE GoAnswer(c)
  <2>1. Rests
    BY <1>7 DEF GoAnswer, Reply, Rests, Fixed, worldVars, catalogVars
  <2> QED BY <2>1, RowsRest
<1>8. CASE GoProxyDelete(c)
  <2>1. Rests
    BY <1>8 DEF GoProxyDelete, Start, Rests, Fixed, worldVars, catalogVars
  <2> QED BY <2>1, RowsRest
<1>9. CASE GoEraseZip(c)
  <2>1. Rests
    BY <1>9, GoEraseZipRests
  <2> QED BY <2>1, RowsRest
<1>10. CASE GoEraseMod(c)
  <2>1. Rests
    BY <1>10, GoEraseModRests
  <2> QED BY <2>1, RowsRest
<1>11. CASE GoEraseInfo(c)
  <2>1. Rests
    BY <1>11, GoEraseInfoRests
  <2> QED BY <2>1, RowsRest
<1>12. CASE GoProxyList(c)
  <2>1. Rests
    BY <1>12 DEF Abort, Advance, GoProxyList, Goto, Reply, Rests, Fixed, worldVars, catalogVars
  <2> QED BY <2>1, RowsRest
<1>13. CASE GoDeleted(c)
  <2>1. Rests
    BY <1>13, GoDeletedRests
  <2> QED BY <2>1, RowsRest
<1>14. CASE GoEvict(c)
  BY <1>14, RowsDropped DEF Advance, GoEvict, Goto, Touch, Fixed, worldVars
<1>15. CASE GoRows(c)
  BY <1>15, RowsDeleted DEF GoRows
<1> QED BY <1>1, <1>2, <1>3, <1>4, <1>5, <1>6, <1>7, <1>8, <1>9, <1>10, <1>11, <1>12, <1>13,
               <1>14, <1>15 DEF GoProxyStep

\* HelmHostedStep takes file rows with their versions.
LEMMA HelmHostedStepRows == ASSUME RowsInv, NEW c, HelmHostedStep(c) PROVE Fixed /\ RowsInv'
<1>1. CASE HelmPut(c)
  <2>1. Rests
    BY <1>1 DEF HelmPut, Start, Rests, Fixed, worldVars, catalogVars
  <2> QED BY <2>1, RowsRest
<1>2. CASE HelmMuseumUpload(c)
  <2>1. Rests
    BY <1>2 DEF HelmMuseumUpload, Start, Rests, Fixed, worldVars, catalogVars
  <2> QED BY <2>1, RowsRest
<1>3. CASE HelmPutProvenance(c)
  <2>1. Rests
    BY <1>3 DEF HelmPutProvenance, Start, Rests, Fixed, worldVars, catalogVars
  <2> QED BY <2>1, RowsRest
<1>4. CASE HelmSaveChart(c)
  <2>1. Rests
    BY <1>4 DEF HelmSave, HelmSaveChart, Touch, Rests, Fixed, worldVars, catalogVars
  <2> QED BY <2>1, RowsRest
<1>5. CASE HelmSaveProvenance(c)
  <2>1. Rests
    BY <1>5 DEF HelmSave, HelmSaveProvenance, Touch, Rests, Fixed, worldVars, catalogVars
  <2> QED BY <2>1, RowsRest
<1>6. CASE HelmVersion(c)
  <2>1. Rests
    BY <1>6 DEF Abort, Goto, HelmVersion, Reply, Touch, Rests, Fixed, worldVars, catalogVars
  <2> QED BY <2>1, RowsRest
<1>7. CASE HelmUndo(c)
  <2>1. Rests
    BY <1>7 DEF HelmUndo, Reply, Rests, Fixed, worldVars, catalogVars
  <2> QED BY <2>1, RowsRest
<1>8. CASE HelmMarkProvenance(c)
  <2>1. Rests
    BY <1>8 DEF HelmMarkProvenance, Reply, Touch, Rests, Fixed, worldVars, catalogVars
  <2> QED BY <2>1, RowsRest
<1>9. CASE HelmInvalidate(c)
  <2>1. Rests
    BY <1>9 DEF HelmInvalidate, Reply, Touch, Rests, Fixed, worldVars, catalogVars
  <2> QED BY <2>1, RowsRest
<1>10. CASE HelmDelete(c)
  <2>1. Rests
    BY <1>10 DEF HelmDelete, Start, Rests, Fixed, worldVars, catalogVars
  <2> QED BY <2>1, RowsRest
<1>11. CASE HelmFind(c)
  <2>1. Rests
    BY <1>11 DEF Abort, Goto, HelmFind, Reply, Rests, Fixed, worldVars, catalogVars
  <2> QED BY <2>1, RowsRest
<1>12. CASE HelmEraseChart(c)
  <2>1. Rests
    BY <1>12 DEF Advance, Goto, HelmErase, HelmEraseChart, Touch, Rests, Fixed, worldVars,
           catalogVars
  <2> QED BY <2>1, RowsRest
<1>13. CASE HelmEraseProvenance(c)
  <2>1. Rests
    BY <1>13 DEF Advance, Goto, HelmErase, HelmEraseProvenance, Touch, Rests, Fixed, worldVars,
           catalogVars
  <2> QED BY <2>1, RowsRest
<1>14. CASE HelmDeleteRow(c)
  BY <1>14, RowsDropped DEF Advance, Goto, HelmDeleteRow, HelmDeleteRows, Touch, Fixed, worldVars
<1>15. CASE HelmRemaining(c)
  <2>1. Rests
    BY <1>15 DEF Goto, HelmRemaining, Rests, Fixed, worldVars, catalogVars
  <2> QED BY <2>1, RowsRest
<1>16. CASE HelmDeleteProject(c)
  BY <1>16, RowsDropped DEF Advance, Goto, HelmDeleteProject, HelmDeleteRows, Touch, Fixed,
         worldVars
<1>17. CASE HelmIndex(c)
  <2>1. Rests
    BY <1>17 DEF HelmIndex, Start, Rests, Fixed, worldVars, catalogVars
  <2> QED BY <2>1, RowsRest
<1>18. CASE HelmRecords(c)
  <2>1. Rests
    BY <1>18 DEF HelmRecords, Rests, Fixed, worldVars, catalogVars
  <2> QED BY <2>1, RowsRest
<1>19. CASE HelmCache(c)
  <2>1. Rests
    BY <1>19 DEF HelmCache, Reply, Rests, Fixed, worldVars, catalogVars
  <2> QED BY <2>1, RowsRest
<1>20. CASE HelmGet(c)
  <2>1. Rests
    BY <1>20 DEF HelmGet, Start, Rests, Fixed, worldVars, catalogVars
  <2> QED BY <2>1, RowsRest
<1>21. CASE HelmList(c)
  <2>1. Rests
    BY <1>21 DEF HelmList, Start, Rests, Fixed, worldVars, catalogVars
  <2> QED BY <2>1, RowsRest
<1> QED BY <1>1, <1>2, <1>3, <1>4, <1>5, <1>6, <1>7, <1>8, <1>9, <1>10, <1>11, <1>12, <1>13,
               <1>14, <1>15, <1>16, <1>17, <1>18, <1>19, <1>20, <1>21 DEF HelmHostedStep

\* PythonHostedStep leaves the catalog alone.
LEMMA PythonHostedStepRests == ASSUME NEW c, PythonHostedStep(c) PROVE Rests
<1>1. CASE PythonUpload(c)
  BY <1>1 DEF PythonUpload, Start, Rests, Fixed, worldVars, catalogVars
<1>2. CASE PythonSave(c)
  BY <1>2 DEF Advance, Goto, PythonSave, Touch, Rests, Fixed, worldVars, catalogVars
<1>3. CASE PythonVersion(c)
  BY <1>3 DEF Goto, PythonVersion, Rests, Fixed, worldVars, catalogVars
<1>4. CASE PythonDone(c)
  BY <1>4 DEF PythonDone, Reply, Rests, Fixed, worldVars, catalogVars
<1>5. CASE PythonIndex(c)
  BY <1>5 DEF PythonIndex, Start, Rests, Fixed, worldVars, catalogVars
<1>6. CASE PythonList(c)
  BY <1>6 DEF PythonList, Reply, Rests, Fixed, worldVars, catalogVars
<1>7. CASE PythonGet(c)
  BY <1>7 DEF PythonGet, Start, Rests, Fixed, worldVars, catalogVars
<1>8. CASE DeletePackages(c)
  BY <1>8, DeletePackagesRests
<1> QED BY <1>1, <1>2, <1>3, <1>4, <1>5, <1>6, <1>7, <1>8 DEF PythonHostedStep

\* PythonProxyStep leaves the catalog alone.
LEMMA PythonProxyStepRests == ASSUME NEW c, PythonProxyStep(c) PROVE Rests
<1>1. CASE PythonProxyGet(c)
  BY <1>1 DEF PythonProxyGet, Start, Rests, Fixed, worldVars, catalogVars
<1>2. CASE PythonProxyIndex(c)
  BY <1>2 DEF PythonProxyIndex, Start, Rests, Fixed, worldVars, catalogVars
<1>3. CASE PythonProxyHead(c)
  BY <1>3 DEF PythonProxyGet, PythonProxyHead, PythonProxyIndex, Start, Rests, Fixed, worldVars,
         catalogVars
<1>4. CASE PythonCached(c)
  BY <1>4 DEF PythonCached, Reply, Rests, Fixed, worldVars, catalogVars
<1>5. CASE PythonFetch(c)
  BY <1>5 DEF Fault, FetchUpstream, Goto, PythonFetch, Rests, Fixed, worldVars, catalogVars
<1>6. CASE PythonKeep(c)
  BY <1>6 DEF Advance, Goto, PythonKeep, SaveFetched, Touch, Rests, Fixed, worldVars, catalogVars
<1>7. CASE PythonCopy(c)
  BY <1>7 DEF Advance, Goto, PythonCopy, Touch, Rests, Fixed, worldVars, catalogVars
<1>8. CASE PythonCopyFails(c)
  BY <1>8 DEF Advance, Fault, Goto, PythonCopyFails, Rests, Fixed, worldVars, catalogVars
<1>9. CASE PythonServe(c)
  BY <1>9 DEF Goto, PythonServe, Reply, ServeOrPass, Rests, Fixed, worldVars, catalogVars
<1>10. CASE DeletePackages(c)
  BY <1>10, DeletePackagesRests
<1> QED BY <1>1, <1>2, <1>3, <1>4, <1>5, <1>6, <1>7, <1>8, <1>9, <1>10 DEF PythonProxyStep

\* NugetHostedStep leaves the catalog alone.
LEMMA NugetHostedStepRests == ASSUME NEW c, NugetHostedStep(c) PROVE Rests
<1>1. CASE NugetPublish(c)
  BY <1>1 DEF NugetPublish, Start, Rests, Fixed, worldVars, catalogVars
<1>2. CASE NugetExists(c)
  BY <1>2 DEF NugetExists, Reply, Rests, Fixed, worldVars, catalogVars
<1>3. CASE NugetSaveArchive(c)
  BY <1>3 DEF Advance, Goto, NugetSave, NugetSaveArchive, Touch, Rests, Fixed, worldVars,
         catalogVars
<1>4. CASE NugetSaveNuspec(c)
  BY <1>4 DEF Advance, Goto, NugetSave, NugetSaveNuspec, Touch, Rests, Fixed, worldVars,
         catalogVars
<1>5. CASE NugetHostedVersion(c)
  BY <1>5 DEF Goto, NugetHostedVersion, Rests, Fixed, worldVars, catalogVars
<1>6. CASE NugetDone(c)
  BY <1>6 DEF NugetDone, Reply, Rests, Fixed, worldVars, catalogVars
<1>7. CASE NugetIndex(c)
  BY <1>7 DEF NugetIndex, Start, Rests, Fixed, worldVars, catalogVars
<1>8. CASE NugetGet(c)
  BY <1>8 DEF NugetGet, Start, Rests, Fixed, worldVars, catalogVars
<1>9. CASE DeletePackages(c)
  BY <1>9, DeletePackagesRests
<1> QED BY <1>1, <1>2, <1>3, <1>4, <1>5, <1>6, <1>7, <1>8, <1>9 DEF NugetHostedStep

\* NugetProxyStep leaves the catalog alone.
LEMMA NugetProxyStepRests == ASSUME NEW c, NugetProxyStep(c) PROVE Rests
<1>1. CASE NugetProxyGet(c)
  BY <1>1 DEF NugetProxyGet, Start, Rests, Fixed, worldVars, catalogVars
<1>2. CASE NugetDiscover(c)
  BY <1>2 DEF Advance, Goto, NugetDiscover, Rests, Fixed, worldVars, catalogVars
<1>3. CASE NugetCached(c)
  BY <1>3 DEF NugetCached, Rests, Fixed, worldVars, catalogVars
<1>4. CASE NugetFetch(c)
  BY <1>4 DEF Fault, FetchUpstream, Goto, NugetFetch, Rests, Fixed, worldVars, catalogVars
<1>5. CASE NugetKeep(c)
  BY <1>5 DEF Goto, NugetKeep, Touch, Rests, Fixed, worldVars, catalogVars
<1>6. CASE NugetVersion(c)
  BY <1>6 DEF Goto, NugetVersion, Rests, Fixed, worldVars, catalogVars
<1>7. CASE DeletePackages(c)
  BY <1>7, DeletePackagesRests
<1> QED BY <1>1, <1>2, <1>3, <1>4, <1>5, <1>6, <1>7 DEF NugetProxyStep

\* RubyHostedStep takes file rows with their versions.
LEMMA RubyHostedStepRows == ASSUME RowsInv, NEW c, RubyHostedStep(c) PROVE Fixed /\ RowsInv'
<1>1. CASE RubyPublish(c)
  <2>1. Rests
    BY <1>1 DEF RubyPublish, Start, Rests, Fixed, worldVars, catalogVars
  <2> QED BY <2>1, RowsRest
<1>2. CASE RubyExists(c)
  <2>1. Rests
    BY <1>2 DEF Reply, RubyExists, Rests, Fixed, worldVars, catalogVars
  <2> QED BY <2>1, RowsRest
<1>3. CASE RubySaveGem(c)
  <2>1. Rests
    BY <1>3 DEF Advance, Goto, RubySaveGem, Touch, Rests, Fixed, worldVars, catalogVars
  <2> QED BY <2>1, RowsRest
<1>4. CASE RubyLoad(c)
  <2>1. Rests
    BY <1>4 DEF Recall, RubyLoad, Rests, Fixed, worldVars, catalogVars
  <2> QED BY <2>1, RowsRest
<1>5. CASE RubyWriteVersions(c)
  <2>1. Rests
    BY <1>5 DEF Advance, Goto, RubyWriteVersions, RubyWrites, Rests, Fixed, worldVars, catalogVars
  <2> QED BY <2>1, RowsRest
<1>6. CASE RubyDeleteStale(c)
  <2>1. Rests
    BY <1>6 DEF Advance, Goto, RubyDeleteStale, RubyWrites, Rests, Fixed, worldVars, catalogVars
  <2> QED BY <2>1, RowsRest
<1>7. CASE RubyWriteInfo(c)
  <2>1. Rests
    BY <1>7 DEF Advance, Goto, RubyWriteInfo, RubyWrites, Rests, Fixed, worldVars, catalogVars
  <2> QED BY <2>1, RowsRest
<1>8. CASE RubyWriteSpecs(c)
  <2>1. Rests
    BY <1>8 DEF Advance, Goto, RubyWriteSpecs, RubyWrites, Rests, Fixed, worldVars, catalogVars
  <2> QED BY <2>1, RowsRest
<1>9. CASE RubyDone(c)
  <2>1. Rests
    BY <1>9 DEF Reply, RubyDone, Rests, Fixed, worldVars, catalogVars
  <2> QED BY <2>1, RowsRest
<1>10. CASE RubyYank(c)
  <2>1. Rests
    BY <1>10 DEF RubyYank, Start, Rests, Fixed, worldVars, catalogVars
  <2> QED BY <2>1, RowsRest
<1>11. CASE RubyFind(c)
  <2>1. Rests
    BY <1>11 DEF Reply, RubyFind, Rests, Fixed, worldVars, catalogVars
  <2> QED BY <2>1, RowsRest
<1>12. CASE RubyDeleteRow(c)
  BY <1>12, RowsDropped DEF Advance, Goto, RubyDeleteRow, Touch, Fixed, worldVars
<1>13. CASE RubyErase(c)
  <2>1. Rests
    BY <1>13 DEF Advance, Goto, RubyErase, Touch, Rests, Fixed, worldVars, catalogVars
  <2> QED BY <2>1, RowsRest
<1>14. CASE RubyCount(c)
  <2>1. Rests
    BY <1>14 DEF RubyCount, Rests, Fixed, worldVars, catalogVars
  <2> QED BY <2>1, RowsRest
<1>15. CASE RubyDropProject(c)
  BY <1>15, RowsDropped DEF Advance, Goto, RubyDropProject, Touch, Fixed, worldVars
<1>16. CASE RubyGet(c)
  <2>1. Rests
    BY <1>16 DEF RubyGet, Start, Rests, Fixed, worldVars, catalogVars
  <2> QED BY <2>1, RowsRest
<1>17. CASE DeletePackages(c)
  <2>1. Rests
    BY <1>17, DeletePackagesRests
  <2> QED BY <2>1, RowsRest
<1> QED BY <1>1, <1>2, <1>3, <1>4, <1>5, <1>6, <1>7, <1>8, <1>9, <1>10, <1>11, <1>12, <1>13,
               <1>14, <1>15, <1>16, <1>17 DEF RubyHostedStep

\* RubyProxyStep leaves the catalog alone.
LEMMA RubyProxyStepRests == ASSUME NEW c, RubyProxyStep(c) PROVE Rests
<1>1. CASE RubyProxyGet(c)
  BY <1>1 DEF RubyProxyGet, Start, Rests, Fixed, worldVars, catalogVars
<1>2. CASE RubyProxyHead(c)
  BY <1>2 DEF RubyProxyHead, Start, Rests, Fixed, worldVars, catalogVars
<1>3. CASE RubyOpen(c)
  BY <1>3 DEF CacheLookup, Reply, RubyOpen, Rests, Fixed, worldVars, catalogVars
<1>4. CASE RubyStat(c)
  BY <1>4 DEF CacheLookup, Reply, RubyStat, Rests, Fixed, worldVars, catalogVars
<1>5. CASE RubyFetch(c)
  BY <1>5 DEF Fault, FetchUpstream, Goto, RubyFetch, Rests, Fixed, worldVars, catalogVars
<1>6. CASE RubySave(c)
  BY <1>6 DEF Advance, Goto, RubySave, SaveFetched, Touch, Rests, Fixed, worldVars, catalogVars
<1>7. CASE RubyIndexGet(c)
  BY <1>7 DEF RubyIndexGet, Start, Rests, Fixed, worldVars, catalogVars
<1>8. CASE RubyIndexFetch(c)
  BY <1>8 DEF Recall, RubyIndexFetch, Rests, Fixed, worldVars, catalogVars
<1>9. CASE RubyIndexSave(c)
  BY <1>9 DEF Reply, RubyIndexSave, Touch, Rests, Fixed, worldVars, catalogVars
<1>10. CASE RubyRangeGet(c)
  BY <1>10 DEF RubyRangeGet, Start, Rests, Fixed, worldVars, catalogVars
<1>11. CASE RubyRangeFetch(c)
  BY <1>11 DEF Reply, RubyRangeFetch, Rests, Fixed, worldVars, catalogVars
<1>12. CASE RubyRangeSize(c)
  BY <1>12 DEF Reply, RubyRangeSize, Rests, Fixed, worldVars, catalogVars
<1>13. CASE RubyAppend(c)
  BY <1>13 DEF Reply, RubyAppend, Touch, Rests, Fixed, worldVars, catalogVars
<1>14. CASE DeletePackages(c)
  BY <1>14, DeletePackagesRests
<1> QED BY <1>1, <1>2, <1>3, <1>4, <1>5, <1>6, <1>7, <1>8, <1>9, <1>10, <1>11, <1>12, <1>13, <1>14
               DEF RubyProxyStep

\* PhpHostedStep leaves the catalog alone.
LEMMA PhpHostedStepRests == ASSUME NEW c, PhpHostedStep(c) PROVE Rests
<1>1. CASE PhpUpload(c)
  BY <1>1 DEF PhpUpload, Start, Rests, Fixed, worldVars, catalogVars
<1>2. CASE PhpSaveDist(c)
  BY <1>2 DEF PhpSaveDist, Touch, Rests, Fixed, worldVars, catalogVars
<1>3. CASE PhpReadDoc(c)
  BY <1>3 DEF PhpReadDoc, Rests, Fixed, worldVars, catalogVars
<1>4. CASE PhpWriteTmp(c)
  BY <1>4 DEF Advance, Goto, PhpWriteTmp, Touch, Rests, Fixed, worldVars, catalogVars
<1>5. CASE PhpMove(c)
  BY <1>5 DEF Abort, Advance, Goto, PhpMove, Reply, Touch, Rests, Fixed, worldVars, catalogVars
<1>6. CASE PhpVersion(c)
  BY <1>6 DEF Goto, PhpVersion, Rests, Fixed, worldVars, catalogVars
<1>7. CASE PhpDone(c)
  BY <1>7 DEF PhpDone, Reply, Rests, Fixed, worldVars, catalogVars
<1>8. CASE PhpGet(c)
  BY <1>8 DEF PhpGet, Start, Rests, Fixed, worldVars, catalogVars
<1>9. CASE DeletePackages(c)
  BY <1>9, DeletePackagesRests
<1> QED BY <1>1, <1>2, <1>3, <1>4, <1>5, <1>6, <1>7, <1>8, <1>9 DEF PhpHostedStep

\* PhpProxyStep leaves the catalog alone.
LEMMA PhpProxyStepRests == ASSUME NEW c, PhpProxyStep(c) PROVE Rests
<1>1. CASE PhpProxyDocument(c)
  BY <1>1 DEF PhpProxyDocument, Start, Rests, Fixed, worldVars, catalogVars
<1>2. CASE PhpCached(c)
  BY <1>2 DEF CacheLookup, PhpCached, Reply, Rests, Fixed, worldVars, catalogVars
<1>3. CASE PhpFetch(c)
  BY <1>3 DEF Fault, FetchUpstream, Goto, PhpFetch, Rests, Fixed, worldVars, catalogVars
<1>4. CASE PhpProxyTmp(c)
  BY <1>4 DEF Advance, Goto, PhpProxyTmp, Rests, Fixed, worldVars, catalogVars
<1>5. CASE PhpProxyMove(c)
  BY <1>5 DEF Abort, Advance, Goto, PhpProxyMove, Reply, Rests, Fixed, worldVars, catalogVars
<1>6. CASE PhpIndexDocument(c)
  BY <1>6 DEF PhpIndexDocument, Reply, Rests, Fixed, worldVars, catalogVars
<1>7. CASE PhpProxyGet(c)
  BY <1>7 DEF PhpProxyGet, Start, Rests, Fixed, worldVars, catalogVars
<1>8. CASE PhpProxyHead(c)
  BY <1>8 DEF PhpProxyDocument, PhpProxyHead, Start, Rests, Fixed, worldVars, catalogVars
<1>9. CASE PhpResolve(c)
  BY <1>9 DEF PhpResolve, Reply, Rests, Fixed, worldVars, catalogVars
<1>10. CASE PhpKeep(c)
  BY <1>10 DEF Advance, Goto, PhpKeep, SaveFetched, Touch, Rests, Fixed, worldVars, catalogVars
<1>11. CASE PhpProxyDone(c)
  BY <1>11 DEF PhpProxyDone, Reply, Rests, Fixed, worldVars, catalogVars
<1>12. CASE DeletePackages(c)
  BY <1>12, DeletePackagesRests
<1> QED BY <1>1, <1>2, <1>3, <1>4, <1>5, <1>6, <1>7, <1>8, <1>9, <1>10, <1>11, <1>12 DEF
               PhpProxyStep

\* DebHostedStep leaves the catalog alone.
LEMMA DebHostedStepRests == ASSUME NEW c, DebHostedStep(c) PROVE Rests
<1>1. CASE DebUpload(c)
  BY <1>1 DEF DebUpload, Start, Rests, Fixed, worldVars, catalogVars
<1>2. CASE DebSavePackage(c)
  BY <1>2 DEF DebSavePackage, Touch, Rests, Fixed, worldVars, catalogVars
<1>3. CASE DebExists(c)
  BY <1>3 DEF Advance, DebExists, Goto, Reply, Rests, Fixed, worldVars, catalogVars
<1>4. CASE DebDone(c)
  BY <1>4 DEF DebDone, Reply, Rests, Fixed, worldVars, catalogVars
<1>5. CASE DebIndexGet(c)
  BY <1>5 DEF DebIndexGet, Start, Rests, Fixed, worldVars, catalogVars
<1>6. CASE DebGet(c)
  BY <1>6 DEF DebGet, Start, Rests, Fixed, worldVars, catalogVars
<1>7. CASE DeletePackages(c)
  BY <1>7, DeletePackagesRests
<1> QED BY <1>1, <1>2, <1>3, <1>4, <1>5, <1>6, <1>7 DEF DebHostedStep

\* DebProxyStep leaves the catalog alone.
LEMMA DebProxyStepRests == ASSUME NEW c, DebProxyStep(c) PROVE Rests
<1>1. CASE DebProxyGet(c)
  BY <1>1 DEF DebProxyGet, Start, Rests, Fixed, worldVars, catalogVars
<1>2. CASE DebOpen(c)
  BY <1>2 DEF CacheLookup, DebOpen, Reply, Rests, Fixed, worldVars, catalogVars
<1>3. CASE DebStat(c)
  BY <1>3 DEF CacheLookup, DebStat, Reply, Rests, Fixed, worldVars, catalogVars
<1>4. CASE DebFetch(c)
  BY <1>4 DEF DebFetch, Fault, FetchUpstream, Goto, Rests, Fixed, worldVars, catalogVars
<1>5. CASE DebSave(c)
  BY <1>5 DEF Advance, DebSave, Goto, SaveFetched, Touch, Rests, Fixed, worldVars, catalogVars
<1>6. CASE DebProxyIndexGet(c)
  BY <1>6 DEF DebProxyIndexGet, Start, Rests, Fixed, worldVars, catalogVars
<1>7. CASE DebProxyIndexFetch(c)
  BY <1>7 DEF DebProxyIndexFetch, Reply, Rests, Fixed, worldVars, catalogVars
<1>8. CASE DebRefresh(c)
  BY <1>8 DEF DebRefresh, Start, Rests, Fixed, worldVars, catalogVars
<1>9. CASE DebRefreshRelease(c)
  BY <1>9 DEF Advance, DebRefreshRelease, Goto, Rests, Fixed, worldVars, catalogVars
<1>10. CASE DebRefreshPackages(c)
  BY <1>10 DEF DebRefreshPackages, Rests, Fixed, worldVars, catalogVars
<1>11. CASE DebEntry(c)
  BY <1>11 DEF DebEntry, Goto, Rests, Fixed, worldVars, catalogVars
<1>12. CASE DebDownload(c)
  BY <1>12 DEF DebDownload, Reply, Rests, Fixed, worldVars, catalogVars
<1>13. CASE DebMirror(c)
  BY <1>13 DEF DebMirror, Touch, Rests, Fixed, worldVars, catalogVars
<1>14. CASE DebRefreshed(c)
  BY <1>14 DEF DebRefreshed, Reply, Rests, Fixed, worldVars, catalogVars
<1>15. CASE DeletePackages(c)
  BY <1>15, DeletePackagesRests
<1> QED BY <1>1, <1>2, <1>3, <1>4, <1>5, <1>6, <1>7, <1>8, <1>9, <1>10, <1>11, <1>12, <1>13,
               <1>14, <1>15 DEF DebProxyStep

\* DockerProxyStep leaves the catalog alone.
LEMMA DockerProxyStepRests == ASSUME NEW c, DockerProxyStep(c) PROVE Rests
<1>1. CASE DockerGet(c)
  BY <1>1 DEF DockerGet, Start, Rests, Fixed, worldVars, catalogVars
<1>2. CASE DockerLoad(c)
  BY <1>2 DEF DockerLoad, DockerServe, Reply, Rests, Fixed, worldVars, catalogVars
<1>3. CASE DockerPurge(c)
  BY <1>3 DEF Advance, DockerPurge, Goto, Touch, Rests, Fixed, worldVars, catalogVars
<1>4. CASE DockerPurgeDigest(c)
  BY <1>4 DEF Advance, DockerPurgeDigest, Goto, Touch, Rests, Fixed, worldVars, catalogVars
<1>5. CASE DockerSideFile(c)
  BY <1>5 DEF DockerServe, DockerSideFile, Goto, Reply, Rests, Fixed, worldVars, catalogVars
<1>6. CASE DockerHead(c)
  BY <1>6 DEF DockerHead, Fault, Goto, Rests, Fixed, worldVars, catalogVars
<1>7. CASE DockerUnchanged(c)
  BY <1>7 DEF DockerServe, DockerUnchanged, Reply, Rests, Fixed, worldVars, catalogVars
<1>8. CASE DockerFetch(c)
  BY <1>8 DEF Abort, DockerFetch, Fault, Goto, Reply, Rests, Fixed, worldVars, catalogVars
<1>9. CASE DockerRefetch(c)
  BY <1>9 DEF Abort, DockerRefetch, Goto, Reply, Rests, Fixed, worldVars, catalogVars
<1>10. CASE DockerWrite(c)
  BY <1>10 DEF Abort, Advance, DockerWrite, Goto, Reply, Touch, WriteManifest, Rests, Fixed,
         worldVars, catalogVars
<1>11. CASE DockerWriteDigest(c)
  BY <1>11 DEF Abort, Advance, CleanFault, DockerWriteDigest, Goto, Reply, Touch, WriteManifest, Rests, Fixed,
         worldVars, catalogVars
<1>12. CASE DockerSave(c)
  BY <1>12 DEF Advance, DockerSave, Goto, SaveFetched, Touch, Rests, Fixed, worldVars, catalogVars
<1>13. CASE DockerSaveDigest(c)
  BY <1>13 DEF CleanFault, DockerSaveDigest, Goto, Touch, Rests, Fixed, worldVars, catalogVars
<1>14. CASE DockerUndo(c)
  BY <1>14 DEF Abort, DockerUndo, Goto, Reply, Touch, Rests, Fixed, worldVars, catalogVars
<1>15. CASE DockerByDigest(c)
  BY <1>15 DEF DockerByDigest, Rests, Fixed, worldVars, catalogVars
<1>16. CASE DockerAgain(c)
  BY <1>16 DEF DockerAgain, Rests, Fixed, worldVars, catalogVars
<1>17. CASE DockerStamp(c)
  BY <1>17 DEF Advance, DockerStamp, Goto, Rests, Fixed, worldVars, catalogVars
<1>18. CASE DockerDone(c)
  BY <1>18 DEF DockerDone, Reply, Rests, Fixed, worldVars, catalogVars
<1>19. CASE DockerBlobGet(c)
  BY <1>19 DEF DockerBlobGet, Start, Rests, Fixed, worldVars, catalogVars
<1>20. CASE DockerBlob(c)
  BY <1>20 DEF DockerBlob, Rests, Fixed, worldVars, catalogVars
<1>21. CASE DockerPass(c)
  BY <1>21 DEF DockerPass, Start, Rests, Fixed, worldVars, catalogVars
<1> QED BY <1>1, <1>2, <1>3, <1>4, <1>5, <1>6, <1>7, <1>8, <1>9, <1>10, <1>11, <1>12, <1>13,
               <1>14, <1>15, <1>16, <1>17, <1>18, <1>19, <1>20, <1>21 DEF DockerProxyStep

\* BlobUploadStep leaves the catalog alone.
LEMMA BlobUploadStepRests == ASSUME NEW c, BlobUploadStep(c) PROVE Rests
<1>1. CASE UploadBegin(c)
  BY <1>1 DEF Start, UploadBegin, Rests, Fixed, worldVars, catalogVars
<1>2. CASE UploadStatus(c)
  BY <1>2 DEF Start, UploadStatus, Rests, Fixed, worldVars, catalogVars
<1>3. CASE UploadCancel(c)
  BY <1>3 DEF Start, UploadCancel, Rests, Fixed, worldVars, catalogVars
<1>4. CASE UploadChunk(c)
  BY <1>4 DEF Start, UploadChunk, Rests, Fixed, worldVars, catalogVars
<1>5. CASE UploadComplete(c)
  BY <1>5 DEF Start, UploadComplete, Rests, Fixed, worldVars, catalogVars
<1>6. CASE UploadBegins(c)
  BY <1>6 DEF Reply, UploadBegins, Rests, Fixed, worldVars, catalogVars
<1>7. CASE UploadAnswer(c)
  BY <1>7 DEF Reply, UploadAnswer, Rests, Fixed, worldVars, catalogVars
<1>8. CASE LocalOpen(c)
  BY <1>8 DEF LocalOpen, Rests, Fixed, worldVars, catalogVars
<1>9. CASE LocalWrite(c)
  BY <1>9 DEF Abort, Advance, Fault, Goto, LocalAppended, LocalWrite, Reply, Touch, Rests, Fixed,
         worldVars, catalogVars
<1>10. CASE SpoolBody(c)
  BY <1>10 DEF Abort, Goto, Reply, SpoolBody, Rests, Fixed, worldVars, catalogVars
<1>11. CASE StagedAppend(c)
  BY <1>11 DEF Abort, Advance, CleanFault, Fault, Goto, Reply, StagedAppend, Touch, Rests, Fixed,
         worldVars, catalogVars
<1>12. CASE HashSpooled(c)
  BY <1>12 DEF HashSpooled, Touch, Rests, Fixed, worldVars, catalogVars
<1>13. CASE UploadErase(c)
  BY <1>13 DEF Erased, Touch, UploadErase, Rests, Fixed, worldVars, catalogVars
<1>14. CASE UploadAbandon(c)
  BY <1>14 DEF Reply, Touch, UploadAbandon, Rests, Fixed, worldVars, catalogVars
<1>15. CASE Finalize(c)
  BY <1>15 DEF Advance, Finalize, Goto, Reply, Touch, Rests, Fixed, worldVars, catalogVars
<1>16. CASE MoveUpload(c)
  BY <1>16 DEF MoveUpload, Reply, Touch, Rests, Fixed, worldVars, catalogVars
<1> QED BY <1>1, <1>2, <1>3, <1>4, <1>5, <1>6, <1>7, <1>8, <1>9, <1>10, <1>11, <1>12, <1>13,
               <1>14, <1>15, <1>16 DEF BlobUploadStep

\* LocalFilesStep leaves the catalog alone.
LEMMA LocalFilesStepRests == ASSUME NEW c, LocalFilesStep(c) PROVE Rests
<1>1. CASE FileSave(c)
  BY <1>1 DEF FileSave, Start, Rests, Fixed, worldVars, catalogVars
<1>2. CASE FileMove(c)
  BY <1>2 DEF FileMove, Start, Rests, Fixed, worldVars, catalogVars
<1>3. CASE FileRead(c)
  BY <1>3 DEF FileRead, Start, Rests, Fixed, worldVars, catalogVars
<1>4. CASE FileDelete(c)
  BY <1>4 DEF FileDelete, Start, Rests, Fixed, worldVars, catalogVars
<1>5. CASE FilePut(c)
  BY <1>5 DEF FilePut, Start, Rests, Fixed, worldVars, catalogVars
<1>6. CASE FileWrite(c)
  BY <1>6 DEF FileWrite, Overtakes, Reply, Rests, Fixed, worldVars, catalogVars
<1>7. CASE KnownHash(c)
  BY <1>7 DEF Advance, Goto, KnownHash, Rests, Fixed, worldVars, catalogVars
<1>8. CASE ReadMeta(c)
  BY <1>8 DEF ReadMeta, Recall, Reply, Rests, Fixed, worldVars, catalogVars
<1>9. CASE CreateMeta(c)
  BY <1>9 DEF Advance, CreateMeta, Goto, Overtakes, Rests, Fixed, worldVars, catalogVars
<1>10. CASE ReadFile(c)
  BY <1>10 DEF ReadFile, Reply, Rests, Fixed, worldVars, catalogVars
<1>11. CASE PutMeta(c)
  BY <1>11 DEF Overtakes, PutMeta, Reply, Rests, Fixed, worldVars, catalogVars
<1>12. CASE RemoveFile(c)
  BY <1>12 DEF Overtakes, RemoveFile, Reply, Rests, Fixed, worldVars, catalogVars
<1>13. CASE RemoveMeta(c)
  BY <1>13 DEF Overtakes, RemoveMeta, Reply, Rests, Fixed, worldVars, catalogVars
<1> QED BY <1>1, <1>2, <1>3, <1>4, <1>5, <1>6, <1>7, <1>8, <1>9, <1>10, <1>11, <1>12, <1>13 DEF
               LocalFilesStep

\* VirtualStep leaves the catalog alone.
LEMMA VirtualStepRests == ASSUME NEW c, VirtualStep(c) PROVE Rests
<1>1. CASE UpdateMembers(c)
  BY <1>1 DEF Start, UpdateMembers, Rests, Fixed, worldVars, catalogVars
<1>2. CASE UpdateResolutionOrder(c)
  BY <1>2 DEF Start, UpdateResolutionOrder, Rests, Fixed, worldVars, catalogVars
<1>3. CASE UpdateConfig(c)
  BY <1>3 DEF Start, UpdateConfig, Rests, Fixed, worldVars, catalogVars
<1>4. CASE ReadConfig(c)
  BY <1>4 DEF ReadConfig, Recall, Reply, Rests, Fixed, worldVars, catalogVars
<1>5. CASE PersistConfig(c)
  BY <1>5 DEF PersistConfig, Recall, Touch, Rests, Fixed, worldVars, catalogVars
<1>6. CASE ReplaceMembers(c)
  BY <1>6 DEF Advance, Goto, ReplaceMembers, Reply, Touch, Rests, Fixed, worldVars, catalogVars
<1>7. CASE ReloadConfig(c)
  BY <1>7 DEF Recall, ReloadConfig, Rests, Fixed, worldVars, catalogVars
<1>8. CASE SyncMembers(c)
  BY <1>8 DEF Recall, ReloadFails, Reply, SyncMembers, Rests, Fixed, worldVars, catalogVars
<1>9. CASE AssignMembers(c)
  BY <1>9 DEF AssignMembers, ReloadFails, Reply, Rests, Fixed, worldVars, catalogVars
<1>10. CASE DeleteMember(c)
  BY <1>10 DEF DeleteMember, Start, Rests, Fixed, worldVars, catalogVars
<1>11. CASE MemberRows(c)
  BY <1>11 DEF Advance, Goto, MemberRows, Touch, Rests, Fixed, worldVars, catalogVars
<1>12. CASE MemberFiles(c)
  BY <1>12 DEF Advance, Goto, MemberFiles, Touch, Rests, Fixed, worldVars, catalogVars
<1>13. CASE MemberUnload(c)
  BY <1>13 DEF MemberUnload, Reply, Touch, Rests, Fixed, worldVars, catalogVars
<1>14. CASE VirtualGet(c)
  BY <1>14 DEF Start, VirtualGet, Rests, Fixed, worldVars, catalogVars
<1>15. CASE CachedMember(c)
  BY <1>15 DEF CachedMember, Recall, Rests, Fixed, worldVars, catalogVars
<1>16. CASE CachedHit(c)
  BY <1>16 DEF Advance, CachedHit, Goto, Reply, Rests, Fixed, worldVars, catalogVars
<1>17. CASE AskMember(c)
  BY <1>17 DEF AskMember, Recall, Reply, Rests, Fixed, worldVars, catalogVars
<1>18. CASE VirtualList(c)
  BY <1>18 DEF Start, VirtualList, Rests, Fixed, worldVars, catalogVars
<1>19. CASE CachedPage(c)
  BY <1>19 DEF CachedPage, Recall, Reply, Rests, Fixed, worldVars, catalogVars
<1>20. CASE MergeMember(c)
  BY <1>20 DEF MergeMember, Recall, Reply, Rests, Fixed, worldVars, catalogVars
<1>21. CASE VirtualPublish(c)
  BY <1>21 DEF Start, VirtualPublish, Rests, Fixed, worldVars, catalogVars
<1>22. CASE ForwardPublish(c)
  BY <1>22 DEF ForwardPublish, Reply, Rests, Fixed, worldVars, catalogVars
<1>23. CASE SeedMembers(c)
  BY <1>23 DEF Advance, Goto, ReloadFails, Reply, SeedMembers, Rests, Fixed, worldVars, catalogVars
<1>24. CASE AssignTarget(c)
  BY <1>24 DEF AssignTarget, Reply, Rests, Fixed, worldVars, catalogVars
<1>25. CASE HitUpstreamFails(c)
  BY <1>25 DEF Advance, CleanFault, Goto, HitUpstreamFails, Reply, Rests, Fixed, worldVars, catalogVars
<1>26. CASE AskUpstreamFails(c)
  BY <1>26 DEF AskUpstreamFails, CleanFault, Recall, Reply, Rests, Fixed, worldVars, catalogVars
<1>27. CASE MergeUpstreamFails(c)
  BY <1>27 DEF CleanFault, MergeUpstreamFails, Recall, Reply, Rests, Fixed, worldVars, catalogVars
<1> QED BY <1>1, <1>2, <1>3, <1>4, <1>5, <1>6, <1>7, <1>8, <1>9, <1>10, <1>11, <1>12, <1>13,
               <1>14, <1>15, <1>16, <1>17, <1>18, <1>19, <1>20, <1>21, <1>22, <1>23, <1>24, <1>25,
               <1>26, <1>27 DEF VirtualStep

\* CatalogSteps takes file rows with their versions.
LEMMA CatalogStepsRows == ASSUME RowsInv, NEW c, CatalogSteps(c) PROVE Fixed /\ RowsInv'
<1>1. CASE FindProject(c)
  <2>1. Rests
    BY <1>1 DEF FindProject, Goto, Rests, Fixed, worldVars, catalogVars
  <2> QED BY <2>1, RowsRest
<1>2. CASE InsertProject(c)
  <2>1. Rests
    BY <1>2 DEF Abort, Advance, Breaks, Goto, InsertProject, Reply, Rests, Fixed, worldVars,
           catalogVars
  <2> QED BY <2>1, RowsRest
<1>3. CASE InsertVersion(c)
  BY <1>3, RowInserted
<1>4. CASE UpdateVersion(c)
  BY <1>4, RowUpdated
<1>5. CASE UpsertFileRow(c)
  BY <1>5, FileRowUpserted
<1> QED BY <1>1, <1>2, <1>3, <1>4, <1>5 DEF CatalogSteps

\* DeletionSteps takes file rows with their versions.
LEMMA DeletionStepsRows == ASSUME RowsInv, NEW c, DeletionSteps(c) PROVE Fixed /\ RowsInv'
<1>1. CASE NextPath(c)
  <2>1. Rests
    BY <1>1 DEF Goto, NextPath, Rests, Fixed, worldVars, catalogVars
  <2> QED BY <2>1, RowsRest
<1>2. CASE Erase(c)
  <2>1. Rests
    BY <1>2 DEF Erase, Touch, Rests, Fixed, worldVars, catalogVars
  <2> QED BY <2>1, RowsRest
<1>3. CASE DeleteTargets(c)
  BY <1>3, RowsDeleted DEF DeleteTargets
<1>4. CASE DeleteTrees(c)
  BY <1>4, RowsDeleted DEF DeleteTrees
<1>5. CASE SoftDelete(c)
  BY <1>5, FilesMarked
<1>6. CASE EraseFails(c)
  <2>1. Rests
    BY <1>6 DEF EraseFails, Fault, Goto, Rests, Fixed, worldVars, catalogVars
  <2> QED BY <2>1, RowsRest
<1> QED BY <1>1, <1>2, <1>3, <1>4, <1>5, <1>6 DEF DeletionSteps

\* ProxySteps takes file rows with their versions.
LEMMA ProxyStepsRows == ASSUME RowsInv, NEW c, ProxySteps(c) PROVE Fixed /\ RowsInv'
<1>1. CASE ServeStored(c)
  <2>1. Rests
    BY <1>1 DEF Reply, ServeStored, Rests, Fixed, worldVars, catalogVars
  <2> QED BY <2>1, RowsRest
<1>2. CASE PassThrough(c)
  <2>1. Rests
    BY <1>2 DEF PassThrough, Reply, Rests, Fixed, worldVars, catalogVars
  <2> QED BY <2>1, RowsRest
<1>3. CASE NotFound(c)
  <2>1. Rests
    BY <1>3 DEF NotFound, Reply, Rests, Fixed, worldVars, catalogVars
  <2> QED BY <2>1, RowsRest
<1>4. CASE IndexFind(c)
  <2>1. Rests
    BY <1>4 DEF Advance, Goto, IndexFind, Rests, Fixed, worldVars, catalogVars
  <2> QED BY <2>1, RowsRest
<1>5. CASE IndexDelete(c)
  BY <1>5, RowsDropped DEF Advance, Goto, IndexDelete, Fixed, worldVars
<1>6. CASE EvictCached(c)
  BY <1>6, RowsDropped DEF Advance, EvictCached, Goto, Touch, Fixed, worldVars
<1> QED BY <1>1, <1>2, <1>3, <1>4, <1>5, <1>6 DEF ProxySteps

\* What happens by itself leaves the catalog alone.
LEMMA WorldStepRests == ASSUME WorldStep PROVE Rests
<1>1. CASE UpstreamChanges
  BY <1>1 DEF UpstreamChanges, Rests, Fixed, worldVars, catalogVars
<1>2. CASE DockerTagMoves
  BY <1>2 DEF DockerTagMoves, Rests, Fixed, worldVars, catalogVars
<1>3. CASE DockerTtlPasses
  BY <1>3 DEF DockerTtlPasses, Rests, Fixed, worldVars, catalogVars
<1>4. CASE GoTtlPasses
  BY <1>4 DEF GoTtlPasses, Rests, Fixed, worldVars, catalogVars
<1>5. CASE HelmTtlPasses
  BY <1>5 DEF HelmTtlPasses, Rests, Fixed, worldVars, catalogVars
<1>6. CASE RubyUpstreamGrows
  BY <1>6 DEF RubyUpstreamGrows, Rests, Fixed, worldVars, catalogVars
<1>7. CASE MemberChanges
  BY <1>7 DEF MemberChanges, Rests, Fixed, worldVars, catalogVars
<1>8. CASE VirtualTtlPasses
  BY <1>8 DEF VirtualTtlPasses, Rests, Fixed, worldVars, catalogVars
<1>9. CASE VirtualRestart
  BY <1>9 DEF VirtualRestart, Rests, Fixed, worldVars, catalogVars
<1>10. CASE Restart
  BY <1>10 DEF Restart, Rests, Fixed, worldVars, catalogVars
<1>11. CASE MetaUpdates
  BY <1>11 DEF CleanFault, MetaUpdates, UpdateFails, UpdateReads, UpdateSaves, Rests, Fixed,
         worldVars, catalogVars
<1> QED BY <1>1, <1>2, <1>3, <1>4, <1>5, <1>6, <1>7, <1>8, <1>9, <1>10, <1>11 DEF WorldStep

\* The handlers of every format take file rows with their versions.
LEMMA HandlerStepRows == ASSUME RowsInv, NEW c, HandlerStep(c) PROVE Fixed /\ RowsInv'
<1>1. CASE \/ NpmHostedStep(c)
         \/ NpmProxyStep(c)
         \/ MavenHostedStep(c)
         \/ MavenProxyStep(c)
         \/ CargoHostedStep(c)
         \/ PythonHostedStep(c)
         \/ PythonProxyStep(c)
         \/ NugetHostedStep(c)
         \/ NugetProxyStep(c)
         \/ RubyProxyStep(c)
         \/ PhpHostedStep(c)
         \/ PhpProxyStep(c)
         \/ DebHostedStep(c)
         \/ DebProxyStep(c)
         \/ DockerProxyStep(c)
         \/ BlobUploadStep(c)
         \/ LocalFilesStep(c)
         \/ VirtualStep(c)
  BY <1>1, RowsRest, NpmHostedStepRests, NpmProxyStepRests, MavenHostedStepRests,
         MavenProxyStepRests, CargoHostedStepRests, PythonHostedStepRests, PythonProxyStepRests,
         NugetHostedStepRests, NugetProxyStepRests, RubyProxyStepRests, PhpHostedStepRests,
         PhpProxyStepRests, DebHostedStepRests, DebProxyStepRests, DockerProxyStepRests,
         BlobUploadStepRests, LocalFilesStepRests, VirtualStepRests
<1>2. CASE GoHostedStep(c) \/ GoProxyStep(c) \/ HelmHostedStep(c) \/ RubyHostedStep(c)
  BY <1>2, GoHostedStepRows, GoProxyStepRows, HelmHostedStepRows, RubyHostedStepRows
<1> QED BY <1>1, <1>2 DEF HandlerStep

\* So do the steps the handlers share.
LEMMA SharedStepRows == ASSUME RowsInv, NEW c, SharedStep(c) PROVE Fixed /\ RowsInv'
<1>1. CASE Logs(c)
  <2>1. Rests
    BY <1>1 DEF Advance, Goto, Logs, Rests, Fixed, worldVars, catalogVars
  <2> QED BY <2>1, RowsRest
<1>2. CASE StepFails(c)
  <2>1. Rests
    BY <1>2 DEF Abort, Fault, Goto, Reply, StepFails, Rests, Fixed, worldVars, catalogVars
  <2> QED BY <2>1, RowsRest
<1> QED BY <1>1, <1>2, CatalogStepsRows, DeletionStepsRows, ProxyStepsRows DEF SharedStep

\* Init gives an empty catalog.
LEMMA RowsInvInit == Init => RowsInv
  BY DEF Init, RepositoryInit, RowsInv, FileRowsHaveVersions, EmptyMap

\* Every step keeps it.
LEMMA RowsInvNext == RowsInv /\ [Next]_vars => Fixed /\ RowsInv'
<1> SUFFICES ASSUME RowsInv, [Next]_vars PROVE Fixed /\ RowsInv'
  OBVIOUS
<1>1. CASE WorldStep
  BY <1>1, WorldStepRests, RowsRest
<1>2. CASE \E c \in Clients : HandlerStep(c) \/ SharedStep(c)
  BY <1>2, HandlerStepRows, SharedStepRows
<1>3. CASE UNCHANGED vars
  <2>1. Rests
    BY <1>3 DEF vars, Rests, Fixed
  <2> QED BY <2>1, RowsRest
<1> QED BY <1>1, <1>2, <1>3 DEF Next

\* Every file row that names a version names one that exists, in every format.
THEOREM FileRowsKept == Spec => []FileRowsHaveVersions
<1>1. RowsInv => FileRowsHaveVersions
  BY DEF RowsInv
<1> QED BY <1>1, RowsInvInit, RowsInvNext, PTL DEF Spec

\* A repository keeps its kind and its storage backend.
THEOREM KindKept == Spec => [][Fixed]_vars
<1>1. [Next]_vars /\ RowsInv => [Fixed]_vars
  BY RowsInvNext
<1> QED BY <1>1, RowsInvInit, RowsInvNext, PTL DEF Spec
==============================================================================
