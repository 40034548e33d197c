------------------------- MODULE DockerRegistryProofs -------------------------
(***************************************************************************)
(* Types of the Docker registry for any image, any number of clients and   *)
(* any deletion; and, where nothing is deleted and revisions do not wrap,  *)
(* that the revision guards of the repairs hold and that the repairs leave *)
(* every row accurate.                                                     *)
(***************************************************************************)
EXTENDS DockerRegistry, FiniteSetTheorems, TLAPS

-----------------------------------------------------------------------------
(* The inductive invariant of the types. *)

\* docker_objects: at most one row for a path (its primary key).
Table == {t \in [Paths -> SUBSET Row] : \A p \in Paths : \A r, s \in t[p] : r = s}
Observation == [path : Paths, body : Objects, rev : SUBSET Nat]

Typed ==
    /\ store \in [Paths -> Objects \cup {NoObject}]
    /\ WellPlaced(store)
    /\ rows \in Table
    /\ pc \in [Clients -> {Quiet, "check", "save", "record", "collect", "erase"}]
    /\ path \in [Clients -> Paths] /\ body \in [Clients -> Objects]
    /\ todo \in [Clients -> SUBSET Paths] /\ doomed \in [Clients -> SUBSET Paths]
    /\ bpc \in [Repairers -> {Quiet, "capture", "read", "publish"}]
    /\ pending \in [Repairers -> SUBSET Paths] /\ visited \in [Repairers -> SUBSET Paths]
    /\ cur \in [Repairers -> [path : Paths, rev : SUBSET Nat]]
    /\ found \in [Repairers -> Seq(Observation)]
    /\ rpc \in {Quiet, "graphs", "probe"} /\ entries \subseteq ManifestPaths
    /\ snap \in Table
    /\ drift \subseteq [path : Paths, size : Nat] /\ missing \subseteq Paths
    /\ stale \in [Readers -> SUBSET Paths]
    /\ used \in [requests : 0 .. MaxRequests, passes : Nat, faults : 0 .. MaxFaults]

\* A request writes a body only where its kind belongs.
BodyFits(p, o) == IF p \in Tags THEN o \in Manifests ELSE o = p
RequestsFit == \A c \in Clients : pc[c] \in {"check", "save", "record"} => BodyFits(path[c], body[c])

\* A backfill visited whatever it read or is about to read.
VisitedFirst ==
    \A i \in Repairers :
        /\ bpc[i] = "read" => cur[i].path \in visited[i]
        /\ \A k \in DOMAIN found[i] : found[i][k].path \in visited[i]

TypeInv == Typed /\ RequestsFit /\ VisitedFirst

-----------------------------------------------------------------------------
(* The inductive invariant of the guards. *)

\* What the theorems on the guards assume: the revision, a 64-bit counter, does
\* not wrap, and no request deletes.
NothingDeleted == RevisionSpan = Unbounded /\ Ops \cap {"delete", "deleteBlob"} = {}

\* A row, and whatever is about to become one, has its object in the storage.
Backed ==
    /\ \A p \in Paths : rows[p] # NoRow \/ snap[p] # NoRow => store[p] # NoObject
    /\ \A c \in Clients : pc[c] = "record" => store[path[c]] # NoObject
    /\ \A i \in Repairers : \A k \in DOMAIN found[i] : store[found[i][k].path] # NoObject
    /\ \A c \in Clients : pc[c] \notin {"collect", "erase"}
    /\ missing = {}

\* In the table t the revision v of the row of p that a reader holds is not ahead
\* of the row's, and is behind it once the row changed.
Behind(t, old, p, v) ==
    /\ t[p] # NoRow
    /\ \A r \in t[p] : v <= r.rev /\ (p \in old => v < r.rev)

CaptureBehind ==
    \A i \in Repairers : bpc[i] = "read" => \A v \in cur[i].rev : Behind(rows, stale[i], cur[i].path, v)

FoundBehind ==
    \A i \in Repairers : \A k \in DOMAIN found[i] :
        \A v \in found[i][k].rev : Behind(rows, stale[i], found[i][k].path, v)

SnapBehind == \A p \in Paths : \A s \in snap[p] : Behind(rows, stale["snapshot"], p, s.rev)

\* A size to correct belongs to one path of the snapshot of the pass.
DriftListed ==
    /\ rpc # "probe" => drift = {}
    /\ \A d \in drift : snap[d.path] # NoRow
    /\ \A d, e \in drift : d.path = e.path => d = e

GuardInv == Backed /\ CaptureBehind /\ FoundBehind /\ SnapBehind /\ DriftListed

-----------------------------------------------------------------------------
(* The inductive invariant of accuracy. *)

\* What the theorem on accuracy assumes besides: one request at a time, and none fails.
OneAtATime == (\A c, d \in Clients : c = d) /\ MaxFaults = 0

Describes(r, o) == r.size = Size[o] /\ r.refs = Refs[o]
SameRow(o, u) == Size[o] = Size[u] /\ Refs[o] = Refs[u]

\* The paths a request has written and is about to record.
Recorded == {path[c] : c \in {d \in Clients : pc[d] = "record"}}

\* With the table t and the storage st, the request at p will replace the row there.
Replacing(t, st, rec, p) == p \in rec /\ \A r \in t[p] : ~Describes(r, st[p])

\* The guard of the observation f would let it be published now; if so, it is
\* what the storage holds, or a request is about to replace the row anyway.
Live(t, f) == (f.rev = {} /\ t[f.path] = NoRow) \/ \E r \in t[f.path] : r.rev \in f.rev
Current(t, st, rec, f) == Live(t, f) => SameRow(f.body, st[f.path]) \/ Replacing(t, st, rec, f.path)

RowsDescribe == \A p \in Paths : \A r \in rows[p] : p \in Recorded \/ Describes(r, store[p])

RecordedIsStored == \A c \in Clients : pc[c] = "record" => store[path[c]] = body[c]

LiveIsCurrent ==
    \A i \in Repairers : \A k \in DOMAIN found[i] : Current(rows, store, Recorded, found[i][k])

\* A snapshot of the revision a row still has is that row, and its size is to be
\* corrected only while the row is about to be replaced anyway.
SnapshotIsRow == \A p \in Paths : \A s \in snap[p] : \A r \in rows[p] : s.rev = r.rev => s = r
DriftIsReplaced ==
    \A d \in drift : \A s \in snap[d.path] : \A r \in rows[d.path] :
        s.rev = r.rev => Replacing(rows, store, Recorded, d.path)

AccuracyInv == RowsDescribe /\ RecordedIsStored /\ LiveIsCurrent /\ SnapshotIsRow /\ DriftIsReplaced

-----------------------------------------------------------------------------
(* Types. *)

\* The paths and bodies that stand for nothing are paths and bodies.
LEMMA AnyPathIsObject == AnyPath \in Objects
BY ConstantsAssumption DEF AnyPath

\* A revision is followed by a revision.
LEMMA BumpIsNat == \A v \in Nat : Bump(v) \in Nat
<1> TAKE v \in Nat
<1>1. CASE RevisionSpan = Unbounded
  BY <1>1 DEF Bump
<1>2. CASE RevisionSpan # Unbounded
  <2>1. RevisionSpan \in Nat \ {0}
    BY <1>2, ConstantsAssumption DEF Unbounded
  <2>2. (v + 1) % RevisionSpan \in Nat
    BY <2>1
  <2>3. QED
    BY <1>2, <2>2 DEF Bump
<1>3. QED
  BY <1>1, <1>2

\* Every statement leaves a table: one row at most for a path.
LEMMA UpsertIsTable ==
    ASSUME rows \in Table, NEW p \in Paths, NEW o \in Objects
    PROVE  Upsert(p, o) \in Table
<1> DEFINE rev == IF rows[p] = NoRow THEN 0 ELSE Bump((CHOOSE r \in rows[p] : TRUE).rev)
           new == [size |-> Size[o], refs |-> Refs[o], rev |-> rev]
<1>1. rows[p] # NoRow => (CHOOSE r \in rows[p] : TRUE) \in rows[p]
  BY DEF NoRow
<1>2. rows \in [Paths -> SUBSET Row]
  BY DEF Table
<1>3. rev \in Nat
  BY <1>1, <1>2, BumpIsNat DEF Row
<1>4. new \in Row
  BY <1>3, ConstantsAssumption DEF Row
<1> HIDE DEF rev
<1>5. [rows EXCEPT ![p] = {new}] \in Table
  BY <1>4 DEF Table
<1>6. QED
  BY <1>5 DEF Upsert, rev

\* insert_missing writes one complete row or none.
LEMMA InsertMissingIsTable ==
    ASSUME rows \in Table, NEW p \in Paths, NEW o \in Objects
    PROVE  InsertMissing(p, o) \in Table
<1>1. [size |-> Size[o], refs |-> Refs[o], rev |-> 0] \in Row
  BY ConstantsAssumption DEF Row
<1>2. QED
  BY <1>1 DEF InsertMissing, Table

\* So does upsert_if_revision.
LEMMA UpsertIfRevisionIsTable ==
    ASSUME rows \in Table, NEW p \in Paths, NEW o \in Objects, NEW v \in Nat
    PROVE  UpsertIfRevision(p, o, v) \in Table
<1>1. [size |-> Size[o], refs |-> Refs[o], rev |-> Bump(v)] \in Row
  BY ConstantsAssumption, BumpIsNat DEF Row
<1>2. QED
  BY <1>1 DEF UpsertIfRevision, Table

\* A size update rewrites the row it finds.
LEMMA UpdateSizeIfRevisionIsTable ==
    ASSUME rows \in Table, NEW p \in Paths, NEW n \in Nat, NEW v
    PROVE  UpdateSizeIfRevision(p, n, v) \in Table
<1> DEFINE upd(r) == IF r.rev = v THEN [r EXCEPT !.size = n, !.rev = Bump(v)] ELSE r
<1>1. \A r \in Row : upd(r) \in Row
  BY BumpIsNat DEF Row
<1>2. rows[p] \subseteq Row /\ \A r, s \in rows[p] : r = s
  BY DEF Table
<1>3. {upd(r) : r \in rows[p]} \subseteq Row /\ \A r, s \in {upd(q) : q \in rows[p]} : r = s
  <2> HIDE DEF upd
  <2> QED BY <1>1, <1>2
<1>4. UpdateSizeIfRevision(p, n, v) = [rows EXCEPT ![p] = {upd(r) : r \in rows[p]}]
  BY DEF UpdateSizeIfRevision, Table
<1>5. QED
  <2> HIDE DEF upd
  <2> QED BY <1>3, <1>4 DEF Table

\* Deleting rows leaves a table.
LEMMA DeletesAreTables ==
    ASSUME rows \in Table, NEW ps, NEW old
    PROVE  DeletePathsIfRevisions(ps, old) \in Table /\ DeletePaths(ps) \in Table
BY DEF DeletePathsIfRevisions, DeletePaths, NoRow, Table

\* Whatever is written, the readers' stale paths stay paths.
LEMMA OutdatedIsTyped ==
    ASSUME Typed, NEW new PROVE Outdated(new) \in [Readers -> SUBSET Paths]
BY DEF Outdated, Held, Typed, Readers

\* The bounds hold after a request, a pass or a fault was counted.
LEMMA SpendIsTyped ==
    ASSUME Typed,
           \/ Spend("requests") /\ used.requests < MaxRequests
           \/ Spend("faults") /\ used.faults < MaxFaults
    PROVE  used' \in [requests : 0 .. MaxRequests, passes : Nat, faults : 0 .. MaxFaults]
<1>1. used \in [requests : 0 .. MaxRequests, passes : Nat, faults : 0 .. MaxFaults]
  BY DEF Typed
<1>2. CASE Spend("requests") /\ used.requests < MaxRequests
  <2>1. used.requests + 1 \in 0 .. MaxRequests
    BY <1>1, <1>2, ConstantsAssumption
  <2>2. QED
    BY <1>1, <1>2, <2>1 DEF Spend
<1>3. CASE Spend("faults") /\ used.faults < MaxFaults
  <2>1. used.faults + 1 \in 0 .. MaxFaults
    BY <1>1, <1>3, ConstantsAssumption
  <2>2. QED
    BY <1>1, <1>3, <2>1 DEF Spend
<1>4. QED
  BY <1>2, <1>3

\* Nothing runs, and the storage holds what it held before the table existed.
LEMMA InitTypeInv == Init => TypeInv
<1> SUFFICES ASSUME Init PROVE TypeInv
  OBVIOUS
<1> USE AnyPathIsObject DEF Init
<1>1. Typed
  <2>1. store \in [Paths -> Objects \cup {NoObject}] /\ WellPlaced(store)
    BY ConstantsAssumption
  <2>2. rows \in Table /\ snap \in Table
    BY DEF Table, NoRow
  <2>3. path \in [Clients -> Paths] /\ body \in [Clients -> Objects]
    BY DEF Paths
  <2>4. cur \in [Repairers -> [path : Paths, rev : SUBSET Nat]]
    BY DEF NoCapture, Paths
  <2>5. used \in [requests : 0 .. MaxRequests, passes : Nat, faults : 0 .. MaxFaults]
    BY ConstantsAssumption
  <2>6. found \in [Repairers -> Seq(Observation)]
    OBVIOUS
  <2>7. QED
    BY <2>1, <2>2, <2>3, <2>4, <2>5, <2>6 DEF Typed
<1>2. RequestsFit
  BY DEF RequestsFit, Quiet
<1>3. VisitedFirst
  BY DEF VisitedFirst, Quiet
<1>4. QED
  BY <1>1, <1>2, <1>3 DEF TypeInv

\* The requests.
LEMMA RequestTypeInv == ASSUME TypeInv, NEW c \in Clients, Request(c) PROVE TypeInv'
<1> USE AnyPathIsObject DEF clientVars, backfillVars, passVars, Set, TypeInv
<1>0. /\ todo \in [Clients -> SUBSET Paths] /\ doomed \in [Clients -> SUBSET Paths]
      /\ pc \in [Clients -> {Quiet, "check", "save", "record", "collect", "erase"}]
      /\ path \in [Clients -> Paths] /\ body \in [Clients -> Objects]
  BY DEF Typed
<1>1. ASSUME NEW ref \in ManifestPaths, NEW m \in IF ref \in Tags THEN Manifests ELSE {ref},
             PutManifest(c, ref, m)
      PROVE  TypeInv'
  <2>1. Typed'
    BY <1>1, SpendIsTyped DEF PutManifest, Begin, Typed, ManifestPaths, Paths, Objects
  <2>2. RequestsFit'
    BY <1>1 DEF PutManifest, Begin, RequestsFit, BodyFits, Typed, ManifestPaths, Paths, Objects
  <2>3. VisitedFirst'
    BY <1>1 DEF PutManifest, Begin, VisitedFirst
  <2>4. QED
    BY <2>1, <2>2, <2>3
<1>2. CASE CheckTag(c)
  <2>1. Typed'
    BY <1>2 DEF CheckTag, Answer, Typed, Paths
  <2>2. RequestsFit'
    BY <1>2 DEF CheckTag, Answer, RequestsFit, Typed, Quiet
  <2>3. VisitedFirst'
    BY <1>2 DEF CheckTag, VisitedFirst
  <2>4. QED
    BY <2>1, <2>2, <2>3
<1>3. CASE SaveFile(c)
  <2>1. BodyFits(path[c], body[c])
    BY <1>3 DEF SaveFile, RequestsFit
  <2>2. WellPlaced(store)'
    BY <1>3, <2>1 DEF SaveFile, Typed, WellPlaced, BodyFits, Paths
  <2>3. Typed'
    BY <1>3, <2>2 DEF SaveFile, Typed
  <2>4. RequestsFit'
    BY <1>3, <2>1 DEF SaveFile, RequestsFit, Typed
  <2>5. VisitedFirst'
    BY <1>3 DEF SaveFile, VisitedFirst
  <2>6. QED
    BY <2>3, <2>4, <2>5
<1>4. CASE RecordFile(c)
  <2>1. BodyFits(path[c], body[c])
    BY <1>4 DEF RecordFile, RequestsFit
  <2>2. rows' \in Table /\ stale' \in [Readers -> SUBSET Paths]
    BY <1>4, UpsertIsTable, OutdatedIsTyped DEF RecordFile, Write, Typed
  <2>3. Typed'
    <3>1. /\ pc' \in [Clients -> {Quiet, "check", "save", "record", "collect", "erase"}]
          /\ path' \in [Clients -> Paths] /\ body' \in [Clients -> Objects]
          /\ todo' \in [Clients -> SUBSET Paths] /\ doomed' \in [Clients -> SUBSET Paths]
      BY <1>0, <1>4 DEF RecordFile, Answer, Paths
    <3>2. QED
      BY <1>4, <2>2, <3>1 DEF RecordFile, Typed
  <2>4. RequestsFit'
    BY <1>0, <1>4, <2>1, ConstantsAssumption DEF RecordFile, Answer, RequestsFit, BodyFits, Quiet, Objects
  <2>5. VisitedFirst'
    BY <1>4 DEF RecordFile, VisitedFirst
  <2>6. QED
    BY <2>3, <2>4, <2>5
<1>5. ASSUME NEW b \in Blobs, CompleteBlobUpload(c, b) \/ GetBlob(c, b) \/ DeleteBlob(c, b)
      PROVE  TypeInv'
  <2>1. Typed'
    <3>1. /\ pc' \in [Clients -> {Quiet, "check", "save", "record", "collect", "erase"}]
          /\ path' \in [Clients -> Paths] /\ body' \in [Clients -> Objects]
          /\ todo' \in [Clients -> SUBSET Paths] /\ doomed' \in [Clients -> SUBSET Paths]
      BY <1>0, <1>5 DEF CompleteBlobUpload, GetBlob, DeleteBlob, Paths, Objects
    <3>2. Begin(c, "upload") \/ Begin(c, "pull") \/ Begin(c, "deleteBlob")
      BY <1>5 DEF CompleteBlobUpload, GetBlob, DeleteBlob
    <3>3. QED
      BY <3>1, <3>2, SpendIsTyped DEF Begin, Typed
  <2>2. RequestsFit'
    BY <1>5, ConstantsAssumption
    DEF CompleteBlobUpload, GetBlob, DeleteBlob, Begin, RequestsFit, BodyFits, Typed, Objects
  <2>3. VisitedFirst'
    BY <1>5 DEF CompleteBlobUpload, GetBlob, DeleteBlob, Begin, VisitedFirst
  <2>4. QED
    BY <2>1, <2>2, <2>3
<1>6. ASSUME NEW roots \in SUBSET ManifestPaths, DeletePackages(c, roots) PROVE TypeInv'
  <2>1. Typed'
    BY <1>6, SpendIsTyped DEF DeletePackages, Begin, Typed, ManifestPaths, Paths, Objects
  <2>2. RequestsFit'
    BY <1>6 DEF DeletePackages, Begin, RequestsFit, Typed
  <2>3. VisitedFirst'
    BY <1>6 DEF DeletePackages, Begin, VisitedFirst
  <2>4. QED
    BY <2>1, <2>2, <2>3
<1>7. CASE CollectManifestPaths(c)
  <2>1. todo' \in [Clients -> SUBSET Paths] /\ doomed' \in [Clients -> SUBSET Paths]
    <3>1. PICK p \in todo[c] :
            IF store[p] = NoObject
            THEN todo' = Set(todo, c, todo[c] \ {p}) /\ UNCHANGED doomed
            ELSE /\ doomed' = Set(doomed, c, doomed[c] \cup Collected(p, store[p]))
                 /\ todo' = Set(todo, c, (todo[c] \ {p}) \cup Nested(p, store[p], doomed[c]))
      BY <1>7 DEF CollectManifestPaths
    <3>2. p \in Paths
      BY DEF Typed
    <3>3. CASE store[p] = NoObject
      BY <1>0, <3>1, <3>3
    <3>4. CASE store[p] # NoObject
      <4>1. store[p] \in Objects
        BY <3>2, <3>4 DEF Typed
      <4>2. Collected(p, store[p]) \subseteq Paths
        BY <3>2, <4>1, ConstantsAssumption DEF Collected, Paths
      <4>3. Nested(p, store[p], doomed[c]) \subseteq Paths
        BY DEF Nested, Paths, Objects
      <4>4. QED
        BY <1>0, <3>1, <3>4, <4>2, <4>3
    <3>5. QED
      BY <3>3, <3>4
  <2>2. Typed'
    BY <1>7, <2>1 DEF CollectManifestPaths, Typed
  <2>3. RequestsFit' /\ VisitedFirst'
    BY <1>7 DEF CollectManifestPaths, RequestsFit, VisitedFirst
  <2>4. QED
    BY <2>2, <2>3
<1>8. CASE CollectDone(c)
  <2>1. Typed'
    BY <1>8 DEF CollectDone, Typed
  <2>2. RequestsFit' /\ VisitedFirst'
    BY <1>8 DEF CollectDone, RequestsFit, VisitedFirst, Typed
  <2>3. QED
    BY <2>1, <2>2
<1>9. CASE Erase(c)
  <2>1. WellPlaced(store)'
    BY <1>9 DEF Erase, Typed, WellPlaced, Paths
  <2>2. Typed'
    BY <1>9, <2>1 DEF Erase, Typed
  <2>3. RequestsFit' /\ VisitedFirst'
    BY <1>9 DEF Erase, RequestsFit, VisitedFirst
  <2>4. QED
    BY <2>2, <2>3
<1>10. CASE Forget(c)
  <2>1. rows' \in Table /\ stale' \in [Readers -> SUBSET Paths]
    BY <1>10, DeletesAreTables, OutdatedIsTyped DEF Forget, Write, Typed
  <2>2. Typed'
    BY <1>10, <2>1 DEF Forget, Answer, Typed, Paths
  <2>3. RequestsFit' /\ VisitedFirst'
    BY <1>10 DEF Forget, Answer, RequestsFit, VisitedFirst, Typed, Quiet
  <2>4. QED
    BY <2>2, <2>3
<1>11. CASE RequestFails(c)
  <2>1. Typed'
    BY <1>11, SpendIsTyped DEF RequestFails, Answer, Typed, Paths
  <2>2. RequestsFit' /\ VisitedFirst'
    BY <1>11 DEF RequestFails, Answer, RequestsFit, VisitedFirst, Typed, Quiet
  <2>3. QED
    BY <2>1, <2>2
<1>12. QED
  BY <1>1, <1>2, <1>3, <1>4, <1>5, <1>6, <1>7, <1>8, <1>9, <1>10, <1>11 DEF Request

\* What is in a sequence with an element put in front.
LEMMA Pushed ==
    ASSUME NEW S, NEW x \in S, NEW s \in Seq(S)
    PROVE  /\ <<x>> \o s \in Seq(S)
           /\ \A k \in DOMAIN (<<x>> \o s) :
                 (<<x>> \o s)[k] = x \/ \E j \in DOMAIN s : (<<x>> \o s)[k] = s[j]
<1>1. <<x>> \o s \in Seq(S) /\ DOMAIN s = 1 .. Len(s) /\ Len(s) \in Nat
  OBVIOUS
<1>2. DOMAIN (<<x>> \o s) = 1 .. Len(s) + 1
  OBVIOUS
<1>3. ASSUME NEW k \in 1 .. Len(s) + 1
      PROVE  (<<x>> \o s)[k] = IF k = 1 THEN x ELSE s[k - 1]
  OBVIOUS
<1>4. \A k \in 1 .. Len(s) + 1 : k = 1 \/ k - 1 \in 1 .. Len(s)
  BY <1>1
<1>5. QED
  BY <1>1, <1>2, <1>3, <1>4

\* What is in a sequence without its first element, and that element.
LEMMA Popped ==
    ASSUME NEW S, NEW s \in Seq(S), s # <<>>
    PROVE  /\ Tail(s) \in Seq(S)
           /\ \A k \in DOMAIN Tail(s) : \E j \in DOMAIN s : Tail(s)[k] = s[j]
           /\ 1 \in DOMAIN s /\ Head(s) = s[1] /\ Head(s) \in S
<1>1. DOMAIN s = 1 .. Len(s) /\ Len(s) \in Nat \ {0}
  OBVIOUS
<1>2. Tail(s) \in Seq(S) /\ DOMAIN Tail(s) = 1 .. Len(s) - 1
  BY <1>1
<1>3. \A k \in 1 .. Len(s) - 1 : Tail(s)[k] = s[k + 1]
  BY <1>1
<1>4. \A k \in 1 .. Len(s) - 1 : k + 1 \in 1 .. Len(s)
  BY <1>1
<1>5. QED
  BY <1>1, <1>2, <1>3, <1>4

\* Starting a backfill and ending it, for a listing or for the pass.
LEMMA BackfillEndsTyped ==
    ASSUME Typed, NEW i \in Repairers, EndBackfill(i)
    PROVE  /\ bpc' \in [Repairers -> {Quiet, "capture", "read", "publish"}]
           /\ pending' \in [Repairers -> SUBSET Paths] /\ visited' \in [Repairers -> SUBSET Paths]
           /\ cur' \in [Repairers -> [path : Paths, rev : SUBSET Nat]]
           /\ found' \in [Repairers -> Seq(Observation)]
           /\ stale' \in [Readers -> SUBSET Paths]
<1> USE DEF EndBackfill, Set
<1>1. bpc' \in [Repairers -> {Quiet, "capture", "read", "publish"}]
  BY DEF Typed
<1>2. pending' \in [Repairers -> SUBSET Paths] /\ visited' \in [Repairers -> SUBSET Paths]
  BY DEF Typed
<1>3. cur' \in [Repairers -> [path : Paths, rev : SUBSET Nat]]
  BY AnyPathIsObject DEF Typed, NoCapture, Paths
<1>4. found' \in [Repairers -> Seq(Observation)]
  <2>1. found \in [Repairers -> Seq(Observation)]
    BY DEF Typed
  <2>2. <<>> \in Seq(Observation)
    OBVIOUS
  <2>3. QED
    BY <2>1, <2>2
<1>5. stale' \in [Readers -> SUBSET Paths]
  BY DEF Typed
<1>6. QED
  BY <1>1, <1>2, <1>3, <1>4, <1>5

\* A repair starts with the root as its only pending path.
LEMMA BackfillStartsTyped ==
    ASSUME Typed, NEW i \in Repairers, NEW root \in Paths, StartBackfill(i, root)
    PROVE  /\ bpc' \in [Repairers -> {Quiet, "capture", "read", "publish"}]
           /\ pending' \in [Repairers -> SUBSET Paths]
           /\ UNCHANGED <<visited, cur, found>>
<1> USE DEF StartBackfill, Set
<1>1. bpc' \in [Repairers -> {Quiet, "capture", "read", "publish"}]
  BY DEF Typed
<1>2. pending' \in [Repairers -> SUBSET Paths]
  BY DEF Typed
<1>3. QED
  BY <1>1, <1>2

\* The backfills.
LEMMA BackfillTypeInv ==
    ASSUME TypeInv, NEW i \in Repairers, BackfillStep(i) \/ BackfillFails(i) PROVE TypeInv'
<1> USE AnyPathIsObject DEF clientVars, backfillVars, passVars, Set, TypeInv
<1>0. /\ bpc \in [Repairers -> {Quiet, "capture", "read", "publish"}]
      /\ pending \in [Repairers -> SUBSET Paths] /\ visited \in [Repairers -> SUBSET Paths]
      /\ cur \in [Repairers -> [path : Paths, rev : SUBSET Nat]]
      /\ found \in [Repairers -> Seq(Observation)]
      /\ stale \in [Readers -> SUBSET Paths]
  BY DEF Typed
<1>1. CASE Capture(i)
  <2>1. PICK p \in pending[i] :
          /\ cur' = [cur EXCEPT ![i] = [path |-> p, rev |-> RevOf(p)]]
          /\ pending' = [pending EXCEPT ![i] = pending[i] \ {p}]
          /\ visited' = [visited EXCEPT ![i] = visited[i] \cup {p}]
          /\ stale' = [stale EXCEPT ![i] = stale[i] \ {p}]
    BY <1>1 DEF Capture
  <2>2. p \in Paths
    BY <1>0
  <2>3. RevOf(p) \subseteq Nat
    BY <2>2 DEF Typed, Table, Row, RevOf
  <2>4. /\ pending' \in [Repairers -> SUBSET Paths] /\ visited' \in [Repairers -> SUBSET Paths]
        /\ cur' \in [Repairers -> [path : Paths, rev : SUBSET Nat]]
        /\ stale' \in [Readers -> SUBSET Paths]
    BY <1>0, <2>1, <2>2, <2>3 DEF Readers
  <2>5. Typed'
    BY <1>1, <2>4 DEF Capture, Typed
  <2>6. RequestsFit'
    BY <1>1 DEF Capture, RequestsFit
  <2>7. VisitedFirst'
    BY <1>0, <1>1, <2>1 DEF Capture, VisitedFirst
  <2>8. QED
    BY <2>5, <2>6, <2>7
<1>2. CASE ReadObject(i)
  <2> DEFINE p == cur[i].path
             o == store[p]
             f == [path |-> p, body |-> o, rev |-> cur[i].rev]
  <2>1. p \in Paths /\ cur[i].rev \subseteq Nat /\ p \in visited[i]
    BY <1>0, <1>2 DEF ReadObject, VisitedFirst
  <2>2. cur' \in [Repairers -> [path : Paths, rev : SUBSET Nat]]
    BY <1>0, <1>2 DEF ReadObject, NoCapture, Paths
  <2>3. CASE o = NoObject
    <3>1. UNCHANGED <<pending, found>>
      BY <1>2, <2>3 DEF ReadObject
    <3>2. bpc' \in [Repairers -> {Quiet, "capture", "read", "publish"}] /\ bpc'[i] # "read"
      BY <1>0, <1>2 DEF ReadObject
    <3>3. Typed'
      BY <1>2, <2>2, <3>1, <3>2 DEF ReadObject, Typed
    <3>4. RequestsFit'
      BY <1>2 DEF ReadObject, RequestsFit
    <3>5. VisitedFirst'
      BY <1>0, <1>2, <3>1, <3>2 DEF ReadObject, VisitedFirst
    <3>6. QED
      BY <3>3, <3>4, <3>5
  <2>4. CASE o # NoObject
    <3>1. o \in Objects /\ Refs[o] \subseteq Paths
      BY <2>1, <2>4, ConstantsAssumption DEF Typed, Paths
    <3>2. f \in Observation
      BY <2>1, <3>1 DEF Observation
    <3>3. /\ pending' = [pending EXCEPT ![i] = pending[i] \cup (Refs[o] \ visited[i])]
          /\ found' = [found EXCEPT ![i] = <<f>> \o found[i]]
      BY <1>2, <2>4 DEF ReadObject
    <3>4. pending' \in [Repairers -> SUBSET Paths]
      BY <1>0, <3>1, <3>3
    <3>5. bpc' \in [Repairers -> {Quiet, "capture", "read", "publish"}] /\ bpc'[i] # "read"
      BY <1>0, <1>2 DEF ReadObject
    <3> HIDE DEF f
    <3>6. /\ <<f>> \o found[i] \in Seq(Observation)
          /\ \A k \in DOMAIN (<<f>> \o found[i]) :
                \/ (<<f>> \o found[i])[k] = f
                \/ \E j \in DOMAIN found[i] : (<<f>> \o found[i])[k] = found[i][j]
      BY <1>0, <3>2, Pushed
    <3>7. found' \in [Repairers -> Seq(Observation)]
      BY <1>0, <3>3, <3>6
    <3>8. Typed'
      BY <1>2, <2>2, <3>4, <3>5, <3>7 DEF ReadObject, Typed
    <3>9. RequestsFit'
      BY <1>2 DEF ReadObject, RequestsFit
    <3>10. f.path \in visited[i]
      BY <2>1 DEF f
    <3>11. VisitedFirst'
      BY <1>0, <1>2, <3>3, <3>5, <3>6, <3>10 DEF ReadObject, VisitedFirst
    <3>12. QED
      BY <3>8, <3>9, <3>11
  <2>5. QED
    BY <2>3, <2>4
<1>3. CASE Publish(i)
  <2> DEFINE f == Head(found[i])
  <2>1. f \in Observation /\ Tail(found[i]) \in Seq(Observation)
    BY <1>0, <1>3, Popped DEF Publish
  <2>2. f.path \in Paths /\ f.body \in Objects /\ f.rev \in SUBSET Nat
    BY <2>1 DEF Observation
  <2>3. f.rev # {} => (CHOOSE v \in f.rev : TRUE) \in Nat
    BY <2>2
  <2>4. rows' \in Table /\ stale' \in [Readers -> SUBSET Paths]
    BY <1>3, <2>2, <2>3, InsertMissingIsTable, UpsertIfRevisionIsTable, OutdatedIsTyped
    DEF Publish, Write, Typed
  <2>5. found' \in [Repairers -> Seq(Observation)]
    BY <1>0, <1>3, <2>1 DEF Publish
  <2>6. Typed'
    BY <1>3, <2>4, <2>5 DEF Publish, Typed
  <2>7. RequestsFit'
    BY <1>3 DEF Publish, RequestsFit
  <2>8. VisitedFirst'
    <3>1. \A k \in DOMAIN Tail(found[i]) : \E j \in DOMAIN found[i] : Tail(found[i])[k] = found[i][j]
      BY <1>0, <1>3, Popped DEF Publish
    <3>2. QED
      BY <1>0, <1>3, <3>1 DEF Publish, VisitedFirst
  <2>9. QED
    BY <2>6, <2>7, <2>8
<1>4. CASE BackfillDone(i) \/ BackfillFails(i)
  <2>0. EndBackfill(i) /\ UNCHANGED <<store, rows, clientVars, passVars>>
    BY <1>4 DEF BackfillDone, BackfillFails
  <2>1. used' \in [requests : 0 .. MaxRequests, passes : Nat, faults : 0 .. MaxFaults]
    BY <1>4, SpendIsTyped DEF BackfillDone, BackfillFails, Typed
  <2>3. Typed'
    BY <2>0, <2>1, BackfillEndsTyped DEF Typed
  <2>4. RequestsFit'
    BY <2>0 DEF RequestsFit
  <2>5. VisitedFirst'
    BY <1>0, <2>0 DEF EndBackfill, VisitedFirst, Quiet
  <2>6. QED
    BY <2>3, <2>4, <2>5
<1>5. QED
  BY <1>1, <1>2, <1>3, <1>4 DEF BackfillStep

\* A listing that finds a manifest without a row.
LEMMA ListingTypeInv == ASSUME TypeInv, NEW root \in ManifestPaths, ListPackages(root) PROVE TypeInv'
<1> USE DEF clientVars, backfillVars, passVars, Set, TypeInv
<1>1. root \in Paths /\ "listing" \in Repairers
  BY DEF ManifestPaths, Paths, Objects, Repairers
<1>2. Typed'
  BY <1>1, SpendIsTyped DEF ListPackages, StartBackfill, Typed
<1>3. RequestsFit'
  BY DEF ListPackages, StartBackfill, RequestsFit
<1>4. VisitedFirst'
  BY <1>1 DEF ListPackages, StartBackfill, VisitedFirst, Typed
<1>5. QED
  BY <1>2, <1>3, <1>4

\* The reconciliation pass.
LEMMA PassTypeInv ==
    ASSUME TypeInv, PassStep \/ PassFails \/ \E p \in Paths : ProbeFails(p) PROVE TypeInv'
<1> USE DEF clientVars, backfillVars, passVars, Set, TypeInv
<1>0. /\ snap \in Table /\ drift \subseteq [path : Paths, size : Nat] /\ missing \subseteq Paths
      /\ used \in [requests : 0 .. MaxRequests, passes : Nat, faults : 0 .. MaxFaults]
  BY DEF Typed
<1>1. CASE StartPass
  <2>1. used' \in [requests : 0 .. MaxRequests, passes : Nat, faults : 0 .. MaxFaults]
    BY <1>0, <1>1 DEF StartPass
  <2>2. Typed'
    BY <1>1, <2>1 DEF StartPass, Typed
  <2>3. RequestsFit' /\ VisitedFirst'
    BY <1>1 DEF StartPass, RequestsFit, VisitedFirst
  <2>4. QED
    BY <2>2, <2>3
<1>2. CASE ExamineManifest
  <2>1. PICK e \in entries :
          /\ entries' = entries \ {e}
          /\ StartBackfill("reconcile", e) \/ UNCHANGED backfillVars
    BY <1>2 DEF ExamineManifest
  <2>2. e \in Paths /\ "reconcile" \in Repairers
    BY DEF ManifestPaths, Paths, Objects, Repairers, Typed
  <2>3. Typed'
    <3>1. /\ bpc' \in [Repairers -> {Quiet, "capture", "read", "publish"}]
          /\ pending' \in [Repairers -> SUBSET Paths]
          /\ UNCHANGED <<visited, cur, found>>
      BY <2>1, <2>2, BackfillStartsTyped DEF Typed
    <3>2. entries' \subseteq ManifestPaths
      BY <2>1 DEF Typed
    <3>3. QED
      BY <1>2, <3>1, <3>2 DEF ExamineManifest, Typed
  <2>4. RequestsFit'
    BY <1>2 DEF ExamineManifest, RequestsFit
  <2>5. VisitedFirst'
    BY <1>2, <2>1, <2>2 DEF ExamineManifest, StartBackfill, VisitedFirst, Typed
  <2>6. QED
    BY <2>3, <2>4, <2>5
<1>3. CASE ListRows
  <2>1. Typed'
    BY <1>3 DEF ListRows, Typed
  <2>2. RequestsFit' /\ VisitedFirst'
    BY <1>3 DEF ListRows, RequestsFit, VisitedFirst
  <2>3. QED
    BY <2>1, <2>2
<1>4. ASSUME NEW p \in Paths, Probe(p) PROVE TypeInv'
  <2>1. store[p] # NoObject => Size[store[p]] \in Nat
    BY ConstantsAssumption DEF Typed
  <2>2. missing' \subseteq Paths /\ drift' \subseteq [path : Paths, size : Nat]
    BY <1>0, <1>4, <2>1 DEF Probe
  <2>3. snap' \in Table
    BY <1>0, <1>4 DEF Probe, NoRow, Table
  <2>4. Typed'
    BY <1>4, <2>2, <2>3 DEF Probe, Typed
  <2>5. RequestsFit' /\ VisitedFirst'
    BY <1>4 DEF Probe, RequestsFit, VisitedFirst
  <2>6. QED
    BY <2>4, <2>5
<1>5. ASSUME NEW p \in Paths, ProbeFails(p) PROVE TypeInv'
  <2>1. snap' \in Table
    BY <1>0, <1>5 DEF ProbeFails, NoRow, Table
  <2>2. Typed'
    BY <1>5, <2>1, SpendIsTyped DEF ProbeFails, Typed
  <2>3. RequestsFit' /\ VisitedFirst'
    BY <1>5 DEF ProbeFails, RequestsFit, VisitedFirst
  <2>4. QED
    BY <2>2, <2>3
<1>6. ASSUME NEW d \in drift, CorrectSize(d) PROVE TypeInv'
  <2>1. d.path \in Paths /\ d.size \in Nat
    BY <1>0
  <2> DEFINE v == (CHOOSE r \in snap[d.path] : TRUE).rev
  <2>2. rows' \in Table /\ stale' \in [Readers -> SUBSET Paths]
    BY <1>6, <2>1, UpdateSizeIfRevisionIsTable, OutdatedIsTyped DEF CorrectSize, Write, Typed
  <2>3. snap' \in Table /\ drift' \subseteq [path : Paths, size : Nat]
    BY <1>0, <1>6 DEF CorrectSize, NoRow, Table
  <2>4. Typed'
    BY <1>6, <2>2, <2>3 DEF CorrectSize, Typed
  <2>5. RequestsFit' /\ VisitedFirst'
    BY <1>6 DEF CorrectSize, RequestsFit, VisitedFirst
  <2>6. QED
    BY <2>4, <2>5
<1>7. CASE RemoveMissing
  <2>1. rows' \in Table /\ Outdated(rows') \in [Readers -> SUBSET Paths]
    BY <1>7, DeletesAreTables, OutdatedIsTyped DEF RemoveMissing, Typed
  <2>2. stale' \in [Readers -> SUBSET Paths]
    BY <1>7, <2>1 DEF RemoveMissing
  <2>3. snap' \in Table
    BY <1>7 DEF RemoveMissing, EndPass, NoRow, Table
  <2>4. Typed'
    BY <1>7, <2>1, <2>2, <2>3 DEF RemoveMissing, EndPass, Typed
  <2>5. RequestsFit' /\ VisitedFirst'
    BY <1>7 DEF RemoveMissing, RequestsFit, VisitedFirst
  <2>6. QED
    BY <2>4, <2>5
<1>8. CASE PassFails
  <2>1. "reconcile" \in Repairers
    BY DEF Repairers
  <2>2. snap' \in Table
    BY <1>8 DEF PassFails, EndPass, NoRow, Table
  <2>4. Typed'
    <3>1. used' \in [requests : 0 .. MaxRequests, passes : Nat, faults : 0 .. MaxFaults]
      BY <1>8, SpendIsTyped DEF PassFails
    <3>2. QED
      BY <1>8, <2>1, <2>2, <3>1, BackfillEndsTyped DEF PassFails, EndPass, Typed
  <2>5. RequestsFit'
    BY <1>8 DEF PassFails, RequestsFit
  <2>6. VisitedFirst'
    BY <1>8, <2>1 DEF PassFails, EndBackfill, VisitedFirst, Typed, Quiet
  <2>7. QED
    BY <2>4, <2>5, <2>6
<1>9. QED
  BY <1>1, <1>2, <1>3, <1>4, <1>5, <1>6, <1>7, <1>8 DEF PassStep

\* Every step keeps the types.
LEMMA StepTypeInv == TypeInv /\ [Next]_vars => TypeInv'
<1> SUFFICES ASSUME TypeInv, [Next]_vars PROVE TypeInv'
  OBVIOUS
<1>1. CASE UNCHANGED vars
  <2>1. Typed'
    BY <1>1 DEF vars, clientVars, backfillVars, passVars, TypeInv, Typed
  <2>2. RequestsFit' /\ VisitedFirst'
    BY <1>1 DEF vars, clientVars, backfillVars, passVars, TypeInv, RequestsFit, VisitedFirst
  <2>3. QED
    BY <2>1, <2>2 DEF TypeInv
<1>2. QED
  BY <1>1, RequestTypeInv, BackfillTypeInv, ListingTypeInv, PassTypeInv DEF Next

\* A path has at most one row, as Cardinality says it.
LEMMA OneRow == ASSUME NEW t \in Table, NEW p \in Paths PROVE Cardinality(t[p]) <= 1
<1>1. CASE t[p] = {}
  BY <1>1, FS_EmptySet
<1>2. CASE t[p] # {}
  <2>1. PICK r \in t[p] : TRUE
    BY <1>2
  <2>2. t[p] = {r}
    BY <2>1 DEF Table
  <2>3. QED
    <3>1. Cardinality({r}) = 1
      BY FS_Singleton
    <3>2. QED
      BY <2>2, <3>1
<1>3. QED
  BY <1>1, <1>2

\* Whatever is pushed, deleted, listed and reconciled, and whatever fails, a body
\* lies only where its kind belongs, a path has one row at most, and a backfill
\* holds observations of paths it visited.
THEOREM TypeCorrect == Spec => []TypeOK
<1>1. TypeInv => TypeOK
  <2> SUFFICES ASSUME TypeInv PROVE TypeOK
    OBVIOUS
  <2>1. DOMAIN rows = Paths /\ \A p \in Paths : rows[p] \subseteq Row /\ Cardinality(rows[p]) <= 1
    BY OneRow DEF TypeInv, Typed, Table
  <2>2. \A p \in Paths : snap[p] \subseteq Row
    BY DEF TypeInv, Typed, Table
  <2>3. \A i \in Repairers : cur[i].path \in Paths /\ cur[i].rev \subseteq Nat
    BY DEF TypeInv, Typed
  <2>4. \A i \in Repairers : \A k \in DOMAIN found[i] :
           found[i][k].path \in visited[i] /\ found[i][k].body \in Objects
    <3>1. ASSUME NEW i \in Repairers, NEW k \in DOMAIN found[i] PROVE found[i][k] \in Observation
      BY DEF TypeInv, Typed
    <3>2. QED
      BY <3>1 DEF TypeInv, VisitedFirst, Observation
  <2>5. \A d \in drift : d.path \in Paths /\ d.size \in Nat
    BY DEF TypeInv, Typed
  <2>6. QED
    BY <2>1, <2>2, <2>3, <2>4, <2>5 DEF TypeInv, Typed, TypeOK
<1>2. QED
  BY <1>1, InitTypeInv, StepTypeInv, PTL DEF Spec

-----------------------------------------------------------------------------
(* The guards.  Without deletions a row only moves to higher revisions, so *)
(* the revision a reader holds equals the row's only if the row never      *)
(* changed since.                                                          *)

\* The rows at a path before and after: the same, or a row of a higher revision.
Forward(old, new) == new = old \/ (new # NoRow /\ \A r \in old : \A s \in new : r.rev < s.rev)

\* What every step does to the rows: they move forward, and a path becomes stale
\* for a reader only when its row changed.
Moves ==
    /\ \A p \in Paths : Forward(rows[p], rows'[p])
    /\ \A r \in Readers : \A p \in Paths : p \in stale'[r] \ stale[r] => rows'[p] # rows[p]

\* Revisions that do not wrap increase.
LEMMA BumpIncreases == NothingDeleted => \A v \in Nat : Bump(v) = v + 1
BY DEF NothingDeleted, Bump

\* upsert replaces a row by one of a higher revision, or leaves it.
LEMMA UpsertForward ==
    ASSUME NothingDeleted, Typed, NEW p \in Paths, NEW o \in Objects, NEW q \in Paths
    PROVE  Forward(rows[q], Upsert(p, o)[q])
<1> DEFINE r0 == CHOOSE r \in rows[p] : TRUE
           rev == IF rows[p] = NoRow THEN 0 ELSE Bump(r0.rev)
           new == [size |-> Size[o], refs |-> Refs[o], rev |-> rev]
<1>1. rows[p] # NoRow => r0 \in rows[p] /\ r0.rev \in Nat
  BY DEF NoRow, Typed, Table, Row
<1>2. \A r \in rows[p] : r = r0 /\ r0.rev < new.rev
  <2>1. rows[p] # NoRow => new.rev = r0.rev + 1
    BY <1>1, BumpIncreases
  <2>2. \A r, s \in rows[p] : r = s
    BY DEF Typed, Table
  <2>3. \A r \in rows[p] : r = r0 /\ rows[p] # NoRow
    BY <1>1, <2>2 DEF NoRow
  <2> HIDE DEF r0, rev, new
  <2>4. QED
    BY <1>1, <2>1, <2>3
<1>3. Upsert(p, o) = rows \/ Upsert(p, o) = [rows EXCEPT ![p] = {new}]
  BY DEF Upsert
<1>4. rows \in [Paths -> SUBSET Row]
  BY DEF Typed, Table
<1> HIDE DEF new, r0
<1>5. \A r \in rows[p] : r.rev < new.rev
  BY <1>2
<1>6. QED
  BY <1>3, <1>4, <1>5 DEF Forward, NoRow

\* insert_missing adds a row or leaves the one there is.
LEMMA InsertMissingForward ==
    ASSUME Typed, NEW p \in Paths, NEW o \in Objects, NEW q \in Paths
    PROVE  Forward(rows[q], InsertMissing(p, o)[q])
BY DEF InsertMissing, Forward, NoRow, Typed, Table

\* upsert_if_revision replaces the row of the revision it was given.
LEMMA UpsertIfRevisionForward ==
    ASSUME NothingDeleted, Typed, NEW p \in Paths, NEW o \in Objects, NEW v \in Nat, NEW q \in Paths
    PROVE  Forward(rows[q], UpsertIfRevision(p, o, v)[q])
<1> DEFINE new == [size |-> Size[o], refs |-> Refs[o], rev |-> Bump(v)]
<1>1. new.rev = v + 1
  BY BumpIncreases
<1>2. v \in RevOf(p) => \A r \in rows[p] : r.rev = v
  BY DEF RevOf, Typed, Table
<1>3. \/ v \notin RevOf(p) /\ UpsertIfRevision(p, o, v) = rows
      \/ v \in RevOf(p) /\ UpsertIfRevision(p, o, v) = [rows EXCEPT ![p] = {new}]
  BY DEF UpsertIfRevision
<1>4. rows \in [Paths -> SUBSET Row]
  BY DEF Typed, Table
<1> HIDE DEF new
<1>5. v \in RevOf(p) => \A r \in rows[p] : r.rev < new.rev
  BY <1>1, <1>2
<1>6. QED
  BY <1>3, <1>4, <1>5 DEF Forward, NoRow

\* update_size_if_revision changes a row of the revision it was given.
LEMMA UpdateSizeIfRevisionForward ==
    ASSUME NothingDeleted, Typed, NEW p \in Paths, NEW n \in Nat, NEW v, NEW q \in Paths
    PROVE  Forward(rows[q], UpdateSizeIfRevision(p, n, v)[q])
<1> DEFINE upd(r) == IF r.rev = v THEN [r EXCEPT !.size = n, !.rev = Bump(v)] ELSE r
<1>1. rows[p] \subseteq Row /\ \A r, s \in rows[p] : r = s
  BY DEF Typed, Table
<1>2. \A r \in Row : upd(r) = r \/ upd(r).rev = r.rev + 1
  BY BumpIncreases DEF Row
<1>3. UpdateSizeIfRevision(p, n, v) = [rows EXCEPT ![p] = {upd(r) : r \in rows[p]}]
  BY DEF UpdateSizeIfRevision, Typed, Table
<1> HIDE DEF upd
<1>4. Forward(rows[p], {upd(r) : r \in rows[p]})
  <2>1. CASE rows[p] = NoRow
    BY <2>1 DEF Forward, NoRow
  <2>2. CASE rows[p] # NoRow
    <3>1. PICK r \in rows[p] : TRUE
      BY <2>2 DEF NoRow
    <3>2. rows[p] = {r} /\ {upd(s) : s \in rows[p]} = {upd(r)}
      BY <1>1, <3>1
    <3>3. r.rev \in Nat
      BY <1>1 DEF Row
    <3>4. QED
      BY <1>1, <1>2, <3>2, <3>3 DEF Forward, NoRow
  <2>3. QED
    BY <2>1, <2>2
<1>5. QED
  <2>1. rows \in [Paths -> SUBSET Row]
    BY DEF Typed, Table
  <2>2. CASE q = p
    BY <1>3, <1>4, <2>1, <2>2
  <2>3. CASE q # p
    BY <1>3, <2>1, <2>3 DEF Forward
  <2>4. QED
    BY <2>2, <2>3

\* A statement marks as stale only the paths whose row it changes.
LEMMA WriteMoves ==
    ASSUME Typed, NEW new, Write(new), \A p \in Paths : Forward(rows[p], new[p]) PROVE Moves
BY DEF Write, Outdated, Moves

\* Doing nothing to the table.
LEMMA StillMoves ==
    ASSUME rows' = rows, \A r \in Readers : stale'[r] \subseteq stale[r] PROVE Moves
BY DEF Moves, Forward

\* Rows that move forward stay ahead of what the readers hold.
LEMMA BehindKept ==
    ASSUME Typed, Typed', Moves, NEW r \in Readers, NEW p \in Paths, NEW v \in Nat,
           Behind(rows, stale[r], p, v)
    PROVE  Behind(rows', stale'[r], p, v)
<1>1. rows[p] \subseteq Row /\ rows'[p] \subseteq Row
  BY DEF Typed, Table
<1>2. CASE rows'[p] = rows[p]
  BY <1>2 DEF Moves, Behind
<1>3. CASE rows'[p] # rows[p]
  <2>1. rows'[p] # NoRow /\ \A q \in rows[p] : \A s \in rows'[p] : q.rev < s.rev
    BY <1>3 DEF Moves, Forward
  <2>2. PICK q \in rows[p] : v <= q.rev
    BY DEF Behind, NoRow
  <2>3. \A s \in rows'[p] : v < s.rev
    BY <1>1, <2>1, <2>2 DEF Row
  <2>4. QED
    BY <1>1, <2>1, <2>3 DEF Behind, Row
<1>4. QED
  BY <1>2, <1>3

\* A captured revision stays behind while its backfill waits to read the object.
LEMMA CaptureKept ==
    ASSUME Typed, Typed', Moves, CaptureBehind,
           \A i \in Repairers : bpc'[i] = "read" => bpc[i] = "read" /\ cur'[i] = cur[i]
    PROVE  CaptureBehind'
<1> SUFFICES ASSUME NEW i \in Repairers, bpc'[i] = "read", NEW v \in cur'[i].rev
             PROVE  Behind(rows', stale'[i], cur'[i].path, v)
  BY DEF CaptureBehind
<1>1. bpc[i] = "read" /\ cur'[i] = cur[i]
  OBVIOUS
<1>2. cur[i].path \in Paths /\ v \in Nat /\ i \in Readers
  BY <1>1 DEF Typed, Readers
<1>3. Behind(rows, stale[i], cur[i].path, v)
  BY <1>1 DEF CaptureBehind
<1>4. QED
  BY <1>1, <1>2, <1>3, BehindKept

\* So do the revisions of the objects a backfill found and has not published.
LEMMA FoundKept ==
    ASSUME Typed, Typed', Moves, FoundBehind,
           \A i \in Repairers : \A k \in DOMAIN found'[i] :
               \E j \in DOMAIN found[i] : found'[i][k] = found[i][j]
    PROVE  FoundBehind'
<1> SUFFICES ASSUME NEW i \in Repairers, NEW k \in DOMAIN found'[i], NEW v \in found'[i][k].rev
             PROVE  Behind(rows', stale'[i], found'[i][k].path, v)
  BY DEF FoundBehind
<1>1. PICK j \in DOMAIN found[i] : found'[i][k] = found[i][j]
  OBVIOUS
<1>2. found[i][j] \in Observation
  BY DEF Typed
<1>3. found[i][j].path \in Paths /\ v \in Nat /\ i \in Readers
  BY <1>1, <1>2 DEF Observation, Readers
<1>4. Behind(rows, stale[i], found[i][j].path, v)
  BY <1>1 DEF FoundBehind
<1>5. QED
  BY <1>1, <1>3, <1>4, BehindKept

\* And the revisions of the pass's list of rows.
LEMMA SnapKept ==
    ASSUME Typed, Typed', Moves, SnapBehind, \A p \in Paths : snap'[p] \subseteq snap[p]
    PROVE  SnapBehind'
<1> SUFFICES ASSUME NEW p \in Paths, NEW s \in snap'[p]
             PROVE  Behind(rows', stale'["snapshot"], p, s.rev)
  BY DEF SnapBehind
<1>1. s \in snap[p]
  OBVIOUS
<1>2. s.rev \in Nat /\ "snapshot" \in Readers
  BY <1>1 DEF Typed, Table, Row, Readers
<1>3. Behind(rows, stale["snapshot"], p, s.rev)
  BY <1>1 DEF SnapBehind
<1>4. QED
  BY <1>2, <1>3, BehindKept

\* Every body is something stored.
LEMMA ObjectsAreStored == NoObject \notin Objects /\ Objects \subseteq Paths
BY ConstantsAssumption DEF Paths

\* No row, nobody reads.
LEMMA InitGuardInv == Init => GuardInv
<1> SUFFICES ASSUME Init PROVE GuardInv
  OBVIOUS
<1>1. Backed
  BY DEF Init, Backed, NoRow, Quiet
<1>2. CaptureBehind
  BY DEF Init, CaptureBehind, Quiet
<1>3. FoundBehind
  BY DEF Init, FoundBehind
<1>4. SnapBehind /\ DriftListed
  BY DEF Init, SnapBehind, DriftListed, NoRow
<1>5. QED
  BY <1>1, <1>2, <1>3, <1>4 DEF GuardInv

\* The requests that remain without deletions.
LEMMA RequestGuardInv ==
    ASSUME NothingDeleted, TypeInv, TypeInv', GuardInv, NEW c \in Clients, Request(c)
    PROVE  GuardInv' /\ Moves
<1> USE DEF clientVars, backfillVars, passVars, Set
<1>0. /\ pc \in [Clients -> {Quiet, "check", "save", "record", "collect", "erase"}]
      /\ path \in [Clients -> Paths] /\ body \in [Clients -> Objects]
      /\ store \in [Paths -> Objects \cup {NoObject}]
      /\ Typed /\ Typed'
  BY DEF TypeInv, Typed
<1>1. ASSUME rows' = rows, stale' = stale, UNCHANGED <<backfillVars, passVars>>
      PROVE  /\ Moves
             /\ CaptureBehind' /\ FoundBehind' /\ SnapBehind' /\ DriftListed'
  <2>1. Moves
    BY <1>1, StillMoves
  <2>2. CaptureBehind'
    BY <1>1 DEF GuardInv, CaptureBehind
  <2>3. FoundBehind'
    BY <1>1 DEF GuardInv, FoundBehind
  <2>4. SnapBehind' /\ DriftListed'
    BY <1>1 DEF GuardInv, SnapBehind, DriftListed
  <2>5. QED
    BY <2>1, <2>2, <2>3, <2>4
<1>2. ASSUME NEW ref \in ManifestPaths, NEW m \in IF ref \in Tags THEN Manifests ELSE {ref},
             PutManifest(c, ref, m)
      PROVE  GuardInv' /\ Moves
  <2>1. Backed'
    BY <1>0, <1>2 DEF PutManifest, Begin, GuardInv, Backed
  <2>2. QED
    BY <1>1, <1>2, <2>1 DEF PutManifest, Begin, GuardInv
<1>3. CASE CheckTag(c)
  <2>1. Backed'
    BY <1>0, <1>3 DEF CheckTag, Answer, GuardInv, Backed, Quiet
  <2>2. QED
    BY <1>1, <1>3, <2>1 DEF CheckTag, GuardInv
<1>4. CASE SaveFile(c)
  <2>1. \A p \in Paths : store[p] # NoObject => store'[p] # NoObject
    BY <1>0, <1>4, ObjectsAreStored DEF SaveFile
  <2>2. store'[path[c]] # NoObject
    BY <1>0, <1>4, ObjectsAreStored DEF SaveFile
  <2>3. \A i \in Repairers : \A k \in DOMAIN found[i] : found[i][k].path \in Paths
    <3>1. \A i \in Repairers : \A k \in DOMAIN found[i] : found[i][k] \in Observation
      BY <1>0 DEF Typed
    <3>2. QED
      BY <3>1 DEF Observation
  <2>4. Backed'
    BY <1>0, <1>4, <2>1, <2>2, <2>3 DEF SaveFile, GuardInv, Backed
  <2>5. QED
    BY <1>1, <1>4, <2>4 DEF SaveFile, GuardInv
<1>5. CASE RecordFile(c)
  <2>1. \A p \in Paths : Forward(rows[p], Upsert(path[c], body[c])[p])
    BY <1>0, UpsertForward
  <2>2. Moves
    BY <1>0, <1>5, <2>1, WriteMoves DEF RecordFile
  <2>3. \A p \in Paths : rows'[p] # NoRow => rows[p] # NoRow \/ p = path[c]
    BY <1>0, <1>5 DEF RecordFile, Write, Upsert, NoRow, Typed, Table
  <2>4. Backed'
    BY <1>0, <1>5, <2>3 DEF RecordFile, Answer, GuardInv, Backed, Quiet
  <2>5. CaptureBehind'
    BY <1>0, <1>5, <2>2, CaptureKept DEF RecordFile, GuardInv
  <2>6. FoundBehind'
    BY <1>0, <1>5, <2>2, FoundKept DEF RecordFile, GuardInv
  <2>7. SnapBehind'
    BY <1>0, <1>5, <2>2, SnapKept DEF RecordFile, GuardInv
  <2>8. DriftListed'
    BY <1>5 DEF RecordFile, GuardInv, DriftListed
  <2>9. QED
    BY <2>2, <2>4, <2>5, <2>6, <2>7, <2>8 DEF GuardInv
<1>6. ASSUME NEW b \in Blobs, CompleteBlobUpload(c, b) \/ GetBlob(c, b) PROVE GuardInv' /\ Moves
  <2>1. Backed'
    BY <1>0, <1>6 DEF CompleteBlobUpload, GetBlob, Begin, GuardInv, Backed
  <2>2. QED
    BY <1>1, <1>6, <2>1 DEF CompleteBlobUpload, GetBlob, Begin, GuardInv
<1>7. CASE RequestFails(c)
  <2>1. Backed'
    BY <1>0, <1>7 DEF RequestFails, Answer, GuardInv, Backed, Quiet
  <2>2. QED
    BY <1>1, <1>7, <2>1 DEF RequestFails, GuardInv
<1>8. \A b \in Blobs : ~DeleteBlob(c, b)
  BY DEF DeleteBlob, Begin, NothingDeleted
<1>9. \A roots : ~DeletePackages(c, roots)
  BY DEF DeletePackages, Begin, NothingDeleted
<1>10. ~CollectManifestPaths(c) /\ ~CollectDone(c) /\ ~Erase(c) /\ ~Forget(c)
  BY DEF CollectManifestPaths, CollectDone, Erase, Forget, GuardInv, Backed
<1>11. QED
  BY <1>2, <1>3, <1>4, <1>5, <1>6, <1>7, <1>8, <1>9, <1>10 DEF Request

\* The backfills: the revision is captured before the object is read.
LEMMA BackfillGuardInv ==
    ASSUME NothingDeleted, TypeInv, TypeInv', GuardInv, NEW i \in Repairers,
           BackfillStep(i) \/ BackfillFails(i)
    PROVE  GuardInv' /\ Moves
<1> USE DEF clientVars, backfillVars, passVars, Set
<1>0. /\ bpc \in [Repairers -> {Quiet, "capture", "read", "publish"}]
      /\ cur \in [Repairers -> [path : Paths, rev : SUBSET Nat]]
      /\ found \in [Repairers -> Seq(Observation)]
      /\ stale \in [Readers -> SUBSET Paths]
      /\ pending \in [Repairers -> SUBSET Paths]
      /\ Typed /\ Typed' /\ i \in Readers /\ i # "snapshot"
  BY DEF TypeInv, Typed, Repairers, Readers
<1>1. CASE Capture(i)
  <2>1. PICK p \in pending[i] :
          /\ cur' = [cur EXCEPT ![i] = [path |-> p, rev |-> RevOf(p)]]
          /\ stale' = [stale EXCEPT ![i] = stale[i] \ {p}]
    BY <1>1 DEF Capture
  <2>2. p \in Paths
    BY <1>0
  <2>3. Moves
    BY <1>0, <1>1, <2>1, StillMoves DEF Capture
  <2>4. Backed'
    BY <1>1 DEF Capture, GuardInv, Backed
  <2>5. \A v \in RevOf(p) : Behind(rows, stale'[i], p, v)
    <3>1. p \notin stale'[i]
      BY <1>0, <2>1
    <3>2. rows[p] \subseteq Row /\ \A r, s \in rows[p] : r = s
      BY <1>0, <2>2 DEF Typed, Table
    <3>3. QED
      BY <3>1, <3>2 DEF RevOf, Behind, NoRow, Row
  <2>6. CaptureBehind'
    <3> SUFFICES ASSUME NEW j \in Repairers, bpc'[j] = "read", NEW v \in cur'[j].rev
                 PROVE  Behind(rows', stale'[j], cur'[j].path, v)
      BY DEF CaptureBehind
    <3>1. CASE j = i
      <4>1. cur'[j].path = p /\ cur'[j].rev = RevOf(p) /\ rows' = rows
        BY <1>0, <1>1, <2>1, <3>1 DEF Capture
      <4>2. QED
        BY <2>5, <3>1, <4>1
    <3>2. CASE j # i
      <4>1. bpc[j] = "read" /\ cur'[j] = cur[j] /\ stale'[j] = stale[j] /\ rows' = rows
        BY <1>0, <1>1, <2>1, <3>2 DEF Capture
      <4>2. QED
        BY <4>1 DEF GuardInv, CaptureBehind
    <3>3. QED
      BY <3>1, <3>2
  <2>7. FoundBehind'
    BY <1>0, <1>1, <2>3, FoundKept DEF Capture, GuardInv
  <2>8. SnapBehind'
    BY <1>0, <1>1, <2>3, SnapKept DEF Capture, GuardInv
  <2>9. DriftListed'
    BY <1>1 DEF Capture, GuardInv, DriftListed
  <2>10. QED
    BY <2>3, <2>4, <2>6, <2>7, <2>8, <2>9 DEF GuardInv
<1>2. CASE ReadObject(i)
  <2> DEFINE p == cur[i].path
             f == [path |-> p, body |-> store[p], rev |-> cur[i].rev]
  <2>1. Moves
    BY <1>2, StillMoves DEF ReadObject
  <2>2. CaptureBehind'
    <3>1. \A j \in Repairers : bpc'[j] = "read" => bpc[j] = "read" /\ cur'[j] = cur[j]
      BY <1>0, <1>2 DEF ReadObject
    <3>2. QED
      BY <1>0, <2>1, <3>1, CaptureKept DEF GuardInv
  <2>3. SnapBehind' /\ DriftListed'
    BY <1>2 DEF ReadObject, GuardInv, SnapBehind, DriftListed
  <2>4. CASE store[p] = NoObject
    <3>1. found' = found
      BY <1>2, <2>4 DEF ReadObject
    <3>2. Backed' /\ FoundBehind'
      BY <1>2, <3>1 DEF ReadObject, GuardInv, Backed, FoundBehind
    <3>3. QED
      BY <2>1, <2>2, <2>3, <3>2 DEF GuardInv
  <2>5. CASE store[p] # NoObject
    <3>1. found' = [found EXCEPT ![i] = <<f>> \o found[i]]
      BY <1>2, <2>5 DEF ReadObject
    <3>2. f \in Observation
      BY <1>0, <2>5 DEF Observation, Typed
    <3>3. f.path = p /\ f.rev = cur[i].rev
      OBVIOUS
    <3> HIDE DEF f
    <3>4. \A k \in DOMAIN (<<f>> \o found[i]) :
              \/ (<<f>> \o found[i])[k] = f
              \/ \E j \in DOMAIN found[i] : (<<f>> \o found[i])[k] = found[i][j]
      BY <1>0, <3>2, Pushed
    <3>5. \A q \in Repairers : \A k \in DOMAIN found'[q] :
              \/ q = i /\ found'[q][k] = f
              \/ \E j \in DOMAIN found[q] : found'[q][k] = found[q][j]
      BY <1>0, <3>1, <3>4
    <3>6. Backed'
      BY <1>2, <2>5, <3>3, <3>5 DEF ReadObject, GuardInv, Backed
    <3>7. \A v \in f.rev : Behind(rows, stale[i], f.path, v)
      BY <1>2, <3>3 DEF ReadObject, GuardInv, CaptureBehind
    <3>8. FoundBehind'
      BY <1>2, <3>5, <3>7 DEF ReadObject, GuardInv, FoundBehind
    <3>9. QED
      BY <2>1, <2>2, <2>3, <3>6, <3>8 DEF GuardInv
  <2>6. QED
    BY <2>4, <2>5
<1>3. CASE Publish(i)
  <2> DEFINE f == Head(found[i])
             v == CHOOSE u \in f.rev : TRUE
  <2>1. /\ f \in Observation /\ 1 \in DOMAIN found[i] /\ f = found[i][1]
        /\ \A k \in DOMAIN Tail(found[i]) : \E j \in DOMAIN found[i] : Tail(found[i])[k] = found[i][j]
    BY <1>0, <1>3, Popped DEF Publish
  <2>2. f.path \in Paths /\ f.body \in Objects /\ (f.rev # {} => v \in f.rev /\ v \in Nat)
    BY <2>1 DEF Observation
  <2>3. \/ f.rev = {} /\ Write(InsertMissing(f.path, f.body))
        \/ f.rev # {} /\ Write(UpsertIfRevision(f.path, f.body, v))
    BY <1>3 DEF Publish
  <2> HIDE DEF f, v
  <2>4. Moves
    BY <1>0, <2>2, <2>3, InsertMissingForward, UpsertIfRevisionForward, WriteMoves
  <2>5. \A q \in Repairers : \A k \in DOMAIN found'[q] :
            \E j \in DOMAIN found[q] : found'[q][k] = found[q][j]
    BY <1>0, <1>3, <2>1 DEF Publish
  <2>6. \A p \in Paths : rows'[p] # NoRow => rows[p] # NoRow \/ p = f.path
    BY <1>0, <2>2, <2>3 DEF Write, InsertMissing, UpsertIfRevision, NoRow, Typed, Table
  <2>7. Backed'
    BY <1>3, <2>1, <2>5, <2>6 DEF Publish, GuardInv, Backed
  <2>8. CaptureBehind'
    BY <1>0, <1>3, <2>4, CaptureKept DEF Publish, GuardInv
  <2>9. FoundBehind'
    BY <1>0, <2>4, <2>5, FoundKept DEF GuardInv
  <2>10. SnapBehind'
    BY <1>0, <1>3, <2>4, SnapKept DEF Publish, GuardInv
  <2>11. DriftListed'
    BY <1>3 DEF Publish, GuardInv, DriftListed
  <2>12. QED
    BY <2>4, <2>7, <2>8, <2>9, <2>10, <2>11 DEF GuardInv
<1>4. CASE BackfillDone(i) \/ BackfillFails(i)
  <2>1. EndBackfill(i) /\ UNCHANGED <<store, rows, clientVars, passVars>>
    BY <1>4 DEF BackfillDone, BackfillFails
  <2>2. Moves
    BY <1>0, <2>1, StillMoves DEF EndBackfill
  <2>3. \A q \in Repairers : \A k \in DOMAIN found'[q] :
            \E j \in DOMAIN found[q] : found'[q][k] = found[q][j]
    BY <1>0, <2>1 DEF EndBackfill
  <2>4. \A q \in Repairers : bpc'[q] = "read" => bpc[q] = "read" /\ cur'[q] = cur[q]
    BY <1>0, <2>1 DEF EndBackfill, Quiet
  <2>5. Backed'
    BY <2>1, <2>3 DEF GuardInv, Backed
  <2>6. CaptureBehind' /\ FoundBehind'
    BY <1>0, <2>2, <2>3, <2>4, CaptureKept, FoundKept DEF GuardInv
  <2>7. SnapBehind'
    BY <1>0, <2>1, <2>2, SnapKept DEF GuardInv
  <2>8. DriftListed'
    BY <2>1 DEF GuardInv, DriftListed
  <2>9. QED
    BY <2>2, <2>5, <2>6, <2>7, <2>8 DEF GuardInv
<1>5. QED
  BY <1>1, <1>2, <1>3, <1>4 DEF BackfillStep

\* A step that touches neither the table nor what readers hold of it.
LEMMA ReadersKept ==
    ASSUME GuardInv, rows' = rows, stale' = stale, UNCHANGED <<store, clientVars, cur, found, snap, drift, missing>>,
           \A i \in Repairers : bpc'[i] = "read" => bpc[i] = "read",
           rpc = "probe" => rpc' = "probe"
    PROVE  GuardInv' /\ Moves
<1>1. Moves
  BY StillMoves
<1>2. Backed'
  BY DEF clientVars, GuardInv, Backed
<1>3. CaptureBehind'
  BY DEF GuardInv, CaptureBehind
<1>4. FoundBehind'
  BY DEF GuardInv, FoundBehind
<1>5. SnapBehind' /\ DriftListed'
  BY DEF GuardInv, SnapBehind, DriftListed
<1>6. QED
  BY <1>1, <1>2, <1>3, <1>4, <1>5 DEF GuardInv

\* A listing that starts a backfill.
LEMMA ListingGuardInv ==
    ASSUME TypeInv, GuardInv, NEW root \in ManifestPaths, ListPackages(root) PROVE GuardInv' /\ Moves
<1>1. \A i \in Repairers : bpc'[i] = "read" => bpc[i] = "read"
  BY DEF ListPackages, StartBackfill, Set, TypeInv, Typed
<1>2. QED
  BY <1>1, ReadersKept DEF ListPackages, StartBackfill, clientVars, passVars

\* The reconciliation pass: it corrects and removes only what list_rows returned.
LEMMA PassGuardInv ==
    ASSUME NothingDeleted, TypeInv, TypeInv', GuardInv,
           PassStep \/ PassFails \/ \E p \in Paths : ProbeFails(p)
    PROVE  GuardInv' /\ Moves
<1> USE DEF clientVars, backfillVars, passVars, Set
<1>0. /\ snap \in Table /\ rows \in Table
      /\ drift \subseteq [path : Paths, size : Nat]
      /\ stale \in [Readers -> SUBSET Paths]
      /\ Typed /\ Typed'
  BY DEF TypeInv, Typed
<1>00. DOMAIN snap = Paths
  BY <1>0 DEF Table
<1>1. CASE StartPass
  BY <1>1, ReadersKept DEF StartPass, Quiet
<1>2. CASE ExamineManifest
  <2>1. /\ \A i \in Repairers : bpc'[i] = "read" => bpc[i] = "read"
        /\ UNCHANGED <<cur, found>>
    BY <1>0, <1>2 DEF ExamineManifest, StartBackfill, Typed
  <2>2. QED
    BY <1>2, <2>1, ReadersKept DEF ExamineManifest
<1>3. CASE ListRows
  <2>1. Moves
    BY <1>0, <1>3, StillMoves DEF ListRows
  <2>2. Backed'
    BY <1>3 DEF ListRows, GuardInv, Backed
  <2>3. CaptureBehind' /\ FoundBehind'
    BY <1>0, <1>3, <2>1, CaptureKept, FoundKept DEF ListRows, GuardInv
  <2>4. stale'["snapshot"] = {}
    BY <1>0, <1>3 DEF ListRows, Readers
  <2>5. SnapBehind'
    <3>1. ASSUME NEW p \in Paths, NEW s \in rows[p] PROVE Behind(rows, {}, p, s.rev)
      <4>1. rows[p] \subseteq Row /\ \A r \in rows[p] : r = s
        BY <1>0 DEF Table
      <4>2. QED
        BY <4>1 DEF Behind, NoRow, Row
    <3>2. QED
      BY <1>3, <2>4, <3>1 DEF ListRows, SnapBehind
  <2>6. DriftListed'
    BY <1>3 DEF ListRows, GuardInv, DriftListed
  <2>7. QED
    BY <2>1, <2>2, <2>3, <2>5, <2>6 DEF GuardInv
<1>4. ASSUME NEW p \in Paths, Probe(p) PROVE GuardInv' /\ Moves
  <2>1. Moves
    BY <1>4, StillMoves DEF Probe
  <2>2. snap[p] # NoRow /\ \A d \in drift : d.path # p
    BY <1>4 DEF Probe, Unprobed
  <2>3. store[p] # NoObject
    BY <2>2 DEF GuardInv, Backed
  <2>4. missing' = missing
    BY <1>4, <2>3 DEF Probe
  <2>5. \/ drift' = drift /\ snap' = [snap EXCEPT ![p] = NoRow]
        \/ drift' = drift \cup {[path |-> p, size |-> Size[store[p]]]} /\ snap' = snap
    BY <1>4, <2>4 DEF Probe
  <2>6. \A q \in Paths : snap'[q] \subseteq snap[q]
    BY <1>00, <2>5 DEF NoRow
  <2>7. Backed'
    BY <1>4, <2>4, <2>6 DEF Probe, GuardInv, Backed, NoRow
  <2>8. CaptureBehind' /\ FoundBehind'
    BY <1>0, <1>4, <2>1, CaptureKept, FoundKept DEF Probe, GuardInv
  <2>9. SnapBehind'
    BY <1>0, <2>1, <2>6, SnapKept DEF GuardInv
  <2>10. DriftListed'
    BY <1>0, <1>00, <1>4, <2>2, <2>5 DEF Probe, GuardInv, DriftListed
  <2>11. QED
    BY <2>1, <2>7, <2>8, <2>9, <2>10 DEF GuardInv
<1>5. ASSUME NEW p \in Paths, ProbeFails(p) PROVE GuardInv' /\ Moves
  <2>1. Moves
    BY <1>5, StillMoves DEF ProbeFails
  <2>2. \A q \in Paths : snap'[q] \subseteq snap[q]
    BY <1>00, <1>5 DEF ProbeFails, NoRow
  <2>3. Backed'
    BY <1>5, <2>2 DEF ProbeFails, GuardInv, Backed, NoRow
  <2>4. CaptureBehind' /\ FoundBehind'
    BY <1>0, <1>5, <2>1, CaptureKept, FoundKept DEF ProbeFails, GuardInv
  <2>5. SnapBehind'
    BY <1>0, <2>1, <2>2, SnapKept DEF GuardInv
  <2>6. DriftListed'
    BY <1>5 DEF ProbeFails, GuardInv, DriftListed
  <2>7. QED
    BY <2>1, <2>3, <2>4, <2>5, <2>6 DEF GuardInv
<1>6. ASSUME NEW d \in drift, CorrectSize(d) PROVE GuardInv' /\ Moves
  <2>1. d.path \in Paths /\ d.size \in Nat
    BY <1>0
  <2> DEFINE v == (CHOOSE r \in snap[d.path] : TRUE).rev
  <2>2. Write(UpdateSizeIfRevision(d.path, d.size, v))
    BY <1>6 DEF CorrectSize
  <2> HIDE DEF v
  <2>3. Moves
    BY <1>0, <2>1, <2>2, UpdateSizeIfRevisionForward, WriteMoves
  <2>4. snap' = [snap EXCEPT ![d.path] = NoRow] /\ drift' = drift \ {d}
    BY <1>6 DEF CorrectSize
  <2>5. \A q \in Paths : snap'[q] \subseteq snap[q]
    BY <1>00, <2>4 DEF NoRow
  <2>6. \A q \in Paths : rows'[q] # NoRow => rows[q] # NoRow
    <3> DEFINE upd(r) == IF r.rev = v THEN [r EXCEPT !.size = d.size, !.rev = Bump(v)] ELSE r
    <3>1. rows' = [rows EXCEPT ![d.path] = {upd(r) : r \in rows[d.path]}]
      BY <1>0, <2>1, <2>2 DEF Write, UpdateSizeIfRevision, Table
    <3> HIDE DEF upd
    <3>2. DOMAIN rows = Paths
      BY <1>0 DEF Table
    <3>3. QED
      BY <3>1, <3>2 DEF NoRow
  <2>7. Backed'
    BY <1>6, <2>5, <2>6 DEF CorrectSize, GuardInv, Backed, NoRow
  <2>8. CaptureBehind' /\ FoundBehind'
    BY <1>0, <1>6, <2>3, CaptureKept, FoundKept DEF CorrectSize, GuardInv
  <2>9. SnapBehind'
    BY <1>0, <2>3, <2>5, SnapKept DEF GuardInv
  <2>10. DriftListed'
    BY <1>0, <1>00, <1>6, <2>4 DEF CorrectSize, GuardInv, DriftListed
  <2>11. QED
    BY <2>3, <2>7, <2>8, <2>9, <2>10 DEF GuardInv
<1>7. CASE RemoveMissing
  <2>1. rows' = rows
    BY <1>0, <1>7 DEF RemoveMissing, DeletePathsIfRevisions, GuardInv, Backed, Table
  <2>2. Outdated(rows') = stale
    BY <1>0, <2>1 DEF Outdated
  <2>3. stale' = [stale EXCEPT !["snapshot"] = {}]
    BY <1>7, <2>2 DEF RemoveMissing
  <2>4. Moves
    BY <1>0, <2>1, <2>3, StillMoves
  <2>5. \A q \in Paths : snap'[q] = NoRow
    BY <1>7 DEF RemoveMissing, EndPass
  <2>6. Backed'
    BY <1>7, <2>1, <2>5 DEF RemoveMissing, EndPass, GuardInv, Backed
  <2>7. CaptureBehind' /\ FoundBehind'
    BY <1>0, <1>7, <2>4, CaptureKept, FoundKept DEF RemoveMissing, GuardInv
  <2>8. SnapBehind' /\ DriftListed'
    BY <1>7, <2>5 DEF RemoveMissing, EndPass, SnapBehind, DriftListed, NoRow
  <2>9. QED
    BY <2>4, <2>6, <2>7, <2>8 DEF GuardInv
<1>8. CASE PassFails
  <2>1. "reconcile" \in Repairers
    BY DEF Repairers
  <2>2. EndBackfill("reconcile") /\ UNCHANGED <<store, rows, clientVars>>
    BY <1>8 DEF PassFails
  <2>3. Moves
    BY <1>0, <2>2, StillMoves DEF EndBackfill
  <2>4. \A q \in Repairers : \A k \in DOMAIN found'[q] :
            \E j \in DOMAIN found[q] : found'[q][k] = found[q][j]
    BY <1>0, <2>1, <2>2 DEF EndBackfill, Typed
  <2>5. \A q \in Repairers : bpc'[q] = "read" => bpc[q] = "read" /\ cur'[q] = cur[q]
    BY <1>0, <2>1, <2>2 DEF EndBackfill, Quiet, Typed
  <2>6. \A q \in Paths : snap'[q] = NoRow
    BY <1>8 DEF PassFails, EndPass
  <2>7. Backed'
    BY <1>8, <2>2, <2>4, <2>6 DEF PassFails, EndPass, GuardInv, Backed
  <2>8. CaptureBehind' /\ FoundBehind'
    BY <1>0, <2>3, <2>4, <2>5, CaptureKept, FoundKept DEF GuardInv
  <2>9. SnapBehind' /\ DriftListed'
    BY <1>8, <2>6 DEF PassFails, EndPass, SnapBehind, DriftListed, NoRow
  <2>10. QED
    BY <2>3, <2>7, <2>8, <2>9 DEF GuardInv
<1>9. QED
  BY <1>1, <1>2, <1>3, <1>4, <1>5, <1>6, <1>7, <1>8 DEF PassStep

\* Every step keeps the readers behind the rows, and moves the rows forward.
LEMMA StepGuardInv ==
    ASSUME NothingDeleted
    PROVE  TypeInv /\ TypeInv' /\ GuardInv /\ [Next]_vars => GuardInv' /\ Moves
<1> SUFFICES ASSUME TypeInv, TypeInv', GuardInv, [Next]_vars PROVE GuardInv' /\ Moves
  OBVIOUS
<1>1. CASE UNCHANGED vars
  BY <1>1, ReadersKept DEF vars, clientVars, backfillVars, passVars
<1>2. QED
  BY <1>1, RequestGuardInv, BackfillGuardInv, ListingGuardInv, PassGuardInv DEF Next

\* A backfill publishes an object over a row only if the row has the revision it
\* captured, and then nobody changed the row since.
LEMMA PublishKeepsNewer ==
    ASSUME TypeInv, GuardInv, NEW i \in Repairers, Publish(i) PROVE KeepsNewer(i)
<1> DEFINE f == Head(found[i])
           v == CHOOSE u \in f.rev : TRUE
<1>0. found \in [Repairers -> Seq(Observation)] /\ Typed
  BY DEF TypeInv, Typed
<1>1. f \in Observation /\ 1 \in DOMAIN found[i] /\ f = found[i][1]
  BY <1>0, Popped DEF Publish
<1>2. f.path \in Paths /\ f.body \in Objects /\ (f.rev # {} => v \in f.rev /\ v \in Nat)
  BY <1>1 DEF Observation
<1>3. \/ f.rev = {} /\ Write(InsertMissing(f.path, f.body))
      \/ f.rev # {} /\ Write(UpsertIfRevision(f.path, f.body, v))
  BY DEF Publish
<1>4. f.rev # {} => Behind(rows, stale[i], f.path, v)
  BY <1>1, <1>2 DEF GuardInv, FoundBehind
<1> HIDE DEF f, v
<1> SUFFICES ASSUME NEW p \in Paths, rows[p] # NoRow, rows'[p] # rows[p] PROVE p \notin stale[i]
  BY DEF KeepsNewer
<1>5. rows \in [Paths -> SUBSET Row]
  BY <1>0 DEF Typed, Table
<1>6. f.rev # {} /\ p = f.path /\ v \in RevOf(p)
  BY <1>2, <1>3, <1>5 DEF Write, InsertMissing, UpsertIfRevision
<1>7. PICK r \in rows[p] : r.rev = v
  BY <1>6 DEF RevOf
<1>8. QED
  BY <1>2, <1>4, <1>6, <1>7 DEF Behind

\* The pass corrects a size only on the row it listed.
LEMMA CorrectSizeKeepsNewer ==
    ASSUME TypeInv, GuardInv, NEW d \in drift, CorrectSize(d) PROVE KeepsNewer("snapshot")
<1> DEFINE s == CHOOSE r \in snap[d.path] : TRUE
           upd(r) == IF r.rev = s.rev THEN [r EXCEPT !.size = d.size, !.rev = Bump(s.rev)] ELSE r
<1>1. d.path \in Paths /\ snap \in Table /\ rows \in Table
  BY DEF TypeInv, Typed
<1>2. s \in snap[d.path] /\ s.rev \in Nat
  BY <1>1 DEF GuardInv, DriftListed, NoRow, Table, Row
<1>3. rows' = [rows EXCEPT ![d.path] = {upd(r) : r \in rows[d.path]}]
  BY <1>1 DEF CorrectSize, Write, UpdateSizeIfRevision, Table
<1>4. \A r : r.rev # s.rev => upd(r) = r
  OBVIOUS
<1> HIDE DEF s, upd
<1>5. Behind(rows, stale["snapshot"], d.path, s.rev)
  BY <1>1, <1>2 DEF GuardInv, SnapBehind
<1> SUFFICES ASSUME NEW p \in Paths, rows[p] # NoRow, rows'[p] # rows[p]
             PROVE  p \notin stale["snapshot"]
  BY DEF KeepsNewer
<1>6. DOMAIN rows = Paths
  BY <1>1 DEF Table
<1>7. p = d.path /\ {upd(r) : r \in rows[p]} # rows[p]
  BY <1>3, <1>6
<1>8. PICK r \in rows[p] : r.rev = s.rev
  BY <1>4, <1>7
<1>9. QED
  BY <1>2, <1>5, <1>7, <1>8 DEF Behind

\* The pass removes a row only if it is the one it listed.
LEMMA RemoveMissingKeepsNewer ==
    ASSUME TypeInv, GuardInv, RemoveMissing PROVE KeepsNewer("snapshot")
<1>1. rows \in Table
  BY DEF TypeInv, Typed
<1>2. rows' = rows
  BY <1>1 DEF RemoveMissing, DeletePathsIfRevisions, GuardInv, Backed, Table
<1>3. QED
  BY <1>2 DEF KeepsNewer

\* For any images, clients, failures and interleaving, as long as nothing is
\* deleted and revisions do not wrap: no backfill, correction or removal takes
\* effect on a row that changed since its revision was read.
THEOREM GuardsAreSafe ==
    ASSUME NothingDeleted
    PROVE  Spec => GuardsHold
<1>1. TypeInv /\ GuardInv =>
        (/\ \A i \in Repairers : Publish(i) => KeepsNewer(i)
         /\ \A d \in drift : CorrectSize(d) => KeepsNewer("snapshot")
         /\ RemoveMissing => KeepsNewer("snapshot"))
  BY PublishKeepsNewer, CorrectSizeKeepsNewer, RemoveMissingKeepsNewer
<1>2. TypeInv /\ TypeInv' /\ GuardInv /\ [Next]_vars => GuardInv'
  BY StepGuardInv
<1>3. QED
  BY <1>1, <1>2, InitTypeInv, StepTypeInv, InitGuardInv, PTL DEF Spec, GuardsHold

-----------------------------------------------------------------------------
(* Accuracy.  A repair publishes what it read only while the row has the   *)
(* revision captured before, so what it publishes is what the storage      *)
(* holds, unless a request between its save and its record is about to     *)
(* replace the row.                                                        *)

\* With one request at a time, what is being recorded is what that request saved.
LEMMA OneRecorded ==
    ASSUME OneAtATime, NEW c \in Clients
    PROVE  /\ Recorded = IF pc[c] = "record" THEN {path[c]} ELSE {}
           /\ Recorded' = IF pc'[c] = "record" THEN {path'[c]} ELSE {}
<1>1. \A d \in Clients : d = c
  BY DEF OneAtATime
<1>2. Recorded = IF pc[c] = "record" THEN {path[c]} ELSE {}
  BY <1>1 DEF Recorded
<1>3. Recorded' = IF pc'[c] = "record" THEN {path'[c]} ELSE {}
  BY <1>1 DEF Recorded
<1>4. QED
  BY <1>2, <1>3

\* A row that moved forward has none of the revisions readers hold.
LEMMA MovedIsDead ==
    ASSUME Typed, Typed', GuardInv, Moves
    PROVE  /\ \A i \in Repairers : \A k \in DOMAIN found[i] :
                 Live(rows', found[i][k]) =>
                    rows'[found[i][k].path] = rows[found[i][k].path] /\ Live(rows, found[i][k])
           /\ \A p \in Paths : \A s \in snap[p] : \A r \in rows'[p] :
                 s.rev = r.rev => rows'[p] = rows[p]
<1>1. \A p \in Paths : rows[p] \subseteq Row /\ rows'[p] \subseteq Row /\ snap[p] \subseteq Row
  BY DEF Typed, Table
<1>2. ASSUME NEW p \in Paths, NEW v \in Nat, NEW old, Behind(rows, old, p, v),
             NEW r \in rows'[p], r.rev = v
      PROVE  rows'[p] = rows[p]
  <2>1. PICK q \in rows[p] : v <= q.rev
    BY <1>2 DEF Behind, NoRow
  <2>2. q.rev \in Nat /\ r.rev \in Nat
    BY <1>1 DEF Row
  <2>3. QED
    BY <1>2, <2>1, <2>2 DEF Moves, Forward
<1>3. ASSUME NEW i \in Repairers, NEW k \in DOMAIN found[i], Live(rows', found[i][k])
      PROVE  rows'[found[i][k].path] = rows[found[i][k].path] /\ Live(rows, found[i][k])
  <2> DEFINE f == found[i][k]
  <2>1. f \in Observation
    BY DEF Typed
  <2>2. f.path \in Paths /\ f.rev \subseteq Nat
    BY <2>1 DEF Observation
  <2>3. \A v \in f.rev : Behind(rows, stale[i], f.path, v)
    BY DEF GuardInv, FoundBehind
  <2> HIDE DEF f
  <2>4. rows'[f.path] = rows[f.path]
    <3>1. CASE rows'[f.path] = NoRow
      BY <2>2, <3>1 DEF Moves, Forward
    <3>2. CASE \E r \in rows'[f.path] : r.rev \in f.rev
      BY <1>2, <2>2, <2>3, <3>2
    <3>3. QED
      BY <1>3, <3>1, <3>2 DEF Live, f
  <2>5. QED
    BY <1>3, <2>4 DEF Live, f
<1>4. ASSUME NEW p \in Paths, NEW s \in snap[p], NEW r \in rows'[p], s.rev = r.rev
      PROVE  rows'[p] = rows[p]
  <2>1. s.rev \in Nat /\ Behind(rows, stale["snapshot"], p, s.rev)
    BY <1>1 DEF GuardInv, SnapBehind, Row
  <2>2. QED
    BY <1>2, <1>4, <2>1
<1>5. QED
  BY <1>3, <1>4

\* Observations, snapshots and drifts across a step that writes at most the table:
\* what still has its revision is about a row that did not change.
LEMMA TableKept ==
    ASSUME Typed, Typed', GuardInv, Moves, AccuracyInv, store' = store,
           \A p \in Recorded : p \in Recorded' \/ \E r \in rows'[p] : Describes(r, store[p]),
           \A i \in Repairers : \A k \in DOMAIN found'[i] :
               \E j \in DOMAIN found[i] : found'[i][k] = found[i][j],
           \A p \in Paths : snap'[p] \subseteq snap[p], drift' \subseteq drift
    PROVE  LiveIsCurrent' /\ SnapshotIsRow' /\ DriftIsReplaced'
<1>0. \A p \in Paths : \A r, s \in rows[p] : r = s
  BY DEF Typed, Table
<1>1. ASSUME NEW p \in Paths, rows'[p] = rows[p], Replacing(rows, store, Recorded, p)
      PROVE  Replacing(rows', store', Recorded', p)
  BY <1>1 DEF Replacing
<1>2. LiveIsCurrent'
  <2> SUFFICES ASSUME NEW i \in Repairers, NEW k \in DOMAIN found'[i]
               PROVE  Current(rows', store', Recorded', found'[i][k])
    BY DEF LiveIsCurrent
  <2>1. PICK j \in DOMAIN found[i] : found'[i][k] = found[i][j]
    OBVIOUS
  <2> DEFINE f == found[i][j]
  <2>2. f \in Observation
    BY DEF Typed
  <2>3. f.path \in Paths
    BY <2>2 DEF Observation
  <2>4. Current(rows, store, Recorded, f)
    BY DEF AccuracyInv, LiveIsCurrent
  <2>5. Live(rows', f) => rows'[f.path] = rows[f.path] /\ Live(rows, f)
    BY MovedIsDead
  <2> HIDE DEF f
  <2>6. Current(rows', store', Recorded', f)
    BY <1>1, <2>3, <2>4, <2>5 DEF Current
  <2>7. QED
    BY <2>1, <2>6 DEF f
<1>3. SnapshotIsRow'
  BY MovedIsDead DEF AccuracyInv, SnapshotIsRow
<1>4. DriftIsReplaced'
  <2> SUFFICES ASSUME NEW d \in drift', NEW s \in snap'[d.path], NEW r \in rows'[d.path], s.rev = r.rev
               PROVE  Replacing(rows', store', Recorded', d.path)
    BY DEF DriftIsReplaced
  <2>1. d \in drift /\ d.path \in Paths
    BY DEF Typed
  <2>2. s \in snap[d.path]
    BY <2>1
  <2>3. rows'[d.path] = rows[d.path]
    BY <2>1, <2>2, MovedIsDead
  <2>4. Replacing(rows, store, Recorded, d.path)
    BY <2>1, <2>2, <2>3 DEF AccuracyInv, DriftIsReplaced
  <2>5. QED
    BY <1>1, <2>1, <2>3, <2>4
<1>5. QED
  BY <1>2, <1>3, <1>4

\* No row, nothing read.
LEMMA InitAccuracyInv == Init => AccuracyInv
<1> SUFFICES ASSUME Init PROVE AccuracyInv
  OBVIOUS
<1>1. RowsDescribe /\ RecordedIsStored
  BY DEF Init, RowsDescribe, RecordedIsStored, NoRow, Quiet
<1>2. LiveIsCurrent
  BY DEF Init, LiveIsCurrent
<1>3. SnapshotIsRow /\ DriftIsReplaced
  BY DEF Init, SnapshotIsRow, DriftIsReplaced, NoRow
<1>4. QED
  BY <1>1, <1>2, <1>3 DEF AccuracyInv

\* The one request under way.
LEMMA RequestAccuracyInv ==
    ASSUME NothingDeleted, OneAtATime, TypeInv, TypeInv', GuardInv, Moves, AccuracyInv,
           NEW c \in Clients, Request(c)
    PROVE  AccuracyInv'
<1> USE DEF clientVars, backfillVars, passVars, Set
<1>0. /\ pc \in [Clients -> {Quiet, "check", "save", "record", "collect", "erase"}]
      /\ path \in [Clients -> Paths] /\ body \in [Clients -> Objects]
      /\ store \in [Paths -> Objects \cup {NoObject}]
      /\ rows \in [Paths -> SUBSET Row] /\ \A p \in Paths : \A r, s \in rows[p] : r = s
      /\ Typed /\ Typed' /\ \A d \in Clients : d = c
  BY DEF TypeInv, Typed, Table, OneAtATime
<1>1. ASSUME UNCHANGED <<store, rows, backfillVars, passVars>>, pc[c] # "record", pc'[c] # "record"
      PROVE  AccuracyInv'
  <2>1. Recorded = {} /\ Recorded' = {}
    BY <1>1, OneRecorded
  <2>2. RowsDescribe'
    BY <1>1, <2>1 DEF AccuracyInv, RowsDescribe
  <2>3. RecordedIsStored'
    BY <1>0, <1>1 DEF RecordedIsStored
  <2>4. LiveIsCurrent' /\ SnapshotIsRow' /\ DriftIsReplaced'
    BY <1>0, <1>1, <2>1, TableKept
  <2>5. QED
    BY <2>2, <2>3, <2>4 DEF AccuracyInv
<1>2. ASSUME NEW ref \in ManifestPaths, NEW m \in IF ref \in Tags THEN Manifests ELSE {ref},
             PutManifest(c, ref, m)
      PROVE  AccuracyInv'
  BY <1>0, <1>1, <1>2 DEF PutManifest, Begin, Quiet
<1>3. CASE CheckTag(c)
  BY <1>0, <1>1, <1>3 DEF CheckTag, Answer, Quiet
<1>4. ASSUME NEW b \in Blobs, CompleteBlobUpload(c, b) PROVE AccuracyInv'
  BY <1>0, <1>1, <1>4 DEF CompleteBlobUpload, Begin, Quiet
<1>5. ASSUME NEW b \in Blobs, GetBlob(c, b) PROVE AccuracyInv'
  <2>1. pc[c] # "record" /\ pc'[c] = "record" /\ path'[c] = b /\ body'[c] = b
    BY <1>0, <1>5 DEF GetBlob, Begin, Quiet
  <2>2. Recorded = {} /\ Recorded' = {b}
    BY <2>1, OneRecorded
  <2>3. UNCHANGED <<store, rows, backfillVars, passVars>>
    BY <1>5 DEF GetBlob, Begin
  <2>4. store[b] = b
    BY <1>0, <1>5, ConstantsAssumption DEF GetBlob, Typed, WellPlaced, Paths, Objects
  <2>5. RowsDescribe'
    BY <2>2, <2>3 DEF AccuracyInv, RowsDescribe
  <2>6. RecordedIsStored'
    BY <1>0, <2>1, <2>3, <2>4 DEF RecordedIsStored
  <2>7. LiveIsCurrent' /\ SnapshotIsRow' /\ DriftIsReplaced'
    BY <1>0, <2>2, <2>3, TableKept
  <2>8. QED
    BY <2>5, <2>6, <2>7 DEF AccuracyInv
<1>6. CASE SaveFile(c)
  <2> DEFINE p == path[c]
             o == body[c]
  <2>1. p \in Paths /\ store' = [store EXCEPT ![p] = o] /\ pc[c] # "record" /\ pc'[c] = "record"
    BY <1>0, <1>6 DEF SaveFile
  <2>2. Recorded = {} /\ Recorded' = {p}
    BY <1>6, <2>1, OneRecorded DEF SaveFile
  <2>3. UNCHANGED <<rows, path, body, backfillVars, passVars>>
    BY <1>6 DEF SaveFile
  <2> HIDE DEF p, o
  <2>4. store'[p] = o /\ \A q \in Paths : q # p => store'[q] = store[q]
    BY <1>0, <2>1
  <2>5. \A q \in Paths : \A r \in rows[q] : Describes(r, store[q])
    BY <2>2 DEF AccuracyInv, RowsDescribe
  <2>6. RowsDescribe'
    BY <2>2, <2>3, <2>4, <2>5 DEF RowsDescribe
  <2>7. RecordedIsStored'
    BY <1>0, <2>3, <2>4 DEF RecordedIsStored, p, o
  <2>8. ASSUME NEW f, f.path \in Paths, Current(rows, store, Recorded, f)
        PROVE  Current(rows, store', Recorded', f)
    <3>1. SUFFICES ASSUME Live(rows, f)
                   PROVE  SameRow(f.body, store'[f.path]) \/ Replacing(rows, store', Recorded', f.path)
      BY DEF Current
    <3>2. SameRow(f.body, store[f.path])
      BY <2>2, <2>8, <3>1 DEF Current, Replacing
    <3>3. CASE f.path # p
      BY <2>4, <2>8, <3>2, <3>3
    <3>4. CASE f.path = p
      <4>1. CASE \A r \in rows[p] : ~Describes(r, o)
        BY <2>2, <2>4, <3>4, <4>1 DEF Replacing
      <4>2. CASE \E r \in rows[p] : Describes(r, o)
        BY <2>1, <2>4, <2>5, <3>2, <3>4, <4>2 DEF SameRow, Describes
      <4>3. QED
        BY <4>1, <4>2
    <3>5. QED
      BY <3>3, <3>4
  <2>9. LiveIsCurrent'
    <3>1. \A i \in Repairers : \A k \in DOMAIN found[i] : found[i][k] \in Observation
      BY <1>0 DEF Typed
    <3>2. \A i \in Repairers : \A k \in DOMAIN found[i] : found[i][k].path \in Paths
      BY <3>1 DEF Observation
    <3>3. QED
      BY <2>3, <2>8, <3>2 DEF AccuracyInv, LiveIsCurrent
  <2>10. SnapshotIsRow'
    BY <2>3 DEF AccuracyInv, SnapshotIsRow
  <2>11. DriftIsReplaced'
    BY <2>2, <2>3 DEF AccuracyInv, DriftIsReplaced, Replacing
  <2>12. QED
    BY <2>6, <2>7, <2>9, <2>10, <2>11 DEF AccuracyInv
<1>7. CASE RecordFile(c)
  <2> DEFINE p == path[c]
             o == body[c]
  <2>1. p \in Paths /\ o \in Objects /\ store[p] = o /\ pc[c] = "record" /\ pc'[c] # "record"
    BY <1>0, <1>7 DEF RecordFile, Answer, Quiet, AccuracyInv, RecordedIsStored
  <2>2. Recorded = {p} /\ Recorded' = {}
    BY <2>1, OneRecorded
  <2>3. rows' = Upsert(p, o) /\ UNCHANGED <<store, backfillVars, passVars>>
    BY <1>7 DEF RecordFile, Write
  <2> HIDE DEF p, o
  <2>4. rows'[p] # {} /\ \A r \in rows'[p] : Describes(r, o)
    <3> DEFINE rev == IF rows[p] = NoRow THEN 0 ELSE Bump((CHOOSE r \in rows[p] : TRUE).rev)
               new == [size |-> Size[o], refs |-> Refs[o], rev |-> rev]
    <3>1. CASE \E r \in rows[p] : r.size = Size[o] /\ r.refs = Refs[o]
      BY <1>0, <2>1, <2>3, <3>1 DEF Upsert, Describes
    <3>2. CASE ~\E r \in rows[p] : r.size = Size[o] /\ r.refs = Refs[o]
      <4>1. rows' = [rows EXCEPT ![p] = {new}]
        BY <2>3, <3>2 DEF Upsert
      <4>2. new.size = Size[o] /\ new.refs = Refs[o]
        OBVIOUS
      <4> HIDE DEF new
      <4>3. QED
        BY <1>0, <2>1, <4>1, <4>2 DEF Describes
    <3>3. QED
      BY <3>1, <3>2
  <2>5. \A q \in Paths : q # p => rows'[q] = rows[q]
    BY <1>0, <2>3 DEF Upsert
  <2>6. RowsDescribe'
    BY <2>1, <2>2, <2>3, <2>4, <2>5 DEF AccuracyInv, RowsDescribe
  <2>7. RecordedIsStored'
    BY <1>0, <2>1 DEF RecordedIsStored
  <2>8. LiveIsCurrent' /\ SnapshotIsRow' /\ DriftIsReplaced'
    BY <1>0, <2>1, <2>2, <2>3, <2>4, TableKept
  <2>9. QED
    BY <2>6, <2>7, <2>8 DEF AccuracyInv
<1>8. ~RequestFails(c)
  BY <1>0, ConstantsAssumption DEF RequestFails, OneAtATime, Typed
<1>9. \A b \in Blobs : ~DeleteBlob(c, b)
  BY DEF DeleteBlob, Begin, NothingDeleted
<1>10. \A roots : ~DeletePackages(c, roots)
  BY DEF DeletePackages, Begin, NothingDeleted
<1>11. ~CollectManifestPaths(c) /\ ~CollectDone(c) /\ ~Erase(c) /\ ~Forget(c)
  BY DEF CollectManifestPaths, CollectDone, Erase, Forget, GuardInv, Backed
<1>12. QED
  BY <1>2, <1>3, <1>4, <1>5, <1>6, <1>7, <1>8, <1>9, <1>10, <1>11 DEF Request

\* A step of a repair that leaves the table and the storage alone and adds
\* nothing to what the readers hold.
LEMMA RepairKept ==
    ASSUME TypeInv, TypeInv', GuardInv, Moves, AccuracyInv, UNCHANGED <<store, rows, clientVars>>,
           \A i \in Repairers : \A k \in DOMAIN found'[i] :
               \E j \in DOMAIN found[i] : found'[i][k] = found[i][j],
           \A p \in Paths : snap'[p] \subseteq snap[p], drift' \subseteq drift
    PROVE  AccuracyInv'
<1>1. Recorded' = Recorded
  BY DEF Recorded, clientVars
<1>2. RowsDescribe'
  BY <1>1 DEF AccuracyInv, RowsDescribe
<1>3. RecordedIsStored'
  BY DEF clientVars, AccuracyInv, RecordedIsStored
<1>4. LiveIsCurrent' /\ SnapshotIsRow' /\ DriftIsReplaced'
  BY <1>1, TableKept DEF TypeInv
<1>5. QED
  BY <1>2, <1>3, <1>4 DEF AccuracyInv

\* The backfills.
LEMMA BackfillAccuracyInv ==
    ASSUME NothingDeleted, OneAtATime, TypeInv, TypeInv', GuardInv, Moves, AccuracyInv,
           NEW i \in Repairers, BackfillStep(i) \/ BackfillFails(i)
    PROVE  AccuracyInv'
<1> USE DEF backfillVars, passVars, Set
<1>0. /\ bpc \in [Repairers -> {Quiet, "capture", "read", "publish"}]
      /\ cur \in [Repairers -> [path : Paths, rev : SUBSET Nat]]
      /\ found \in [Repairers -> Seq(Observation)]
      /\ rows \in [Paths -> SUBSET Row]
      /\ Typed /\ Typed'
  BY DEF TypeInv, Typed, Table
<1>1. CASE Capture(i)
  BY <1>1, RepairKept DEF Capture
<1>2. CASE ReadObject(i)
  <2> DEFINE p == cur[i].path
             f == [path |-> p, body |-> store[p], rev |-> cur[i].rev]
  <2>1. CASE store[p] = NoObject
    BY <1>2, <2>1, RepairKept DEF ReadObject
  <2>2. CASE store[p] # NoObject
    <3>1. found' = [found EXCEPT ![i] = <<f>> \o found[i]] /\ UNCHANGED <<store, rows, clientVars, passVars>>
      BY <1>2, <2>2 DEF ReadObject
    <3>2. f \in Observation
      BY <1>0, <2>2 DEF Observation, Typed
    <3>3. f.body = store[f.path]
      OBVIOUS
    <3> HIDE DEF f
    <3>4. \A k \in DOMAIN (<<f>> \o found[i]) :
              \/ (<<f>> \o found[i])[k] = f
              \/ \E j \in DOMAIN found[i] : (<<f>> \o found[i])[k] = found[i][j]
      BY <1>0, <3>2, Pushed
    <3>5. \A q \in Repairers : \A k \in DOMAIN found'[q] :
              \/ q = i /\ found'[q][k] = f
              \/ \E j \in DOMAIN found[q] : found'[q][k] = found[q][j]
      BY <1>0, <3>1, <3>4
    <3>6. Recorded' = Recorded
      BY <3>1 DEF Recorded, clientVars
    <3>7. Current(rows, store, Recorded, f)
      BY <3>3 DEF Current, SameRow
    <3>8. LiveIsCurrent'
      BY <3>1, <3>5, <3>6, <3>7 DEF AccuracyInv, LiveIsCurrent
    <3>9. RowsDescribe'
      BY <3>1, <3>6 DEF AccuracyInv, RowsDescribe
    <3>10. RecordedIsStored'
      BY <3>1 DEF clientVars, AccuracyInv, RecordedIsStored
    <3>11. SnapshotIsRow' /\ DriftIsReplaced'
      BY <3>1, <3>6 DEF AccuracyInv, SnapshotIsRow, DriftIsReplaced
    <3>12. QED
      BY <3>8, <3>9, <3>10, <3>11 DEF AccuracyInv
  <2>3. QED
    BY <2>1, <2>2
<1>3. CASE Publish(i)
  <2> DEFINE f == Head(found[i])
             v == CHOOSE u \in f.rev : TRUE
  <2>1. /\ f \in Observation /\ 1 \in DOMAIN found[i] /\ f = found[i][1]
        /\ \A k \in DOMAIN Tail(found[i]) : \E j \in DOMAIN found[i] : Tail(found[i])[k] = found[i][j]
    BY <1>0, <1>3, Popped DEF Publish
  <2>2. f.path \in Paths /\ f.body \in Objects /\ (f.rev # {} => v \in f.rev)
    BY <2>1 DEF Observation
  <2>3. \/ f.rev = {} /\ Write(InsertMissing(f.path, f.body))
        \/ f.rev # {} /\ Write(UpsertIfRevision(f.path, f.body, v))
    BY <1>3 DEF Publish
  <2>4. Current(rows, store, Recorded, f)
    BY <2>1 DEF AccuracyInv, LiveIsCurrent
  <2> HIDE DEF f, v
  <2>5. UNCHANGED <<store, clientVars, passVars>>
    BY <1>3 DEF Publish
  <2>6. Recorded' = Recorded
    BY <2>5 DEF Recorded, clientVars
  <2>7. \A q \in Repairers : \A k \in DOMAIN found'[q] :
            \E j \in DOMAIN found[q] : found'[q][k] = found[q][j]
    BY <1>0, <1>3, <2>1 DEF Publish, f
  <2>8. LiveIsCurrent' /\ SnapshotIsRow' /\ DriftIsReplaced'
    BY <1>0, <2>5, <2>6, <2>7, TableKept
  <2>9. \/ rows' = rows
        \/ /\ Live(rows, f)
           /\ \A r \in rows'[f.path] : Describes(r, f.body)
           /\ \A q \in Paths : q # f.path => rows'[q] = rows[q]
    BY <1>0, <2>2, <2>3 DEF Write, InsertMissing, UpsertIfRevision, RevOf, Live, Describes
  <2>10. RowsDescribe'
    <3> SUFFICES ASSUME NEW p \in Paths, NEW r \in rows'[p]
                 PROVE  p \in Recorded \/ Describes(r, store[p])
      BY <2>5, <2>6 DEF RowsDescribe
    <3>1. CASE rows'[p] = rows[p]
      BY <3>1 DEF AccuracyInv, RowsDescribe
    <3>2. CASE rows'[p] # rows[p]
      <4>1. Live(rows, f) /\ p = f.path /\ Describes(r, f.body)
        BY <2>9, <3>2
      <4>2. SameRow(f.body, store[p]) \/ p \in Recorded
        BY <2>4, <4>1 DEF Current, Replacing
      <4>3. QED
        BY <4>1, <4>2 DEF SameRow, Describes
    <3>3. QED
      BY <3>1, <3>2
  <2>11. RecordedIsStored'
    BY <2>5 DEF clientVars, AccuracyInv, RecordedIsStored
  <2>12. QED
    BY <2>8, <2>10, <2>11 DEF AccuracyInv
<1>4. CASE BackfillDone(i)
  <2>1. \A q \in Repairers : \A k \in DOMAIN found'[q] :
            \E j \in DOMAIN found[q] : found'[q][k] = found[q][j]
    BY <1>0, <1>4 DEF BackfillDone, EndBackfill
  <2>2. QED
    BY <1>4, <2>1, RepairKept DEF BackfillDone
<1>5. ~BackfillFails(i)
  BY <1>0, ConstantsAssumption DEF BackfillFails, OneAtATime, Typed
<1>6. QED
  BY <1>1, <1>2, <1>3, <1>4, <1>5 DEF BackfillStep

\* The reconciliation pass.
LEMMA PassAccuracyInv ==
    ASSUME NothingDeleted, OneAtATime, TypeInv, TypeInv', GuardInv, Moves, AccuracyInv,
           PassStep \/ PassFails \/ \E p \in Paths : ProbeFails(p)
    PROVE  AccuracyInv'
<1> USE DEF backfillVars, passVars, Set
<1>0. /\ snap \in [Paths -> SUBSET Row] /\ rows \in [Paths -> SUBSET Row]
      /\ \A p \in Paths : \A r, s \in rows[p] : r = s
      /\ \A p \in Paths : \A r, s \in snap[p] : r = s
      /\ drift \subseteq [path : Paths, size : Nat]
      /\ Typed /\ Typed'
  BY DEF TypeInv, Typed, Table
<1>1. CASE StartPass
  BY <1>1, RepairKept DEF StartPass
<1>2. CASE ExamineManifest
  <2>1. found' = found
    BY <1>2 DEF ExamineManifest, StartBackfill
  <2>2. QED
    BY <1>2, <2>1, RepairKept DEF ExamineManifest
<1>3. CASE ListRows
  <2>1. UNCHANGED <<store, rows, clientVars, found>> /\ snap' = rows /\ drift' = {}
    BY <1>3 DEF ListRows, GuardInv, DriftListed
  <2>2. Recorded' = Recorded
    BY <2>1 DEF Recorded, clientVars
  <2>3. RowsDescribe'
    BY <2>1, <2>2 DEF AccuracyInv, RowsDescribe
  <2>4. RecordedIsStored'
    BY <2>1 DEF clientVars, AccuracyInv, RecordedIsStored
  <2>5. LiveIsCurrent'
    BY <2>1, <2>2 DEF AccuracyInv, LiveIsCurrent
  <2>6. SnapshotIsRow' /\ DriftIsReplaced'
    BY <1>0, <2>1 DEF SnapshotIsRow, DriftIsReplaced
  <2>7. QED
    BY <2>3, <2>4, <2>5, <2>6 DEF AccuracyInv
<1>4. ASSUME NEW p \in Paths, Probe(p) PROVE AccuracyInv'
  <2> DEFINE e == [path |-> p, size |-> Size[store[p]]]
  <2>1. UNCHANGED <<store, rows, clientVars, found>>
    BY <1>4 DEF Probe
  <2>2. \/ drift' = drift
        \/ drift' = drift \cup {e} /\ \E r \in snap[p] : r.size # Size[store[p]]
    BY <1>4 DEF Probe
  <2>3. \A q \in Paths : snap'[q] \subseteq snap[q]
    BY <1>0, <1>4 DEF Probe, NoRow
  <2>4. CASE drift' = drift
    BY <2>1, <2>3, <2>4, RepairKept
  <2>5. CASE drift' = drift \cup {e} /\ \E r \in snap[p] : r.size # Size[store[p]]
    <3>1. Recorded' = Recorded
      BY <2>1 DEF Recorded, clientVars
    <3>2. RowsDescribe'
      BY <2>1, <3>1 DEF AccuracyInv, RowsDescribe
    <3>3. RecordedIsStored'
      BY <2>1 DEF clientVars, AccuracyInv, RecordedIsStored
    <3>4. LiveIsCurrent'
      BY <2>1, <3>1 DEF AccuracyInv, LiveIsCurrent
    <3>5. SnapshotIsRow'
      BY <2>1, <2>3 DEF AccuracyInv, SnapshotIsRow
    <3>6. ASSUME NEW s \in snap[p], NEW r \in rows[p], s.rev = r.rev
          PROVE  Replacing(rows, store, Recorded, p)
      <4>1. s = r /\ s.size # Size[store[p]] /\ \A q \in rows[p] : q = r
        BY <1>0, <2>5, <3>6 DEF AccuracyInv, SnapshotIsRow
      <4>2. \A q \in rows[p] : ~Describes(q, store[p])
        BY <4>1 DEF Describes
      <4>3. QED
        BY <4>2 DEF AccuracyInv, RowsDescribe, Replacing
    <3>7. e.path = p
      OBVIOUS
    <3> HIDE DEF e
    <3>8. DriftIsReplaced'
      <4> SUFFICES ASSUME NEW d \in drift', NEW s \in snap'[d.path], NEW r \in rows[d.path], s.rev = r.rev
                   PROVE  Replacing(rows, store, Recorded, d.path)
        BY <2>1, <3>1 DEF DriftIsReplaced
      <4>1. CASE d = e
        BY <2>3, <3>6, <3>7, <4>1
      <4>2. CASE d \in drift
        BY <1>0, <2>3, <4>2 DEF AccuracyInv, DriftIsReplaced
      <4>3. QED
        BY <2>5, <4>1, <4>2
    <3>9. QED
      BY <3>2, <3>3, <3>4, <3>5, <3>8 DEF AccuracyInv
  <2>6. QED
    BY <2>2, <2>4, <2>5
<1>5. ASSUME NEW d \in drift, CorrectSize(d) PROVE AccuracyInv'
  <2> DEFINE s == CHOOSE r \in snap[d.path] : TRUE
             upd(r) == IF r.rev = s.rev THEN [r EXCEPT !.size = d.size, !.rev = Bump(s.rev)] ELSE r
  <2>1. d.path \in Paths
    BY <1>0
  <2>2. s \in snap[d.path]
    BY <1>5 DEF GuardInv, DriftListed, NoRow
  <2>3. rows' = [rows EXCEPT ![d.path] = {upd(r) : r \in rows[d.path]}]
    BY <1>0, <1>5, <2>1 DEF CorrectSize, Write, UpdateSizeIfRevision
  <2>4. \A r : r.rev # s.rev => upd(r) = r
    OBVIOUS
  <2> HIDE DEF s, upd
  <2>5. UNCHANGED <<store, clientVars, found>> /\ snap' = [snap EXCEPT ![d.path] = NoRow] /\ drift' = drift \ {d}
    BY <1>5 DEF CorrectSize
  <2>6. Recorded' = Recorded
    BY <2>5 DEF Recorded, clientVars
  <2>7. \A q \in Paths : snap'[q] \subseteq snap[q]
    BY <1>0, <2>5 DEF NoRow
  <2>8. LiveIsCurrent' /\ SnapshotIsRow' /\ DriftIsReplaced'
    BY <1>0, <2>5, <2>6, <2>7, TableKept
  <2>9. RowsDescribe'
    <3> SUFFICES ASSUME NEW p \in Paths, NEW r \in rows'[p]
                 PROVE  p \in Recorded \/ Describes(r, store[p])
      BY <2>5, <2>6 DEF RowsDescribe
    <3>1. CASE rows'[p] = rows[p]
      BY <3>1 DEF AccuracyInv, RowsDescribe
    <3>2. CASE rows'[p] # rows[p]
      <4>1. p = d.path /\ {upd(q) : q \in rows[p]} # rows[p]
        BY <1>0, <2>3, <3>2
      <4>2. PICK q \in rows[p] : q.rev = s.rev
        BY <2>4, <4>1
      <4>3. Replacing(rows, store, Recorded, p)
        BY <2>2, <4>1, <4>2 DEF AccuracyInv, DriftIsReplaced
      <4>4. QED
        BY <4>3 DEF Replacing
    <3>3. QED
      BY <3>1, <3>2
  <2>10. RecordedIsStored'
    BY <2>5 DEF clientVars, AccuracyInv, RecordedIsStored
  <2>11. QED
    BY <2>8, <2>9, <2>10 DEF AccuracyInv
<1>6. CASE RemoveMissing
  <2>1. rows' = rows
    BY <1>0, <1>6 DEF RemoveMissing, DeletePathsIfRevisions, GuardInv, Backed
  <2>2. QED
    BY <1>6, <2>1, RepairKept DEF RemoveMissing, EndPass, NoRow
<1>7. ~PassFails /\ \A p \in Paths : ~ProbeFails(p)
  BY <1>0, ConstantsAssumption DEF PassFails, ProbeFails, OneAtATime, Typed
<1>8. QED
  BY <1>1, <1>2, <1>3, <1>4, <1>5, <1>6, <1>7 DEF PassStep

\* Every step keeps the table accurate but for the path being recorded.
LEMMA StepAccuracyInv ==
    ASSUME NothingDeleted, OneAtATime
    PROVE  TypeInv /\ TypeInv' /\ GuardInv /\ AccuracyInv /\ [Next]_vars => AccuracyInv'
<1> SUFFICES ASSUME TypeInv, TypeInv', GuardInv, AccuracyInv, [Next]_vars PROVE AccuracyInv'
  OBVIOUS
<1>1. Moves
  BY StepGuardInv
<1>2. CASE UNCHANGED vars
  BY <1>1, <1>2, RepairKept DEF vars, backfillVars, passVars
<1>3. ASSUME NEW root \in ManifestPaths, ListPackages(root) PROVE AccuracyInv'
  BY <1>1, <1>3, RepairKept DEF ListPackages, StartBackfill, passVars
<1>4. QED
  BY <1>1, <1>2, <1>3, RequestAccuracyInv, BackfillAccuracyInv, PassAccuracyInv DEF Next

\* For any images and any interleaving of a client with a listing and the
\* reconciliation, as long as nothing is deleted, nothing fails and revisions do
\* not wrap: between two requests every row is exactly what the storage holds.
THEOREM RepairsKeepAccuracy ==
    ASSUME NothingDeleted, OneAtATime
    PROVE  Spec => []AccurateWhenQuiet
<1>1. TypeInv /\ GuardInv /\ AccuracyInv => AccurateWhenQuiet
  <2> SUFFICES ASSUME TypeInv, GuardInv, AccuracyInv, \A c \in Clients : pc[c] = Quiet,
                      NEW p \in Paths, NEW r \in rows[p]
               PROVE  store[p] # NoObject /\ r.size = Size[store[p]] /\ r.refs = Refs[store[p]]
    BY DEF AccurateWhenQuiet
  <2>1. p \notin Recorded
    BY DEF Recorded, Quiet
  <2>2. Describes(r, store[p])
    BY <2>1 DEF AccuracyInv, RowsDescribe
  <2>3. store[p] # NoObject
    BY DEF GuardInv, Backed, NoRow
  <2>4. QED
    BY <2>2, <2>3 DEF Describes
<1>2. TypeInv /\ TypeInv' /\ GuardInv /\ [Next]_vars => GuardInv'
  BY StepGuardInv
<1>3. TypeInv /\ TypeInv' /\ GuardInv /\ AccuracyInv /\ [Next]_vars => AccuracyInv'
  BY StepAccuracyInv
<1>4. QED
  BY <1>1, <1>2, <1>3, InitTypeInv, StepTypeInv, InitGuardInv, InitAccuracyInv, PTL DEF Spec
=============================================================================
