----------------------------- MODULE BlobUploads -----------------------------
(***************************************************************************)
(* The chunked upload of a Docker blob.  The server keeps, for each open   *)
(* upload, the running hash of the chunks in memory and the chunks in the  *)
(* storage: a file of the local storage, or the staging area of the S3     *)
(* storage, whose bytes share one budget with the requests that spool a    *)
(* body.  The last request compares the hash with the digest the client    *)
(* names and moves the chunks to the blob of that digest.                  *)
(*                                                                         *)
(* A content is the sequence of its chunks, a hash the content it hashes.  *)
(* aux.open is what was hashed for each open upload, aux.staged the S3     *)
(* staging entries (contents and reserved units), aux.blobs the blobs by   *)
(* digest.  History variables: aux.seen, the uploads begun, aux.lost, those *)
(* a restart forgot, and aux.origin, the upload each blob came from.       *)
(***************************************************************************)
EXTENDS PackageDeletion

UploadsInit == [open |-> EmptyMap, staged |-> EmptyMap, blobs |-> EmptyMap,
                seen |-> {}, lost |-> {}, origin |-> EmptyMap]
UploadIds == {"u", "w"}  \* bound: the uploads begun
UploadFile(p) == <<Dir("uploads"), Dir(p)>>
Upload(p) == <<"upload", p>>
MaxStaged == 1  \* bound: MAX_STAGED_UPLOADS
UploadBudget == 3  \* bound: the units of S3_UPLOAD_SPOOL_PERMIT_BYTES in the budget; a chunk takes one
Digests == UNION {[1 .. n -> Bodies] : n \in 0 .. 2}  \* bound: a client names blobs of at most two chunks

UploadRequest(op, p, plan, mem) ==
    [NoJob EXCEPT !.op = op, !.p = p, !.plan = plan, !.mem = mem, !.reads = {Upload(p)}]
NoUpload(op) == Refused(op, 404)
UploadMemory(b, digest) == [chunk |-> b, digest |-> digest, fd |-> "none", spool |-> 0]

\* The id of an upload is a fresh UUID.
Named == aux.seen \cup {job[d].p : d \in Running("begin")}
UploadBegin(c) == \E p \in UploadIds \ Named :
    /\ p = "u" \/ "u" \in Named
    /\ Start(c, UploadRequest("begin", p, <<"uploadBegin">>, UploadMemory(Blank, <<>>)))
UploadStatus(c) == \E p \in aux.seen :
    Start(c, IF p \in DOMAIN aux.open
             THEN [Refused("status", 204) EXCEPT !.got = [length |-> Len(aux.open[p])]] ELSE NoUpload("status"))
UploadCancel(c) == \E p \in aux.seen :
    Start(c, IF p \in DOMAIN aux.open
             THEN UploadRequest("cancel", p, <<"uploadErase", "uploadAbandon">>, UploadMemory(Blank, <<>>))
             ELSE NoUpload("cancel"))
Receive == IF storage = "local" THEN <<"localOpen", "localWrite">>
           ELSE <<"spool", "stagedAppend", "hash">>
UploadChunk(c) == \E p \in aux.seen, b \in Bodies :
    Start(c, IF p \in DOMAIN aux.open
             THEN UploadRequest("chunk", p, Receive \o <<"uploadAccepted">>, UploadMemory(b, <<>>))
             ELSE NoUpload("chunk"))
\* The closing request may bring a last chunk.
UploadComplete(c) == \E p \in aux.seen, b \in Bodies \cup {Blank}, digest \in Digests :
    Start(c, IF p \in DOMAIN aux.open
             THEN UploadRequest("complete", p, (IF b = Blank THEN <<>> ELSE Receive)
                                  \o <<"finalize", "move", "uploadCreated">>, UploadMemory(b, digest))
             ELSE NoUpload("complete"))

\* The state of an upload in memory.
UploadBegins(c) ==
    /\ At(c, "uploadBegin")
    /\ aux' = [aux EXCEPT !.open = Put(@, job[c].p, <<>>), !.seen = @ \cup {job[c].p}]
    /\ Reply(c, 202, Nothing)
    /\ UNCHANGED <<worldVars, store, catalogVars, used, historyVars>>
UploadAnswer(c) == \E step \in {<<"uploadAccepted", 202>>, <<"uploadCreated", 201>>, <<"uploadMismatch", 400>>} :
    /\ At(c, step[1])
    /\ Reply(c, step[2], Nothing)
    /\ UNCHANGED <<worldVars, store, catalogVars, aux, used, historyVars>>
\* What a chunk adds to the running hash; once the upload is finalized its hash is nobody's.
Hashed(p, b) == IF p \in DOMAIN aux.open THEN [aux.open EXCEPT ![p] = Append(@, b)] ELSE aux.open

-----------------------------------------------------------------------------
(* The local storage: the request opens the file, waits for its lock, then *)
(* writes and hashes the body piece by piece.                              *)

LocalData(p) == IF UploadFile(p) \in DOMAIN store THEN store[UploadFile(p)] ELSE <<>>
LocalOpen(c) ==
    /\ At(c, "localOpen")
    /\ store' = Put(store, UploadFile(job[c].p), LocalData(job[c].p))
    /\ job' = [job EXCEPT ![c].plan = Rest(c), ![c].mem.fd = "upload"]
    /\ UNCHANGED <<worldVars, catalogVars, aux, used, historyVars>>
\* The file descriptor follows the file: to the blob when the upload was moved, to nowhere when
\* it was deleted.
LocalAppended(c) ==
    LET b == job[c].mem.chunk IN
    CASE job[c].mem.fd = "upload" ->
           /\ store' = [store EXCEPT ![UploadFile(job[c].p)] = Append(@, b)]
           /\ aux' = [aux EXCEPT !.open = Hashed(job[c].p, b)]
      [] job[c].mem.fd = "blob" ->
           /\ aux' = [aux EXCEPT !.open = Hashed(job[c].p, b),
                                 !.blobs = [d \in DOMAIN @ |->
                                              IF aux.origin[d] = job[c].p THEN Append(@[d], b) ELSE @[d]]]
           /\ UNCHANGED store
      [] OTHER -> aux' = [aux EXCEPT !.open = Hashed(job[c].p, b)] /\ UNCHANGED store
\* A body that breaks off has been hashed, but what the writer still buffers is lost.
LocalWrite(c) ==
    /\ At(c, "localWrite")
    /\ \/ LocalAppended(c) /\ Touch(c, {Upload(job[c].p)}) /\ Advance(c) /\ UNCHANGED <<used, broken>>
       \/ /\ Fault(c) /\ Abort(c, 500)
          /\ aux' = [aux EXCEPT !.open = Hashed(job[c].p, job[c].mem.chunk)]
          /\ UNCHANGED <<store, raced>>
    /\ UNCHANGED <<worldVars, catalogVars>>

-----------------------------------------------------------------------------
(* The S3 storage: the body is spooled, appended to the staging file under *)
(* the lock of its path, then hashed.                                      *)

FreeUnits == UploadBudget - Cardinality({c \in Clients : ~Idle(c) /\ job[c].mem.spool = 1})
                          - Cardinality(UNION {{p} \X (1 .. aux.staged[p].units) : p \in DOMAIN aux.staged})
SpoolBody(c) ==
    /\ At(c, "spool")
    /\ IF FreeUnits > 0 THEN job' = [job EXCEPT ![c].plan = Rest(c), ![c].mem.spool = 1]
       ELSE Abort(c, 400)
    /\ UNCHANGED <<worldVars, store, catalogVars, aux, used, historyVars>>

\* ensure_staging: the entry of the path, made where there is none.
Ensured(p) == IF p \in DOMAIN aux.staged THEN aux.staged ELSE Put(aux.staged, p, [data |-> <<>>, units |-> 0])
\* Mutant: the reservation of an append that failed is kept.
StagedKeepsUnits(c) ==
    /\ At(c, "stagedAppend")
    /\ LET p == job[c].p  b == job[c].mem.chunk IN
       \/ /\ p \notin DOMAIN aux.staged /\ Cardinality(DOMAIN aux.staged) >= MaxStaged
          /\ Abort(c, 500)
          /\ UNCHANGED <<aux, used, historyVars>>
       \/ /\ p \in DOMAIN aux.staged \/ Cardinality(DOMAIN aux.staged) < MaxStaged
          /\ \/ /\ FreeUnits = 0
                /\ aux' = [aux EXCEPT !.staged = Ensured(p)]
                /\ Touch(c, {Upload(p)})
                /\ Abort(c, 500)
                /\ UNCHANGED <<used, broken>>
             \/ /\ FreeUnits > 0
                /\ aux' = [aux EXCEPT !.staged =
                               [Ensured(p) EXCEPT ![p] = [data |-> Append(@.data, b), units |-> @.units + 1]]]
                /\ Touch(c, {Upload(p)})
                /\ Advance(c)
                /\ UNCHANGED <<used, broken>>
             \/ /\ CleanFault /\ aux' = [aux EXCEPT !.staged = [Ensured(p) EXCEPT ![p].units = @ + 1]]
                /\ Touch(c, {Upload(p)})
                /\ Abort(c, 500)
                /\ UNCHANGED broken
             \/ /\ FreeUnits > 0 /\ Fault(c)
                /\ aux' = [aux EXCEPT !.staged = [Ensured(p) EXCEPT ![p].units = @ + 1]]
                /\ Abort(c, 500)
                /\ UNCHANGED raced
    /\ UNCHANGED <<worldVars, store, catalogVars>>
\* reserve_staged_size, the write, and release_staged_size after a write that failed.  A request
\* cut off in between neither releases nor hashes.
StagedAppend(c) ==
    /\ At(c, "stagedAppend")
    /\ LET p == job[c].p  b == job[c].mem.chunk IN
       \/ /\ p \notin DOMAIN aux.staged /\ Cardinality(DOMAIN aux.staged) >= MaxStaged
          /\ Abort(c, 500)
          /\ UNCHANGED <<aux, used, historyVars>>
       \/ /\ p \in DOMAIN aux.staged \/ Cardinality(DOMAIN aux.staged) < MaxStaged
          /\ \/ /\ FreeUnits = 0
                /\ aux' = [aux EXCEPT !.staged = Ensured(p)]
                /\ Touch(c, {Upload(p)})
                /\ Abort(c, 500)
                /\ UNCHANGED <<used, broken>>
             \/ /\ FreeUnits > 0
                /\ aux' = [aux EXCEPT !.staged =
                               [Ensured(p) EXCEPT ![p] = [data |-> Append(@.data, b), units |-> @.units + 1]]]
                /\ Touch(c, {Upload(p)})
                /\ Advance(c)
                /\ UNCHANGED <<used, broken>>
             \/ /\ CleanFault /\ aux' = [aux EXCEPT !.staged = Ensured(p)]
                /\ Touch(c, {Upload(p)})
                /\ Abort(c, 500)
                /\ UNCHANGED broken
             \/ /\ FreeUnits > 0 /\ Fault(c)
                /\ aux' = [aux EXCEPT !.staged = [Ensured(p) EXCEPT ![p].units = @ + 1]]
                /\ Abort(c, 500)
                /\ UNCHANGED raced
    /\ UNCHANGED <<worldVars, store, catalogVars>>
HashSpooled(c) ==
    /\ At(c, "hash")
    /\ aux' = [aux EXCEPT !.open = Hashed(job[c].p, job[c].mem.chunk)]
    /\ job' = [job EXCEPT ![c].plan = Rest(c), ![c].mem.spool = 0]
    /\ Touch(c, {Upload(job[c].p)})
    /\ UNCHANGED <<worldVars, store, catalogVars, used, broken>>

-----------------------------------------------------------------------------
(* The end of an upload.                                                   *)

\* delete_file on the upload's path: the local file or the staging entry.
Erased(p) == /\ store' = Drop(store, {UploadFile(p)})
             /\ aux' = [aux EXCEPT !.staged = Drop(@, {p})]
\* The open file descriptors of other requests lose the file, or follow it to the blob.
Descriptors(c, to) ==
    [d \in Clients |-> IF d # c /\ ~Idle(d) /\ job[d].p = job[c].p /\ job[d].mem.fd = "upload"
                       THEN [job[d] EXCEPT !.mem.fd = to] ELSE job[d]]
UploadErase(c) ==
    /\ At(c, "uploadErase")
    /\ Erased(job[c].p)
    /\ Touch(c, {Upload(job[c].p)})
    /\ job' = [Descriptors(c, "gone") EXCEPT ![c].plan = Rest(c)]
    /\ UNCHANGED <<worldVars, catalogVars, used, broken>>
UploadAbandon(c) ==
    /\ At(c, "uploadAbandon")
    /\ aux' = [aux EXCEPT !.open = Drop(@, {job[c].p})]
    /\ Touch(c, {Upload(job[c].p)})
    /\ Reply(c, 204, Nothing)
    /\ UNCHANGED <<worldVars, store, catalogVars, used, broken>>

\* finalize_blob_upload_state: the hash leaves the table; an upload another request finalized is
\* hashed again from its file, which a staged upload does not have.
Finalized(p) ==
    IF p \in DOMAIN aux.open THEN {aux.open[p]}
    ELSE {store[path] : path \in {UploadFile(p)} \cap DOMAIN store}
\* Mutant: the digest the client names is believed.
FinalizeUnchecked(c) ==
    /\ At(c, "finalize")
    /\ aux' = [aux EXCEPT !.open = Drop(@, {job[c].p})] /\ Touch(c, {Upload(job[c].p)})
    /\ Advance(c)
    /\ UNCHANGED <<worldVars, store, catalogVars, used, broken>>
\* Mutant: the chunks of an upload whose digest is wrong are left in the storage.
FinalizeKeeps(c) ==
    /\ At(c, "finalize")
    /\ aux' = [aux EXCEPT !.open = Drop(@, {job[c].p})] /\ Touch(c, {Upload(job[c].p)})
    /\ IF job[c].mem.digest \in Finalized(job[c].p) THEN Advance(c) ELSE Reply(c, 400, Nothing)
    /\ UNCHANGED <<worldVars, store, catalogVars, used, broken>>
Finalize(c) ==
    /\ At(c, "finalize")
    /\ aux' = [aux EXCEPT !.open = Drop(@, {job[c].p})] /\ Touch(c, {Upload(job[c].p)})
    /\ \/ Finalized(job[c].p) = {} /\ Reply(c, 404, Nothing)
       \/ job[c].mem.digest \in Finalized(job[c].p) /\ Advance(c)
       \/ /\ Finalized(job[c].p) # {} /\ job[c].mem.digest \notin Finalized(job[c].p)
          /\ Goto(c, <<"uploadErase", "uploadMismatch">>)
    /\ UNCHANGED <<worldVars, store, catalogVars, used, broken>>

SizeFits(d, data) == IF d \in DOMAIN aux.blobs THEN \A x \in data : Len(x) = Len(aux.blobs[d]) ELSE TRUE
\* move_file: a rename, or a PUT of the staged file that keeps a blob of the same size that is
\* there already.
MoveUpload(c) ==
    /\ At(c, "move")
    /\ LET p == job[c].p  d == job[c].mem.digest
           data == IF storage = "local" THEN {store[path] : path \in {UploadFile(p)} \cap DOMAIN store}
                   ELSE {aux.staged[q].data : q \in {p} \cap DOMAIN aux.staged}
       IN \/ /\ data = {}
             /\ Reply(c, 404, Nothing)
             /\ UNCHANGED <<store, aux, raced>>
          \/ /\ storage = "s3" /\ ~SizeFits(d, data)
             /\ Reply(c, 500, Nothing)
             /\ UNCHANGED <<store, aux, raced>>
          \/ /\ storage = "local" \/ SizeFits(d, data)
             /\ \E x \in data :
                  aux' = [aux EXCEPT !.staged = Drop(@, {p}),
                            !.blobs = IF storage = "s3" /\ d \in DOMAIN @ THEN @ ELSE Put(@, d, x),
                            !.origin = IF storage = "s3" /\ d \in DOMAIN aux.blobs THEN @ ELSE Put(@, d, p)]
             /\ store' = Drop(store, {UploadFile(p)})
             /\ Touch(c, {Upload(p)})
             /\ job' = [Descriptors(c, "blob") EXCEPT ![c].plan = Rest(c)]
    /\ UNCHANGED <<worldVars, catalogVars, used, broken>>

BlobUploadStep(c) ==
    \/ UploadBegin(c) \/ UploadStatus(c) \/ UploadCancel(c) \/ UploadChunk(c) \/ UploadComplete(c)
    \/ UploadBegins(c) \/ UploadAnswer(c) \/ LocalOpen(c) \/ LocalWrite(c)
    \/ SpoolBody(c) \/ StagedAppend(c) \/ HashSpooled(c)
    \/ UploadErase(c) \/ UploadAbandon(c) \/ Finalize(c) \/ MoveUpload(c)

-----------------------------------------------------------------------------
Disturbed(p) == Upload(p) \in raced \cup broken

\* Completing an upload verifies the digest: a blob stored under a digest has that digest.  The
\* running hash vouches for the stored chunks only while each chunk does both or neither.
DigestVerified ==
    kind = "dockerUploads" => \A d \in DOMAIN aux.blobs : aux.blobs[d] = d

\* What holds of the code: a blob is wrong only if a request of its upload failed half way or
\* two requests of it ran at the same time.
BlobsMatchDigest ==
    kind = "dockerUploads" => \A d \in DOMAIN aux.blobs : Disturbed(aux.origin[d]) \/ aux.blobs[d] = d

\* The staged chunks are those of a blob whose content is wrong: a PUT refuses to replace it.
SpoiltDigest(p) ==
    storage = "s3" /\ \E d \in DOMAIN aux.blobs :
        aux.blobs[d] # d /\ p \in DOMAIN aux.staged /\ aux.staged[p].data = d

\* Once the requests are over, an upload that was completed, refused or cancelled has left
\* nothing behind, with the same excuses, or that another upload spoilt the blob of its digest.
\* (A restart forgets the open uploads; their local files stay.)
UploadsLeaveNothing ==
    kind = "dockerUploads" /\ Quiescent => \A p \in aux.seen \ (aux.lost \cup DOMAIN aux.open) :
        \/ Disturbed(p) \/ SpoiltDigest(p)
        \/ UploadFile(p) \notin DOMAIN store /\ p \notin DOMAIN aux.staged

\* The units a staging entry holds of the budget are the chunks in its file: appends that fail
\* give back what they took.
StagedUnitsExact ==
    kind = "dockerUploads" => \A p \in DOMAIN aux.staged :
        Disturbed(p) \/ aux.staged[p].units = Len(aux.staged[p].data)
=============================================================================
