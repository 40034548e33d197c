------------------------------ MODULE LocalFiles ------------------------------
(***************************************************************************)
(* The local file storage.  Beside each file lies a metadata file with the *)
(* hashes of its content and what the repositories attach to it.  A save   *)
(* over an existing file queues an update of the metadata, which a         *)
(* background task runs: it reads the metadata and hashes the file, then   *)
(* replaces the metadata as a whole.  A new file gets its metadata when it *)
(* is first read.                                                          *)
(*                                                                         *)
(* aux.meta is the metadata of a path, aux.updates the updates queued or   *)
(* under way, aux.known the hashes computed during an upload for the file  *)
(* it is about to become, and aux.lost, a history variable, the paths      *)
(* whose updates a restart forgot.  A hash is the content it hashes.       *)
(***************************************************************************)
EXTENDS PackageDeletion

LocalInit == [meta |-> EmptyMap, updates |-> {}, known |-> EmptyMap, lost |-> {}, put |-> EmptyMap]
SavedFile == <<Dir("file")>>
BlobFile(b) == <<Dir("blobs"), Dir(b)>>
LocalPaths == {SavedFile} \cup {BlobFile(b) : b \in Bodies}

NewMeta(path) == [hash |-> store[path], repo |-> Blank]
Queued(path) == [path |-> path, id |-> used.clock + 1, stage |-> "queued", meta |-> Nothing]

\* Whoever read the metadata or the content before and writes the metadata later is overtaken.
Overtakes(c, path) ==
    raced' = raced \cup Overtaken(c, {<<"file", path>>})
                   \cup {<<"file", u.path>> : u \in {u \in aux.updates : u.path = path /\ u.stage = "read"}}

FileRequest(op, path, body, plan) ==
    [NoJob EXCEPT !.op = op, !.path = path, !.body = body, !.plan = plan]
FileSave(c) == \E b \in Bodies : Start(c, FileRequest("save", SavedFile, b, <<"write">>))
\* An upload that is complete becomes the blob of its digest.
FileMove(c) == \E b \in Bodies : Start(c, FileRequest("move", BlobFile(b), b, <<"knownHash", "rename">>))
FileRead(c) == \E path \in LocalPaths : Start(c, FileRequest("read", path, Blank, <<"readMeta", "readFile">>))
FileDelete(c) == \E path \in LocalPaths : Start(c, FileRequest("remove", path, Blank, <<"removeFile", "removeMeta">>))
FilePut(c) == \E path \in LocalPaths, r \in {"one", "two"} :
    Start(c, FileRequest("put", path, r, <<"readMeta", "putMeta">>))

\* Mutant: no update is queued for a file that is overwritten.
SaveForgets(c, path) == aux
\* What a save queues: nothing for a new file, whose metadata its first reader makes.
SaveQueues(c, path) ==
    [aux EXCEPT !.updates = IF path \in DOMAIN store THEN @ \cup {Queued(path)} ELSE @]
FileWrite(c) ==
    /\ At(c, "write") \/ At(c, "rename")
    /\ store' = Put(store, job[c].path, job[c].body)
    /\ used' = [used EXCEPT !.clock = @ + 1]
    /\ aux' = SaveQueues(c, job[c].path)
    /\ Overtakes(c, job[c].path)
    /\ Reply(c, 200, Nothing)
    /\ UNCHANGED <<worldVars, catalogVars, broken>>
KnownHash(c) ==
    /\ At(c, "knownHash")
    /\ aux' = [aux EXCEPT !.known = Put(@, job[c].path, job[c].body)]
    /\ Advance(c)
    /\ UNCHANGED <<worldVars, store, catalogVars, used, historyVars>>

\* get_or_default_local: the metadata, made from the file where there is none.
ReadMeta(c) ==
    /\ At(c, "readMeta")
    /\ LET path == job[c].path IN
       \/ path \notin DOMAIN store /\ Reply(c, 404, Nothing)
       \/ /\ path \in DOMAIN store \cap DOMAIN aux.meta
          /\ Recall(c, Rest(c), aux.meta[path], {<<"file", path>>})
       \/ /\ path \in DOMAIN store \ DOMAIN aux.meta
          /\ Recall(c, <<"createMeta">> \o Rest(c), NewMeta(path), {<<"file", path>>})
    /\ UNCHANGED <<worldVars, store, catalogVars, aux, used, historyVars>>
CreateMeta(c) ==
    /\ At(c, "createMeta")
    /\ aux' = [aux EXCEPT !.meta = Put(@, job[c].path, job[c].mem)]
    /\ Overtakes(c, job[c].path)
    /\ Advance(c)
    /\ UNCHANGED <<worldVars, store, catalogVars, used, broken>>
ReadFile(c) ==
    /\ At(c, "readFile")
    /\ IF job[c].path \in DOMAIN store
       THEN Reply(c, 200, [hash |-> job[c].mem.hash, body |-> store[job[c].path]]) ELSE Reply(c, 500, Nothing)
    /\ UNCHANGED <<worldVars, store, catalogVars, aux, used, historyVars>>
\* set_repository_meta saves all of the metadata it read before.
PutMeta(c) ==
    /\ At(c, "putMeta")
    /\ aux' = [aux EXCEPT !.meta = Put(@, job[c].path, [job[c].mem EXCEPT !.repo = job[c].body]),
                          !.put = Put(@, job[c].path, job[c].body)]
    /\ Overtakes(c, job[c].path)
    /\ Reply(c, 200, Nothing)
    /\ UNCHANGED <<worldVars, store, catalogVars, used, broken>>

RemoveFile(c) ==
    /\ At(c, "removeFile")
    /\ IF job[c].path \in DOMAIN store
       THEN /\ store' = Drop(store, {job[c].path}) /\ Overtakes(c, job[c].path)
            /\ job' = [job EXCEPT ![c].plan = Rest(c), ![c].reads = {<<"file", job[c].path>>}]
       ELSE Reply(c, 404, Nothing) /\ UNCHANGED <<store, raced>>
    /\ UNCHANGED <<worldVars, catalogVars, aux, used, broken>>
\* Mutant: the metadata of a deleted file stays.
KeepMeta(c) ==
    /\ At(c, "removeMeta")
    /\ Reply(c, 200, Nothing)
    /\ UNCHANGED <<worldVars, store, catalogVars, aux, used, historyVars>>
RemoveMeta(c) ==
    /\ At(c, "removeMeta")
    /\ aux' = [aux EXCEPT !.meta = Drop(@, {job[c].path}), !.put = Drop(@, {job[c].path})]
    /\ Overtakes(c, job[c].path)
    /\ Reply(c, 200, Nothing)
    /\ UNCHANGED <<worldVars, store, catalogVars, used, broken>>

\* Mutant: the update starts from fresh metadata.
UpdateResets(path) == [hash |-> store[path], repo |-> Blank]
\* meta_update_task: a path that is gone is skipped; a known hash spares the hashing.
UpdatedMeta(path) ==
    [hash |-> IF path \in DOMAIN aux.known THEN aux.known[path] ELSE store[path],
     repo |-> IF path \in DOMAIN aux.meta THEN aux.meta[path].repo ELSE Blank]
UpdateReads == \E u \in aux.updates :
    /\ u.stage = "queued"
    /\ aux' = [aux EXCEPT !.updates = (@ \ {u}) \cup IF u.path \in DOMAIN store
                                        THEN {[u EXCEPT !.stage = "read", !.meta = UpdatedMeta(u.path)]} ELSE {},
                          !.known = Drop(@, {u.path} \cap DOMAIN store)]
    /\ UNCHANGED <<worldVars, store, catalogVars, job, used, historyVars>>
UpdateSaves == \E u \in aux.updates :
    /\ u.stage = "read"
    /\ aux' = [aux EXCEPT !.updates = @ \ {u}, !.meta = Put(@, u.path, u.meta)]
    /\ raced' = raced \cup {r \in {<<"file", u.path>>} :
                               \/ \E c \in Clients : r \in job[c].reads
                               \/ \E w \in aux.updates \ {u} : w.path = u.path /\ w.stage = "read"}
    /\ UNCHANGED <<worldVars, store, catalogVars, job, used, broken>>
\* An update that fails is only logged.
UpdateFails == \E u \in aux.updates :
    /\ CleanFault
    /\ aux' = [aux EXCEPT !.updates = @ \ {u}, !.lost = @ \cup {u.path}]
    /\ UNCHANGED <<worldVars, store, catalogVars, job, historyVars>>

LocalFilesStep(c) ==
    \/ FileSave(c) \/ FileMove(c) \/ FileRead(c) \/ FileDelete(c) \/ FilePut(c)
    \/ FileWrite(c) \/ KnownHash(c) \/ ReadMeta(c) \/ CreateMeta(c) \/ ReadFile(c) \/ PutMeta(c)
    \/ RemoveFile(c) \/ RemoveMeta(c)
MetaUpdates == kind = "localFiles" /\ (UpdateReads \/ UpdateSaves \/ UpdateFails)

-----------------------------------------------------------------------------
\* The paths at rest: no request and no update is under way, and none was overtaken or lost.
Settled(path) ==
    /\ Quiescent /\ \A u \in aux.updates : u.path # path
    /\ path \notin aux.lost /\ <<"file", path>> \notin raced \cup broken

\* The hashes beside a file are those of its content, so that what is served under them is what
\* they describe; only overlapping work on the path may leave others behind.
LocalHashesCurrent ==
    kind = "localFiles" => \A path \in DOMAIN aux.meta :
        Settled(path) => path \in DOMAIN store /\ aux.meta[path].hash = store[path]

\* What a repository attached to a file stays attached through later saves of the file.
LocalPutKept ==
    kind = "localFiles" => \A path \in DOMAIN aux.put :
        Settled(path) => path \in DOMAIN aux.meta /\ aux.meta[path].repo = aux.put[path]
=============================================================================
