---------------------------- MODULE S3ObjectCache ----------------------------
(***************************************************************************)
(* S3 storage with its on-disk object cache (crates/storage/src/s3/mod.rs: *)
(* S3DiskCache and the operations of S3Storage that use it).  One server   *)
(* process serves requests concurrently; the bucket is the truth.          *)
(*                                                                         *)
(* Objects are numbered by the mutation that produced them: version n of a *)
(* key is what its n-th effective PUT, COPY or DELETE left behind.  A body *)
(* is its version number, and Size gives its length.                       *)
(***************************************************************************)
EXTENDS Integers, Sequences, FiniteSets, SequencesExt, FiniteSetsExt

CONSTANTS
    Key,            \* cache keys: object paths
    Proc,           \* concurrent requests
    Mutator,        \* the requests that may change objects
    File,           \* names of content files, a stand-in for fresh UUIDs
    MaxVersion,     \* bound: versions of a key after which it is not written again
    Size,           \* body length of a version
    MaxBytes,       \* cache.max_bytes
    MaxEntries,     \* cache.max_entries
    MaxFailed,      \* FAILED_DELETION_QUEUE_LIMIT
    MaxFaults       \* bound: cancelled requests, I/O errors, crashes

\* The last write may still be deleted.
Version == 0..MaxVersion + 1

ASSUME RequestAssumption ==
    Mutator \subseteq Proc /\ IsFiniteSet(Proc) /\ IsFiniteSet(Key)
ASSUME BoundAssumption ==
    /\ MaxVersion \in Nat /\ MaxBytes \in Nat \ {0} /\ MaxEntries \in Nat \ {0}
    /\ MaxFailed \in Nat \ {0} /\ MaxFaults \in Nat
    /\ Size \in [1..MaxVersion -> Nat]
    /\ File \subseteq Nat

VARIABLES
    s3,             \* the bucket: last version of a key and whether it exists
    disk,           \* content files
    meta,           \* sidecar files, one per key
    index, lru, bytes, gen, failed,   \* CacheState
    proc,           \* the requests
    known,          \* history: latest version of a mutation that has returned
    stale,          \* history: a read returned less than was known before it
    interrupted,    \* history: an update was cut off half way
    faults

memory == <<index, lru, bytes, gen, failed>>
files == <<disk, meta>>
history == <<known, stale, interrupted>>
vars == <<s3, files, memory, proc, history, faults>>

Gone == [key |-> "none", ver |-> 0]
NoEntry == [file |-> -1, ver |-> 0]
Entry == [file : File, ver : Version] \cup {NoEntry}

\* "lookup", "found", "mismatch": S3DiskCache::get; "load", "miss", "fetch",
\* "store": open_file after a miss; "publish", "content", "sidecar": publish;
\* "clean": index updated, files still to be deleted; "delete", "source": about
\* to DELETE an object; "drop": about to call S3DiskCache::remove.
Pc == {"idle", "lookup", "found", "mismatch", "load", "miss", "fetch", "store",
       "publish", "content", "sidecar", "clean", "delete", "source", "drop"}

Idle == [pc |-> "idle", op |-> "none", key |-> "none", ver |-> 0, gen |-> 0, floor |-> 0,
         file |-> -1, held |-> FALSE, src |-> "none", then |-> "idle",
         trash |-> {}, sidecars |-> {}]

Op == {"none", "open", "save", "append", "delete", "batch", "invalidate", "move"}

ProcType ==
    [pc : Pc, op : Op, key : Key \cup {"none"}, ver : Version, gen : Nat, floor : Version,
     file : File \cup {-1}, held : BOOLEAN, src : Key \cup {"none"}, then : Pc,
     trash : SUBSET File, sidecars : SUBSET Key]

\* bytes is the subject of Accounting.
TypeOK ==
    /\ s3 \in [Key -> [ver : Version, live : BOOLEAN]]
    /\ disk \in [File -> [key : Key, ver : Version] \cup {Gone}]
    /\ meta \in [Key -> Entry] /\ index \in [Key -> Entry]
    /\ lru \in Seq(Key) /\ IsInjective(lru)
    /\ Range(lru) = {k \in Key : index[k] # NoEntry}
    /\ gen \in [Key -> Nat] /\ failed \in Seq(File) /\ Len(failed) <= MaxFailed
    /\ proc \in [Proc -> ProcType]
    /\ \A p \in Proc : proc[p].pc # "idle" => proc[p].key \in Key
    /\ known \in [Key -> Version] /\ stale \in BOOLEAN /\ interrupted \in BOOLEAN
    /\ faults \in 0..MaxFaults

Init ==
    /\ s3 = [k \in Key |-> [ver |-> 0, live |-> FALSE]]
    /\ disk = [f \in File |-> Gone]
    /\ meta = [k \in Key |-> NoEntry] /\ index = [k \in Key |-> NoEntry]
    /\ lru = <<>> /\ bytes = 0 /\ gen = [k \in Key |-> 0] /\ failed = <<>>
    /\ proc = [p \in Proc |-> Idle]
    /\ known = [k \in Key |-> 0] /\ stale = FALSE /\ interrupted = FALSE
    /\ faults = 0

At(p, pc) == proc[p].pc = pc
Fault == faults < MaxFaults /\ faults' = faults + 1
Goto(p, pc) == proc' = [proc EXCEPT ![p].pc = pc]

\* The index is updated: the files of what left it are to be deleted.
ToClean(p, then, trash, sidecars) ==
    proc' = [proc EXCEPT ![p] = [@ EXCEPT !.pc = "clean", !.then = then, !.trash = trash,
                                          !.sidecars = sidecars]]

\* publish_lock is held while files are renamed, the index updated and files deleted.
PublishLockFree == \A p \in Proc : proc[p].pc \notin {"content", "sidecar", "clean"}

\* The lock of cache_load_locks for a key.
LoadLockFree(k) == \A p \in Proc : ~(proc[p].held /\ proc[p].key = k)

\* A generation is only ever compared with one captured earlier, and a counter
\* does not come back to it: the least value nobody has captured is as good.
Captured(k) == {proc[p].gen : p \in {q \in Proc : proc[q].op = "open" /\ proc[q].key = k}}
Bump(k) ==
    gen' = [gen EXCEPT ![k] = Min((0..Cardinality(Proc) + 1) \ (Captured(k) \cup {gen[k]}))]
Promote(k) == lru' = Append(RemoveFirst(lru, k), k)

EntrySize(e) == IF e = NoEntry THEN 0 ELSE Size[e.ver]

\* Bytes of the entries of a sequence of keys under an index.
Weight(ks, ix) == FoldSeq(LAMBDA k, sum : EntrySize(ix[k]) + sum, 0, ks)

\* What remains when least recently used entries are evicted until both caps hold
\* or no entry is left.
Fits(ks, ix) == Len(ks) <= MaxEntries /\ Weight(ks, ix) <= MaxBytes
Trim(ks, ix) ==
    LET n == Min({i \in 0..Len(ks) : i = Len(ks) \/ Fits(SubSeq(ks, i + 1, Len(ks)), ix)})
    IN SubSeq(ks, n + 1, Len(ks))

-----------------------------------------------------------------------------
(* Ends of an operation *)

\* Mutant: the load lock outlives the read.
ServeKeepsLoadLock(p, v) ==
    /\ proc' = [proc EXCEPT ![p] = [Idle EXCEPT !.held = TRUE, !.key = proc[p].key]]
    /\ stale' = (stale \/ v < proc[p].floor)
    /\ UNCHANGED <<known, interrupted>>

\* A read returns version v: what it must not be older than was fixed at its start.
Serve(p, v) ==
    /\ proc' = [proc EXCEPT ![p] = Idle]
    /\ stale' = (stale \/ v < proc[p].floor)
    /\ UNCHANGED <<known, interrupted>>

\* The request goes on after a cache update: a read to its miss path, a move to
\* its source, or to its end.
Continue(p) ==
    CASE proc[p].op = "open" /\ proc[p].then = "idle" -> Serve(p, proc[p].ver)
      [] proc[p].op = "open" /\ proc[p].then # "idle" ->
            Goto(p, proc[p].then) /\ UNCHANGED history
      [] proc[p].op # "open" ->
            /\ proc' = [proc EXCEPT ![p] =
                          IF proc[p].then = "source" THEN [@ EXCEPT !.pc = "source"] ELSE Idle]
            /\ known' = [known EXCEPT ![proc[p].key] = Max({@, proc[p].ver})]
            /\ UNCHANGED <<stale, interrupted>>

-----------------------------------------------------------------------------
(* open_file and get_file_information *)

OpenFile(p, k) ==
    /\ At(p, "idle")
    /\ proc' = [proc EXCEPT ![p] = [Idle EXCEPT !.pc = "lookup", !.op = "open",
                                                !.key = k, !.floor = known[k]]]
    /\ UNCHANGED <<s3, files, memory, history, faults>>

\* S3DiskCache::get: the entry, under the state lock.
Lookup(p) ==
    LET k == proc[p].key IN
    /\ At(p, "lookup")
    /\ IF index[k] # NoEntry
       THEN /\ proc' = [proc EXCEPT ![p] = [@ EXCEPT !.pc = "found", !.file = index[k].file,
                                                     !.ver = index[k].ver]]
            /\ Promote(k)
       ELSE Goto(p, IF proc[p].held THEN "miss" ELSE "load") /\ UNCHANGED lru
    /\ UNCHANGED <<s3, files, index, bytes, gen, failed, history, faults>>

\* The file is there with the recorded size, or the entry is to be removed.
OpenCached(p) ==
    /\ At(p, "found")
    /\ IF disk[proc[p].file] = [key |-> proc[p].key, ver |-> proc[p].ver]
       THEN Serve(p, proc[p].ver)
       ELSE Goto(p, "mismatch") /\ UNCHANGED history
    /\ UNCHANGED <<s3, files, memory, faults>>

\* Mutant: the entry is still served while its file is deleted.
PopKeepsEntry(p, k, then) ==
    /\ Bump(k)
    /\ ToClean(p, then, {index[k].file} \ {-1}, IF index[k] = NoEntry THEN {} ELSE {k})
    /\ UNCHANGED <<index, lru, bytes, failed>>

\* Mutant: the recency list keeps a key without an entry.
PopKeepsOrder(p, k, then) ==
    /\ Bump(k)
    /\ index' = [index EXCEPT ![k] = NoEntry]
    /\ bytes' = Max({0, bytes - EntrySize(index[k])})
    /\ ToClean(p, then, {index[k].file} \ {-1}, IF index[k] = NoEntry THEN {} ELSE {k})
    /\ UNCHANGED <<lru, failed>>

\* Take the key's entry out of the index; its files are deleted in Clean.
Pop(p, k, then) ==
    /\ Bump(k)
    /\ index' = [index EXCEPT ![k] = NoEntry]
    /\ lru' = RemoveFirst(lru, k)
    /\ bytes' = Max({0, bytes - EntrySize(index[k])})
    /\ ToClean(p, then, {index[k].file} \ {-1}, IF index[k] = NoEntry THEN {} ELSE {k})
    /\ UNCHANGED failed

RemoveIfMatches(p) ==
    LET k == proc[p].key
        next == IF proc[p].held THEN "miss" ELSE "load"
    IN
    /\ At(p, "mismatch") /\ PublishLockFree
    /\ IF index[k] = [file |-> proc[p].file, ver |-> proc[p].ver]
       THEN Pop(p, k, next)
       ELSE Goto(p, next) /\ UNCHANGED memory
    /\ UNCHANGED <<s3, files, history, faults>>

\* cache_load_lock, then the cache is asked again.
LoadLock(p) ==
    /\ At(p, "load") /\ LoadLockFree(proc[p].key)
    /\ proc' = [proc EXCEPT ![p] = [@ EXCEPT !.held = TRUE, !.pc = "lookup"]]
    /\ UNCHANGED <<s3, files, memory, history, faults>>

CaptureGeneration(p) ==
    /\ At(p, "miss")
    /\ proc' = [proc EXCEPT ![p] = [@ EXCEPT !.gen = gen[proc[p].key], !.pc = "fetch"]]
    /\ UNCHANGED <<s3, files, memory, history, faults>>

\* GET: absent, streamed without caching, or buffered to be cached.
Fetch(p) ==
    LET o == s3[proc[p].key] IN
    /\ At(p, "fetch")
    /\ \/ Serve(p, o.ver)
       \/ /\ o.live
          /\ proc' = [proc EXCEPT ![p] = [@ EXCEPT !.ver = o.ver, !.pc = "store", !.then = "idle"]]
          /\ UNCHANGED history
    /\ UNCHANGED <<s3, files, memory, faults>>

\* put_if_generation: too large for the cache, or on to publish.
Store(p) ==
    LET k == proc[p].key
        current == gen[k] = proc[p].gen
    IN
    /\ At(p, "store")
    /\ IF Size[proc[p].ver] <= MaxBytes
       THEN Goto(p, "publish") /\ UNCHANGED <<memory, history>>
       ELSE /\ PublishLockFree
            /\ IF current THEN Pop(p, k, "idle") /\ UNCHANGED history
                          ELSE Serve(p, proc[p].ver) /\ UNCHANGED memory
    /\ UNCHANGED <<s3, files, faults>>

\* get_file_information of a cached object answers from memory.
Stat(p, k) ==
    /\ At(p, "idle") /\ index[k] # NoEntry
    /\ Promote(k)
    /\ stale' = (stale \/ index[k].ver < known[k])
    /\ UNCHANGED <<s3, files, index, bytes, gen, failed, proc, known, interrupted, faults>>

-----------------------------------------------------------------------------
(* S3DiskCache::publish *)

\* A name nobody refers to: file names end in a fresh UUID.
Referenced ==
    {index[k].file : k \in Key} \cup {meta[k].file : k \in Key} \cup Range(failed)
    \cup UNION {{proc[p].file} \cup proc[p].trash : p \in Proc}
Fresh == {f \in File : disk[f] = Gone /\ f \notin Referenced}

\* Mutant: a read publishes whatever it has fetched.
GuardIgnored(p) == TRUE

\* IfGeneration for a read, Unconditional for a write.
GuardHolds(p) == proc[p].op = "open" => gen[proc[p].key] = proc[p].gen

PublishContent(p) ==
    /\ At(p, "publish") /\ PublishLockFree /\ GuardHolds(p)
    /\ Fresh # {}
    /\ LET f == Min(Fresh) IN
       /\ disk' = [disk EXCEPT ![f] = [key |-> proc[p].key, ver |-> proc[p].ver]]
       /\ proc' = [proc EXCEPT ![p] = [@ EXCEPT !.file = f, !.pc = "content"]]
    /\ UNCHANGED <<s3, meta, memory, history, faults>>

\* The object changed while it was read: nothing is published.
DiscardStale(p) ==
    /\ At(p, "publish") /\ PublishLockFree /\ ~GuardHolds(p)
    /\ Serve(p, proc[p].ver)
    /\ UNCHANGED <<s3, files, memory, faults>>

PublishSidecar(p) ==
    /\ At(p, "content")
    /\ meta' = [meta EXCEPT ![proc[p].key] = [file |-> proc[p].file, ver |-> proc[p].ver]]
    /\ Goto(p, "sidecar")
    /\ UNCHANGED <<s3, disk, memory, history, faults>>

\* Mutant: the size of the replaced entry is not given back.
PublishIndexLeaksBytes(p) ==
    LET k == proc[p].key
        ix == [index EXCEPT ![k] = [file |-> proc[p].file, ver |-> proc[p].ver]]
        order == Append(RemoveFirst(lru, k), k)
        kept == Trim(order, ix)
        evicted == Range(order) \ Range(kept)
    IN
    /\ At(p, "sidecar")
    /\ IF proc[p].op = "open" THEN UNCHANGED gen ELSE Bump(k)
    /\ index' = [j \in Key |-> IF j \in evicted THEN NoEntry ELSE ix[j]]
    /\ lru' = kept
    /\ bytes' = bytes + Size[proc[p].ver] - Weight(SetToSeq(evicted), ix)
    /\ ToClean(p, "idle", ({index[k].file} \cup {index[j].file : j \in evicted}) \ {-1},
               evicted)
    /\ UNCHANGED <<s3, files, failed, history, faults>>

\* The entry replaces the key's old one and least recently used ones make room.
PublishIndex(p) ==
    LET k == proc[p].key
        ix == [index EXCEPT ![k] = [file |-> proc[p].file, ver |-> proc[p].ver]]
        order == Append(RemoveFirst(lru, k), k)
        kept == Trim(order, ix)
        evicted == Range(order) \ Range(kept)
    IN
    /\ At(p, "sidecar")
    /\ IF proc[p].op = "open" THEN UNCHANGED gen ELSE Bump(k)
    /\ index' = [j \in Key |-> IF j \in evicted THEN NoEntry ELSE ix[j]]
    /\ lru' = kept
    /\ bytes' = bytes - EntrySize(index[k]) + Size[proc[p].ver]
                - Weight(SetToSeq(evicted), ix)
    /\ ToClean(p, "idle", ({index[k].file} \cup {index[j].file : j \in evicted}) \ {-1},
               evicted)
    /\ UNCHANGED <<s3, files, failed, history, faults>>

\* Mutant: only content files are deleted.
CleanKeepsSidecars(p) ==
    /\ At(p, "clean")
    /\ disk' = [f \in File |-> IF f \in proc[p].trash THEN Gone ELSE disk[f]]
    /\ Continue(p)
    /\ UNCHANGED <<s3, meta, memory, faults>>

\* delete_content_path of what was superseded, evicted or removed; only entries
\* without a successor lose their sidecar.
Clean(p) ==
    /\ At(p, "clean")
    /\ disk' = [f \in File |-> IF f \in proc[p].trash THEN Gone ELSE disk[f]]
    /\ meta' = [k \in Key |-> IF k \in proc[p].sidecars THEN NoEntry ELSE meta[k]]
    /\ Continue(p)
    /\ UNCHANGED <<s3, memory, faults>>

\* A content file cannot be deleted and is queued; the oldest one may be dropped.
Enqueue(q, f) == Append(IF Len(q) >= MaxFailed THEN Tail(q) ELSE q, f)

CleanFails(p) ==
    /\ Fault
    /\ At(p, "clean")
    /\ \E f \in proc[p].trash :
         /\ disk[f] # Gone
         /\ disk' = [g \in File |-> IF g \in proc[p].trash \ {f} THEN Gone ELSE disk[g]]
         /\ failed' = Enqueue(failed, f)
    /\ meta' = [k \in Key |-> IF k \in proc[p].sidecars THEN NoEntry ELSE meta[k]]
    /\ Continue(p)
    /\ UNCHANGED <<s3, index, lru, bytes, gen>>

\* Every cache operation first retries the due deletions; they touch nothing else.
RetryFailedDeletions ==
    /\ failed # <<>>
    /\ disk' = [disk EXCEPT ![Head(failed)] = Gone]
    /\ failed' = Tail(failed)
    /\ UNCHANGED <<s3, meta, index, lru, bytes, gen, proc, history, faults>>

-----------------------------------------------------------------------------
(* Mutations *)

\* PUT, COPY and DELETE: the next version of k.
Put(k) ==
    /\ s3[k].ver < MaxVersion
    /\ s3' = [s3 EXCEPT ![k] = [ver |-> s3[k].ver + 1, live |-> TRUE]]
Delete(k) == s3' = [s3 EXCEPT ![k] = [ver |-> s3[k].ver + 1, live |-> FALSE]]

Begin(p, op, pc, k, ver) ==
    proc' = [proc EXCEPT ![p] = [Idle EXCEPT !.op = op, !.pc = pc, !.key = k, !.ver = ver]]

\* save_file: PUT, then cache_put when the body fits and memory for it is granted,
\* cache_remove otherwise.
SaveFile(p, k) ==
    /\ At(p, "idle") /\ p \in Mutator
    /\ Put(k)
    /\ \/ Size[s3[k].ver + 1] <= MaxBytes /\ Begin(p, "save", "publish", k, s3[k].ver + 1)
       \/ Begin(p, "save", "drop", k, s3[k].ver + 1)
    /\ UNCHANGED <<files, memory, history, faults>>

\* append_file: the ETag makes reading and rewriting the object one step; a PUT
\* whose ETag has moved fails and changes nothing.
AppendFile(p, k) ==
    /\ At(p, "idle") /\ p \in Mutator
    /\ Put(k)
    /\ Begin(p, "append", "drop", k, s3[k].ver + 1)
    /\ UNCHANGED <<files, memory, history, faults>>

\* delete_file: HEAD finds the object; without one it returns and drops nothing.
DeleteFile(p, k) ==
    /\ At(p, "idle") /\ p \in Mutator
    /\ s3[k].live
    /\ Begin(p, "delete", "delete", k, 0)
    /\ UNCHANGED <<s3, files, memory, history, faults>>

\* DELETE of an object that may be gone by now.
DeleteObject(p) ==
    LET k == proc[p].key IN
    /\ At(p, "delete")
    /\ IF s3[k].live
       THEN Delete(k) /\ Begin(p, "delete", "drop", k, s3[k].ver + 1)
       ELSE UNCHANGED s3 /\ Begin(p, "delete", "drop", k, s3[k].ver)
    /\ UNCHANGED <<files, memory, history, faults>>

\* delete_files_batch and delete_repository: no HEAD, and the cache entry goes
\* even when the provider reports an error for the key.
DeleteFilesBatch(p, k) ==
    /\ At(p, "idle") /\ p \in Mutator /\ s3[k].ver > 0
    /\ \/ s3[k].live /\ Delete(k) /\ Begin(p, "batch", "drop", k, s3[k].ver + 1)
       \/ UNCHANGED s3 /\ Begin(p, "batch", "drop", k, 0)
    /\ UNCHANGED <<files, memory, history, faults>>

\* invalidate_cached_file
InvalidateCachedFile(p, k) ==
    /\ At(p, "idle")
    /\ Begin(p, "invalidate", "drop", k, 0)
    /\ UNCHANGED <<s3, files, memory, history, faults>>

\* move_file: HEAD and COPY guarded by the source's ETag, cache_remove of the
\* destination, then the source.
MoveFile(p, from, to) ==
    /\ At(p, "idle") /\ p \in Mutator
    /\ from # to /\ s3[from].live
    /\ Put(to)
    /\ proc' = [proc EXCEPT ![p] =
         [Idle EXCEPT !.op = "move", !.pc = "drop", !.key = to, !.src = from,
                      !.ver = s3[to].ver + 1, !.then = "source", !.gen = s3[from].ver]]
    /\ UNCHANGED <<files, memory, history, faults>>

\* The source is deleted if it is still the object that was copied; its cache
\* entry goes in either case.
MoveSource(p) ==
    LET k == proc[p].src IN
    /\ At(p, "source")
    /\ IF s3[k].live /\ s3[k].ver = proc[p].gen
       THEN Delete(k) /\ Begin(p, "move", "drop", k, s3[k].ver + 1)
       ELSE UNCHANGED s3 /\ Begin(p, "move", "drop", k, 0)
    /\ UNCHANGED <<files, memory, history, faults>>

\* S3DiskCache::remove
RemoveEntry(p) ==
    /\ At(p, "drop") /\ PublishLockFree
    /\ Pop(p, proc[p].key, proc[p].then)
    /\ UNCHANGED <<s3, files, history, faults>>

-----------------------------------------------------------------------------
(* Failures *)

\* A request stops here at a cost: the bucket has changed and the index does not
\* know, or disk and index disagree.
HalfWay(p) ==
    \/ At(p, "sidecar")
    \/ At(p, "clean") /\ proc[p].sidecars # {}
    \/ proc[p].op # "open" /\ proc[p].ver > 0 /\ proc[p].pc \in {"publish", "content", "drop"}

\* The client hangs up and the request's future is dropped, or an S3 or I/O error
\* makes the operation return.
Cancel(p) ==
    /\ Fault
    /\ ~At(p, "idle")
    /\ interrupted' = (interrupted \/ HalfWay(p))
    /\ proc' = [proc EXCEPT ![p] = Idle]
    /\ UNCHANGED <<s3, files, memory, known, stale>>

\* The bucket applied a PUT or DELETE whose answer was lost: the operation returns
\* an error before it reaches the cache.
AnswerLost(p, k) ==
    /\ Fault
    /\ At(p, "idle") /\ p \in Mutator
    /\ Put(k) \/ (s3[k].live /\ Delete(k))
    /\ interrupted' = TRUE
    /\ UNCHANGED <<files, memory, proc, known, stale>>

\* A content file disappears: the default cache directory is a temporary one.
Damage(f) ==
    /\ Fault
    /\ disk[f] # Gone
    /\ disk' = [disk EXCEPT ![f] = Gone]
    /\ UNCHANGED <<s3, meta, memory, proc, history>>

\* A sidecar whose content file is complete.
Recoverable(k) ==
    meta[k] # NoEntry /\ disk[meta[k].file] = [key |-> k, ver |-> meta[k].ver]

\* The process restarts: recover_entries keeps the verified entries that fit, in
\* the order of their time stamps, and deletes every other file of its layout.
Restart ==
    /\ Fault
    /\ \E order \in SetToSeqs({k \in Key : Recoverable(k)}) : lru' = Trim(order, meta)
    /\ index' = [k \in Key |-> IF k \in Range(lru') THEN meta[k] ELSE NoEntry]
    /\ meta' = index'
    /\ bytes' = Weight(lru', meta)
    /\ disk' = [f \in File |-> IF \E k \in Range(lru') : meta[k].file = f THEN disk[f] ELSE Gone]
    /\ gen' = [k \in Key |-> 0]
    /\ failed' = <<>>
    /\ proc' = [p \in Proc |-> Idle]
    /\ interrupted' = (interrupted \/ \E p \in Proc : HalfWay(p))
    /\ UNCHANGED <<s3, known, stale>>

-----------------------------------------------------------------------------

\* What a request in progress does next.
Step(p) ==
    \/ Lookup(p) \/ OpenCached(p) \/ RemoveIfMatches(p) \/ LoadLock(p)
    \/ CaptureGeneration(p) \/ Fetch(p) \/ Store(p)
    \/ PublishContent(p) \/ DiscardStale(p) \/ PublishSidecar(p) \/ PublishIndex(p)
    \/ Clean(p) \/ RemoveEntry(p) \/ DeleteObject(p) \/ MoveSource(p)

Next ==
    \/ \E p \in Proc :
         \/ Step(p) \/ CleanFails(p) \/ Cancel(p)
         \/ \E k \in Key :
              \/ OpenFile(p, k) \/ Stat(p, k)
              \/ SaveFile(p, k) \/ AppendFile(p, k) \/ DeleteFile(p, k)
              \/ DeleteFilesBatch(p, k) \/ InvalidateCachedFile(p, k)
              \/ AnswerLost(p, k)
              \/ \E j \in Key : MoveFile(p, j, k)
    \/ RetryFailedDeletions
    \/ \E f \in File : Damage(f)
    \/ Restart

Spec == Init /\ [][Next]_vars

\* Requests run on the async runtime and wait on first-come first-served mutexes,
\* so a request that can go on again and again does go on.
FairSpec == Spec /\ \A p \in Proc : SF_vars(Step(p))

-----------------------------------------------------------------------------
(* Properties *)

\* A read never returns content older than what a mutation that returned before
\* the read started left behind, whatever the cache did in between: late GETs,
\* evictions, damaged files, failed deletions, restarts.
FreshReads == interrupted \/ ~stale

\* current_bytes is the size of the entries and neither cap is exceeded.
Accounting == bytes \in Nat /\ bytes = Weight(lru, index) /\ Fits(lru, index)

\* No file that the index serves is about to be deleted by anybody.
ServedFilesAreKept ==
    \A k \in Key : index[k] # NoEntry =>
        /\ index[k].file \notin Range(failed)
        /\ \A p \in Proc : index[k].file \notin proc[p].trash

\* Between publications the sidecars on disk say what the index says, so a restart
\* brings back neither a removed entry nor an older one.
RestartRestores ==
    \A k \in Key :
        \/ interrupted
        \/ \E p \in Proc : At(p, "sidecar") /\ proc[p].key = k
        \/ \E p \in Proc : At(p, "clean") /\ k \in proc[p].sidecars
        \/ meta[k] = index[k]

\* Every request returns: nobody waits for ever for the load lock or the
\* publication lock, not even after a holder was cancelled.
RequestsReturn == \A p \in Proc : ~At(p, "idle") ~> At(p, "idle")
=============================================================================
