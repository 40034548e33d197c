------------------------- MODULE LocalVirtualProofs -------------------------
(***************************************************************************)
(* Proofs about two of the kinds of repository state.  The local file      *)
(* storage: the hashes and the repository data beside a file are those of  *)
(* its content.  The virtual repositories: the memory holds the            *)
(* configuration the API stored, a read is answered by the first member    *)
(* that has the file, and a merged list holds what every member lists.     *)
(*                                                                         *)
(* Both invariants say of each thing (a path; the configuration; a copy of *)
(* a file) that it was overtaken, broken or lost, or else that the         *)
(* requests at work on it, the tables and the memory agree on it.          *)
(***************************************************************************)
EXTENDS RepositoriesProofs, SequenceTheorems

-----------------------------------------------------------------------------
(* The requests of the local file storage.                                 *)

\* What is left to do of a request that runs.
FilePlans ==
    {<<"write">>, <<"knownHash", "rename">>, <<"rename">>,
     <<"readMeta", "readFile">>, <<"readMeta", "putMeta">>,
     <<"createMeta", "readFile">>, <<"createMeta", "putMeta">>, <<"readFile">>, <<"putMeta">>,
     <<"removeFile", "removeMeta">>, <<"removeMeta">>}
\* The steps of these requests; those of the other kinds of repository are none of them.
FileSteps == {"write", "knownHash", "rename", "readMeta", "readFile", "putMeta", "createMeta",
              "removeFile", "removeMeta"}
\* The steps that rely on what the request saw or did before.
Relying == {"createMeta", "readFile", "putMeta", "removeMeta"}
\* What comes after a step.
FileOnward(s) ==
    /\ Head(s) = "knownHash" => Tail(s) = <<"rename">>
    /\ Head(s) = "removeFile" => Tail(s) = <<"removeMeta">>
    /\ Head(s) \in {"readMeta", "createMeta"} =>
         /\ Tail(s) \in {<<"readFile">>, <<"putMeta">>}
         /\ <<"createMeta">> \o Tail(s) \in {<<"createMeta", "readFile">>, <<"createMeta", "putMeta">>}

\* The tail of a sequence of two.
LEMMA TailOfTwo == ASSUME NEW a, NEW b PROVE Tail(<<a, b>>) = <<b>>
OBVIOUS

\* One step before another.
LEMMA OneBefore == ASSUME NEW a, NEW b PROVE <<a>> \o <<b>> = <<a, b>>
<1> DEFINE s == <<a>> \o <<b>>
           t == <<a, b>>
<1>1. s \in Seq({a, b}) /\ t \in Seq({a, b}) /\ Len(s) = 2 /\ Len(t) = 2
  OBVIOUS
<1>2. s[1] = t[1] /\ s[2] = t[2]
  OBVIOUS
<1>3. \A i \in 1 .. Len(s) : s[i] = t[i]
  BY <1>1, <1>2
<1> HIDE DEF s, t
<1>4. s = t
  BY <1>1, <1>3, SeqEqual
<1> QED BY <1>4 DEF s, t

\* The plans and their heads.
LEMMA FilePlanHeads ==
  ASSUME NEW s \in FilePlans
  PROVE  s # <<>> /\ Head(s) \in FileSteps /\ \A i \in 1 .. Len(s) : s[i] # "logged"
<1>1. s # <<>> /\ Head(s) \in FileSteps
  BY DEF FilePlans, FileSteps
<1>2. \A i \in 1 .. Len(s) : s[i] \in FileSteps
  BY DEF FilePlans, FileSteps
<1> QED BY <1>1, <1>2 DEF FileSteps

\* What comes after each step.
LEMMA FilePlanOnward == ASSUME NEW s \in FilePlans PROVE FileOnward(s)
<1>1. CASE s \in {<<"write">>, <<"rename">>, <<"readFile">>, <<"putMeta">>, <<"removeMeta">>}
  <2>1. Head(s) \in {"write", "rename", "readFile", "putMeta", "removeMeta"}
    BY <1>1
  <2> QED BY <2>1 DEF FileOnward
<1>2. CASE s = <<"knownHash", "rename">>
  <2>1. Head(s) = "knownHash" /\ Tail(s) = <<"rename">>
    BY <1>2, TailOfTwo
  <2> QED BY <2>1 DEF FileOnward
<1>3. CASE s = <<"removeFile", "removeMeta">>
  <2>1. Head(s) = "removeFile" /\ Tail(s) = <<"removeMeta">>
    BY <1>3, TailOfTwo
  <2> QED BY <2>1 DEF FileOnward
<1>4. ASSUME NEW x \in {"readMeta", "createMeta"}, NEW y \in {"readFile", "putMeta"}, s = <<x, y>>
      PROVE FileOnward(s)
  <2>1. Head(s) = x /\ Tail(s) = <<y>>
    BY <1>4, TailOfTwo
  <2>2. <<"createMeta">> \o <<y>> = <<"createMeta", y>>
    BY OneBefore
  <2> QED BY <1>4, <2>1, <2>2 DEF FileOnward
<1> QED BY <1>1, <1>2, <1>3, <1>4 DEF FilePlans

-----------------------------------------------------------------------------
(* The invariant of the local file storage.                                *)

\* The fields of the metadata of a file, of an update, of the tables and of a request.
MetaShape(m) == m = [hash |-> m.hash, repo |-> m.repo]
UpdateShape(u) == u = [path |-> u.path, id |-> u.id, stage |-> u.stage, meta |-> u.meta]
LocalShape(a) == a = [meta |-> a.meta, updates |-> a.updates, known |-> a.known,
                      lost |-> a.lost, put |-> a.put]
RequestShape(j) ==
    j = [op |-> j.op, plan |-> j.plan, p |-> j.p, v |-> j.v, path |-> j.path, body |-> j.body,
         mem |-> j.mem, row |-> j.row, reads |-> j.reads, code |-> j.code, got |-> j.got]

\* A request that runs works on one path, and relies on it once it has read or written it.
FileJob(j) ==
    /\ RequestShape(j)
    /\ j.plan = <<>> => j.reads = {}
    /\ j.plan # <<>> =>
        /\ j.plan \in FilePlans /\ j.path \in LocalPaths
        /\ j.reads = IF Head(j.plan) \in Relying THEN {<<"file", j.path>>} ELSE {}
        /\ Head(j.plan) \in {"createMeta", "putMeta"} => MetaShape(j.mem)
        /\ Head(j.plan) = "write" => j.path = SavedFile
        /\ Head(j.plan) \in {"knownHash", "rename"} => j.path = BlobFile(j.body)
FileJobs == job = [c \in Clients |-> job[c]] /\ \A c \in Clients : FileJob(job[c])

\* An update has the metadata to write once it has read.
UpdateIs(u) ==
    UpdateShape(u) /\ u.path \in LocalPaths /\ (u.stage = "read" => MetaShape(u.meta))
\* The tables, whatever the overlaps and faults; a blob has the content its name says.
FileTables ==
    /\ LocalShape(aux)
    /\ DOMAIN aux.meta \subseteq LocalPaths /\ DOMAIN aux.put \subseteq LocalPaths
    /\ \A q \in DOMAIN aux.meta : MetaShape(aux.meta[q])
    /\ \A u \in aux.updates : UpdateIs(u)
    /\ \A q \in DOMAIN aux.known : q = BlobFile(aux.known[q])
    /\ \A q \in DOMAIN store : q = SavedFile \/ q = BlobFile(store[q])

Working(c, q, step) == At(c, step) /\ job[c].path = q
\* Overlapping work or a fault may leave anything on the path.
Overtook(q) == q \in aux.lost \/ <<"file", q>> \in raced \cup broken

\* The metadata describe the file, or an update will see to it, or the file is being deleted.
MetaFollows(q) ==
    q \in DOMAIN aux.meta =>
      IF q \in DOMAIN store
      THEN aux.meta[q].hash = store[q] \/ \E u \in aux.updates : u.path = q
      ELSE \E c \in Clients : Working(c, q, "removeMeta")
PutFollows(q) ==
    q \in DOMAIN aux.put => q \in DOMAIN aux.meta /\ aux.meta[q].repo = aux.put[q]
\* What an update has read is still so.
UpdatesFollow(q) ==
    \A u \in aux.updates : u.path = q /\ u.stage = "read" =>
        /\ q \in DOMAIN store /\ u.meta.hash = store[q]
        /\ q \in DOMAIN aux.meta => u.meta.repo = aux.meta[q].repo
\* What a request has read is still so.
MemoryFollows(q) ==
    /\ \A c \in Clients : Working(c, q, "createMeta") =>
         q \in DOMAIN store \ DOMAIN aux.meta /\ job[c].mem.hash = store[q]
    /\ \A c \in Clients : Working(c, q, "putMeta") =>
         q \in DOMAIN aux.meta /\ job[c].mem = aux.meta[q]
FileSound(q) == MetaFollows(q) /\ PutFollows(q) /\ UpdatesFollow(q) /\ MemoryFollows(q)

LocalInv ==
    kind = "localFiles" =>
        FileJobs /\ FileTables /\ \A q \in LocalPaths : Overtook(q) \/ FileSound(q)

-----------------------------------------------------------------------------
(* What a step does to the requests.                                       *)

\* One request becomes another.
LEMMA FileJobChanged ==
  ASSUME FileJobs, NEW c \in Clients, NEW j, FileJob(j), job' = [job EXCEPT ![c] = j]
  PROVE  FileJobs' /\ job'[c] = j /\ \A d \in Clients \ {c} : job'[d] = job[d]
<1>1. job = [d \in Clients |-> job[d]]
  BY DEF FileJobs
<1>2. job' = [d \in Clients |-> job'[d]] /\ job'[c] = j /\ \A d \in Clients \ {c} : job'[d] = job[d]
  BY <1>1
<1>3. \A d \in Clients : FileJob(job'[d])
  BY <1>2 DEF FileJobs
<1> QED BY <1>2, <1>3 DEF FileJobs

\* What may be assumed of a request at one of its steps.
LEMMA FileJobAt ==
  ASSUME FileJobs, NEW c \in Clients, NEW x, At(c, x)
  PROVE  /\ x \in FileSteps /\ RequestShape(job[c]) /\ job[c].path \in LocalPaths
         /\ Working(c, job[c].path, x)
         /\ job[c].reads = IF x \in Relying THEN {<<"file", job[c].path>>} ELSE {}
         /\ x \in {"createMeta", "putMeta"} => MetaShape(job[c].mem)
         /\ x = "write" => job[c].path = SavedFile
         /\ x \in {"knownHash", "rename"} => job[c].path = BlobFile(job[c].body)
         /\ x = "knownHash" => Rest(c) = <<"rename">>
         /\ x = "removeFile" => Rest(c) = <<"removeMeta">>
         /\ x \in {"readMeta", "createMeta"} =>
              /\ Rest(c) \in {<<"readFile">>, <<"putMeta">>}
              /\ <<"createMeta">> \o Rest(c) \in
                   {<<"createMeta", "readFile">>, <<"createMeta", "putMeta">>}
<1>1. FileJob(job[c]) /\ job[c].plan # <<>> /\ Head(job[c].plan) = x
  BY DEF FileJobs, At
<1>2. job[c].plan \in FilePlans
  BY <1>1 DEF FileJob
<1>3. x \in FileSteps
  BY <1>1, <1>2, FilePlanHeads
<1>4. FileOnward(job[c].plan)
  BY <1>2, FilePlanOnward
<1>5. /\ x = "knownHash" => Rest(c) = <<"rename">>
      /\ x = "removeFile" => Rest(c) = <<"removeMeta">>
      /\ x \in {"readMeta", "createMeta"} =>
           /\ Rest(c) \in {<<"readFile">>, <<"putMeta">>}
           /\ <<"createMeta">> \o Rest(c) \in {<<"createMeta", "readFile">>, <<"createMeta", "putMeta">>}
  BY <1>1, <1>4 DEF FileOnward, Rest
<1> QED BY <1>1, <1>3, <1>5 DEF FileJob, Working

\* A request that answers is over.
LEMMA FileReplies ==
  ASSUME FileJobs, NEW c \in Clients, NEW code, NEW got, Reply(c, code, got)
  PROVE  /\ FileJobs' /\ \A d \in Clients \ {c} : job'[d] = job[d]
         /\ \A q, x : ~(Working(c, q, x)')
<1>1. PICK k : k = [NoJob EXCEPT !.op = job[c].op, !.code = code, !.got = got]
  OBVIOUS
<1>2. RequestShape(k) /\ k.plan = <<>> /\ k.reads = {}
  BY <1>1 DEF RequestShape, NoJob
<1>3. job' = [job EXCEPT ![c] = k] /\ FileJob(k)
  BY <1>1, <1>2 DEF Reply, FileJob
<1>4. FileJobs' /\ job'[c] = k /\ \A d \in Clients \ {c} : job'[d] = job[d]
  BY <1>3, FileJobChanged
<1> QED BY <1>2, <1>4 DEF Working, At

\* A request that fails is over: nothing of it is logged only.
LEMMA FileAborts ==
  ASSUME FileJobs, NEW c \in Clients, job[c].plan # <<>>, NEW code, Abort(c, code)
  PROVE  Reply(c, code, Nothing)
<1>1. job[c].plan \in FilePlans
  BY DEF FileJobs, FileJob
<1>2. Logged(c) = {}
  BY <1>1, FilePlanHeads DEF Logged
<1> QED BY <1>2 DEF Abort

\* The request after it goes on, remembering and relying on something else.
LEMMA Recalled ==
  ASSUME NEW c \in Clients, job = [d \in Clients |-> job[d]], RequestShape(job[c]),
         NEW plan, NEW mem, NEW reads, Recall(c, plan, mem, reads)
  PROVE  \E k : /\ job' = [job EXCEPT ![c] = k] /\ RequestShape(k)
                /\ k.plan = plan /\ k.mem = mem /\ k.reads = reads /\ k.path = job[c].path
                /\ k.body = job[c].body /\ k.op = job[c].op /\ k.p = job[c].p /\ k.v = job[c].v
<1>1. PICK j, k : j = job[c] /\ k = [j EXCEPT !.plan = plan, !.mem = mem, !.reads = reads]
  OBVIOUS
<1>2. /\ RequestShape(k) /\ k.plan = plan /\ k.mem = mem /\ k.reads = reads /\ k.path = j.path
      /\ k.body = j.body /\ k.op = j.op /\ k.p = j.p /\ k.v = j.v
  BY <1>1 DEF RequestShape
<1>3. job' = [job EXCEPT ![c] = k]
  <2>1. job' = [job EXCEPT ![c] = [job[c] EXCEPT !.plan = plan, !.mem = mem, !.reads = reads]]
    BY DEF Recall, RequestShape
  <2> QED BY <1>1, <2>1
<1> QED BY <1>1, <1>2, <1>3

\* The request after it goes on with what it has.
LEMMA WentOn ==
  ASSUME NEW c \in Clients, job = [d \in Clients |-> job[d]], RequestShape(job[c]),
         NEW plan, Goto(c, plan)
  PROVE  \E k : /\ job' = [job EXCEPT ![c] = k] /\ RequestShape(k)
                /\ k.plan = plan /\ k.mem = job[c].mem /\ k.reads = job[c].reads /\ k.path = job[c].path
                /\ k.body = job[c].body /\ k.op = job[c].op /\ k.p = job[c].p /\ k.v = job[c].v
<1>1. PICK j, k : j = job[c] /\ k = [j EXCEPT !.plan = plan]
  OBVIOUS
<1>2. /\ RequestShape(k) /\ k.plan = plan /\ k.mem = j.mem /\ k.reads = j.reads /\ k.path = j.path
      /\ k.body = j.body /\ k.op = j.op /\ k.p = j.p /\ k.v = j.v
  BY <1>1 DEF RequestShape
<1>3. job' = [job EXCEPT ![c] = k]
  BY <1>1 DEF Goto
<1> QED BY <1>1, <1>2, <1>3

\* A request of the file storage goes on.
LEMMA FileGoesOn ==
  ASSUME FileJobs, NEW c \in Clients, NEW k, FileJob(k), k.plan # <<>>,
         job' = [job EXCEPT ![c] = k]
  PROVE  /\ FileJobs' /\ \A d \in Clients \ {c} : job'[d] = job[d]
         /\ \A q, z : Working(c, q, z)' <=> q = k.path /\ z = Head(k.plan)
         /\ job'[c].mem = k.mem
<1>1. FileJobs' /\ job'[c] = k /\ \A d \in Clients \ {c} : job'[d] = job[d]
  BY FileJobChanged
<1> QED BY <1>1 DEF Working, At

-----------------------------------------------------------------------------
(* What a step does to the paths.                                          *)

\* The file, its metadata and its updates are what they were.
SameFile(q) ==
    /\ (q \in DOMAIN store' <=> q \in DOMAIN store) /\ (q \in DOMAIN store => store'[q] = store[q])
    /\ (q \in DOMAIN aux'.meta <=> q \in DOMAIN aux.meta)
    /\ q \in DOMAIN aux.meta => aux'.meta[q] = aux.meta[q]
    /\ (q \in DOMAIN aux'.put <=> q \in DOMAIN aux.put) /\ (q \in DOMAIN aux.put => aux'.put[q] = aux.put[q])
    /\ {u \in aux'.updates : u.path = q} = {u \in aux.updates : u.path = q}
\* The requests that may still write the metadata are where they were.
SameWriters(q) ==
    \A d \in Clients : \A x \in {"createMeta", "putMeta", "removeMeta"} :
        /\ Working(d, q, x)' <=> Working(d, q, x)
        /\ Working(d, q, x) => job'[d].mem = job[d].mem

\* A path that a step is not about keeps its invariant.
LEMMA FileElsewhere ==
  ASSUME NEW q, SameFile(q), SameWriters(q), FileSound(q) PROVE FileSound(q)'
<1>1. \A u : u.path = q => (u \in aux'.updates <=> u \in aux.updates)
  <2>1. ASSUME NEW u, u.path = q PROVE u \in aux'.updates <=> u \in aux.updates
    <3>1. /\ u \in aux'.updates <=> u \in {w \in aux'.updates : w.path = q}
          /\ u \in aux.updates <=> u \in {w \in aux.updates : w.path = q}
      BY <2>1
    <3>2. {w \in aux'.updates : w.path = q} = {w \in aux.updates : w.path = q}
      BY DEF SameFile
    <3> QED BY <3>1, <3>2
  <2> QED BY <2>1
<1>2. MetaFollows(q)'
  BY <1>1 DEF SameFile, SameWriters, FileSound, MetaFollows
<1>3. PutFollows(q)'
  BY DEF SameFile, FileSound, PutFollows
<1>4. UpdatesFollow(q)'
  BY <1>1 DEF SameFile, FileSound, UpdatesFollow
<1>5. MemoryFollows(q)'
  BY DEF SameFile, SameWriters, FileSound, MemoryFollows
<1> QED BY <1>2, <1>3, <1>4, <1>5 DEF FileSound

\* The invariant, from what a step does to each path.
LEMMA LocalKept ==
  ASSUME LocalInv, kind = "localFiles", raced \subseteq raced', broken \subseteq broken',
         aux.lost \subseteq aux'.lost, FileJobs', FileTables',
         \A q \in LocalPaths : \/ SameFile(q) /\ SameWriters(q)
                               \/ Overtook(q)' \/ FileSound(q)'
  PROVE  LocalInv'
<1>1. ASSUME NEW q \in LocalPaths PROVE Overtook(q)' \/ FileSound(q)'
  <2>1. Overtook(q) \/ FileSound(q)
    BY DEF LocalInv
  <2>2. Overtook(q) => Overtook(q)'
    BY DEF Overtook
  <2>3. CASE SameFile(q) /\ SameWriters(q)
    BY <2>1, <2>2, <2>3, FileElsewhere
  <2> QED BY <2>3
<1> QED BY <1>1 DEF LocalInv

\* Where a write leaves a path undisturbed, nobody had read it.
LEMMA NobodyOvertaken ==
  ASSUME LocalInv, kind = "localFiles", NEW c \in Clients, NEW q \in LocalPaths, Overtakes(c, q),
         broken' = broken, aux'.lost = aux.lost
  PROVE  /\ raced \subseteq raced'
         /\ Overtook(q)' \/ /\ FileSound(q)
                            /\ \A d \in Clients \ {c} : \A x \in Relying : ~Working(d, q, x)
                            /\ \A u \in aux.updates : u.path = q => u.stage # "read"
<1>1. raced \subseteq raced'
  BY DEF Overtakes
<1>2. SUFFICES ASSUME ~(Overtook(q)')
               PROVE  /\ FileSound(q)
                      /\ \A d \in Clients \ {c} : \A x \in Relying : ~Working(d, q, x)
                      /\ \A u \in aux.updates : u.path = q => u.stage # "read"
  BY <1>1
<1>3. FileSound(q)
  <2>1. ~Overtook(q)
    BY <1>1, <1>2 DEF Overtook
  <2> QED BY <2>1 DEF LocalInv
<1>4. ASSUME NEW d \in Clients \ {c}, NEW x \in Relying, Working(d, q, x) PROVE FALSE
  <2>1. FileJobs
    BY DEF LocalInv
  <2>2. <<"file", q>> \in job[d].reads
    BY <1>4, <2>1, FileJobAt DEF Working
  <2>3. <<"file", q>> \in Overtaken(c, {<<"file", q>>})
    BY <1>4, <2>2 DEF Overtaken
  <2> QED BY <1>2, <2>3 DEF Overtakes, Overtook
<1>5. ASSUME NEW u \in aux.updates, u.path = q, u.stage = "read" PROVE FALSE
  <2>1. <<"file", u.path>> \in {<<"file", w.path>> : w \in {w \in aux.updates : w.path = q /\ w.stage = "read"}}
    BY <1>5
  <2> QED BY <1>2, <1>5, <2>1 DEF Overtakes, Overtook
<1> QED BY <1>3, <1>4, <1>5

\* A step that writes nothing.
LEMMA NothingWritten ==
  ASSUME aux' = aux, store' = store
  PROVE  /\ \A q : SameFile(q)
         /\ FileTables => FileTables'
         /\ aux.lost \subseteq aux'.lost
  BY DEF SameFile, FileTables

\* A step of one request that writes nothing and leaves it where it writes no metadata.
LEMMA QuietKeeps ==
  ASSUME LocalInv, kind = "localFiles", aux' = aux, store' = store,
         raced \subseteq raced', broken \subseteq broken', NEW c \in Clients, FileJobs',
         \A d \in Clients \ {c} : job'[d] = job[d],
         \A q : \A x \in {"createMeta", "putMeta", "removeMeta"} :
            ~Working(c, q, x) /\ ~(Working(c, q, x)')
  PROVE  LocalInv'
<1>1. \A q : SameWriters(q)
  BY DEF SameWriters, Working, At
<1>2. FileTables
  BY DEF LocalInv
<1> QED BY <1>1, <1>2, NothingWritten, LocalKept

\* The requests start with a step that relies on nothing.
LEMMA FileRequestJob ==
  ASSUME NEW op, NEW path \in LocalPaths, NEW body, NEW plan \in FilePlans,
         Head(plan) \in {"write", "knownHash", "readMeta", "removeFile"},
         Head(plan) = "write" => path = SavedFile,
         Head(plan) = "knownHash" => path = BlobFile(body)
  PROVE  /\ FileJob(FileRequest(op, path, body, plan))
         /\ FileRequest(op, path, body, plan).plan = plan
<1>1. PICK r : r = FileRequest(op, path, body, plan)
  OBVIOUS
<1>2. RequestShape(r) /\ r.path = path /\ r.plan = plan /\ r.reads = {} /\ r.body = body
  BY <1>1 DEF RequestShape, FileRequest, NoJob
<1>3. plan # <<>>
  BY FilePlanHeads
<1>4. Head(plan) \notin Relying
  BY DEF Relying
<1> QED BY <1>1, <1>2, <1>3, <1>4 DEF FileJob

\* A request starts.
LEMMA FileStartKeeps ==
  ASSUME LocalInv, kind = "localFiles", NEW c \in Clients, NEW r, Start(c, r), FileJob(r),
         Head(r.plan) \in {"write", "knownHash", "readMeta", "removeFile"}
  PROVE  LocalInv'
<1>1. /\ job[c].plan = <<>> /\ job' = [job EXCEPT ![c] = r] /\ store' = store /\ aux' = aux
      /\ raced' = raced /\ broken' = broken
  BY DEF Start, Free, Idle, historyVars
<1>2. FileJobs
  BY DEF LocalInv
<1>3. FileJobs' /\ job'[c] = r /\ \A d \in Clients \ {c} : job'[d] = job[d]
  BY <1>1, <1>2, FileJobChanged
<1>4. ASSUME NEW q, NEW x \in {"createMeta", "putMeta", "removeMeta"}
      PROVE ~Working(c, q, x) /\ ~(Working(c, q, x)')
  BY <1>1, <1>3 DEF Working, At
<1> QED BY <1>1, <1>3, <1>4, QuietKeeps

\* Save, move, read, delete, and attach.
LEMMA FileStartsKeep ==
  ASSUME LocalInv, kind = "localFiles", NEW c \in Clients,
         FileSave(c) \/ FileMove(c) \/ FileRead(c) \/ FileDelete(c) \/ FilePut(c)
  PROVE  LocalInv'
<1>1. ASSUME NEW op, NEW path \in LocalPaths, NEW body, NEW plan \in FilePlans,
             Head(plan) \in {"write", "knownHash", "readMeta", "removeFile"},
             Head(plan) = "write" => path = SavedFile,
             Head(plan) = "knownHash" => path = BlobFile(body),
             Start(c, FileRequest(op, path, body, plan))
      PROVE  LocalInv'
  <2>1. PICK r : r = FileRequest(op, path, body, plan)
    OBVIOUS
  <2>2. FileJob(r) /\ r.plan = plan
    BY <1>1, <2>1, FileRequestJob
  <2>3. Start(c, r)
    BY <1>1, <2>1
  <2> QED BY <1>1, <2>2, <2>3, FileStartKeeps
<1>2. /\ Head(<<"write">>) = "write" /\ Head(<<"knownHash", "rename">>) = "knownHash"
      /\ Head(<<"readMeta", "readFile">>) = "readMeta" /\ Head(<<"readMeta", "putMeta">>) = "readMeta"
      /\ Head(<<"removeFile", "removeMeta">>) = "removeFile"
  OBVIOUS
<1>3. /\ <<"write">> \in FilePlans /\ <<"knownHash", "rename">> \in FilePlans
      /\ <<"readMeta", "readFile">> \in FilePlans /\ <<"readMeta", "putMeta">> \in FilePlans
      /\ <<"removeFile", "removeMeta">> \in FilePlans
  BY DEF FilePlans
<1>4. CASE FileSave(c)
  <2>1. PICK b \in Bodies : Start(c, FileRequest("save", SavedFile, b, <<"write">>))
    BY <1>4 DEF FileSave
  <2>2. SavedFile \in LocalPaths
    BY DEF LocalPaths
  <2> QED BY <1>1, <1>2, <1>3, <2>1, <2>2
<1>5. CASE FileMove(c)
  <2>1. PICK b \in Bodies : Start(c, FileRequest("move", BlobFile(b), b, <<"knownHash", "rename">>))
    BY <1>5 DEF FileMove
  <2>2. BlobFile(b) \in LocalPaths
    BY DEF LocalPaths
  <2> QED BY <1>1, <1>2, <1>3, <2>1, <2>2
<1>6. CASE FileRead(c)
  <2>1. PICK path \in LocalPaths : Start(c, FileRequest("read", path, Blank, <<"readMeta", "readFile">>))
    BY <1>6 DEF FileRead
  <2> QED BY <1>1, <1>2, <1>3, <2>1
<1>7. CASE FileDelete(c)
  <2>1. PICK path \in LocalPaths :
          Start(c, FileRequest("remove", path, Blank, <<"removeFile", "removeMeta">>))
    BY <1>7 DEF FileDelete
  <2> QED BY <1>1, <1>2, <1>3, <2>1
<1>8. CASE FilePut(c)
  <2>1. PICK path \in LocalPaths, r \in {"one", "two"} :
          Start(c, FileRequest("put", path, r, <<"readMeta", "putMeta">>))
    BY <1>8 DEF FilePut
  <2> QED BY <1>1, <1>2, <1>3, <2>1
<1> QED BY <1>4, <1>5, <1>6, <1>7, <1>8

-----------------------------------------------------------------------------
(* The steps that write nothing.                                           *)

\* Reading the file answers.
LEMMA ReadFileKeeps ==
  ASSUME LocalInv, kind = "localFiles", NEW c \in Clients, ReadFile(c) PROVE LocalInv'
<1>1. FileJobs /\ At(c, "readFile") /\ store' = store /\ aux' = aux /\ raced' = raced /\ broken' = broken
  BY DEF LocalInv, ReadFile, historyVars
<1>2. PICK code, got : Reply(c, code, got)
  BY DEF ReadFile
<1>3. /\ FileJobs' /\ \A d \in Clients \ {c} : job'[d] = job[d]
      /\ \A q, x : ~(Working(c, q, x)')
  BY <1>1, <1>2, FileReplies
<1> QED BY <1>1, <1>3, QuietKeeps DEF Working, At

\* Reading the metadata: what is remembered is what is there.
LEMMA ReadMetaKeeps ==
  ASSUME LocalInv, kind = "localFiles", NEW c \in Clients, ReadMeta(c) PROVE LocalInv'
<1>0. PICK p : p = job[c].path
  OBVIOUS
<1>1. /\ FileJobs /\ FileTables /\ At(c, "readMeta") /\ store' = store /\ aux' = aux
      /\ raced' = raced /\ broken' = broken
  BY DEF LocalInv, ReadMeta, historyVars
<1>2. /\ RequestShape(job[c]) /\ p \in LocalPaths
      /\ Rest(c) \in {<<"readFile">>, <<"putMeta">>}
      /\ <<"createMeta">> \o Rest(c) \in {<<"createMeta", "readFile">>, <<"createMeta", "putMeta">>}
  BY <1>0, <1>1, FileJobAt
<1>3. CASE Reply(c, 404, Nothing)
  <2>1. /\ FileJobs' /\ \A d \in Clients \ {c} : job'[d] = job[d]
        /\ \A q, x : ~(Working(c, q, x)')
    BY <1>1, <1>3, FileReplies
  <2> QED BY <1>1, <2>1, QuietKeeps DEF Working, At
<1>4. ASSUME NEW plan \in FilePlans, NEW mem, Recall(c, plan, mem, {<<"file", p>>}), MetaShape(mem),
             Head(plan) \in {"createMeta", "readFile", "putMeta"},
             FileSound(p) => /\ Head(plan) = "createMeta" =>
                                  p \in DOMAIN store \ DOMAIN aux.meta /\ mem.hash = store[p]
                             /\ Head(plan) = "putMeta" => p \in DOMAIN aux.meta /\ mem = aux.meta[p]
      PROVE  LocalInv'
  <2>1. PICK k : /\ job' = [job EXCEPT ![c] = k] /\ RequestShape(k)
                 /\ k.plan = plan /\ k.mem = mem /\ k.reads = {<<"file", p>>}
                 /\ k.path = job[c].path /\ k.body = job[c].body
    <3>1. job = [d \in Clients |-> job[d]]
      BY <1>1 DEF FileJobs
    <3> QED BY <1>2, <1>4, <3>1, Recalled
  <2>2. PICK y : y = Head(plan)
    OBVIOUS
  <2>3. y \in Relying /\ y # "write" /\ y \notin {"knownHash", "rename"}
    BY <1>4, <2>2 DEF Relying
  <2>4. /\ FileJobs' /\ \A d \in Clients \ {c} : job'[d] = job[d]
        /\ \A q, z : Working(c, q, z)' <=> q = p /\ z = y
        /\ job'[c].mem = mem
    <3>1. k.plan # <<>>
      BY <2>1, FilePlanHeads
    <3>2. FileJob(k)
      BY <1>0, <1>2, <1>4, <2>1, <2>2, <2>3, <3>1 DEF FileJob
    <3>3. /\ FileJobs' /\ \A d \in Clients \ {c} : job'[d] = job[d]
          /\ \A q, z : Working(c, q, z)' <=> q = k.path /\ z = Head(k.plan)
          /\ job'[c].mem = k.mem
      BY <1>1, <2>1, <3>1, <3>2, FileGoesOn
    <3> QED BY <1>0, <2>1, <2>2, <3>3
  <2>5. \A q \in LocalPaths : SameFile(q)
    BY <1>1, NothingWritten
  <2>6. FileTables' /\ aux.lost \subseteq aux'.lost
    BY <1>1, NothingWritten
  <2>7. ASSUME NEW q \in LocalPaths, q # p PROVE SameWriters(q)
    <3>1. ASSUME NEW x \in {"createMeta", "putMeta", "removeMeta"} PROVE ~Working(c, q, x) /\ ~(Working(c, q, x)')
      <4>1. ~Working(c, q, x)
        BY <1>1 DEF Working, At
      <4>2. ~(Working(c, q, x)')
        BY <2>4, <2>7
      <4> QED BY <4>1, <4>2
    <3>2. ASSUME NEW d \in Clients \ {c} PROVE job'[d] = job[d] /\ \A x : Working(d, q, x)' <=> Working(d, q, x)
      BY <2>4 DEF Working, At
    <3> QED BY <3>1, <3>2 DEF SameWriters
  <2>8. Overtook(p)' \/ FileSound(p)'
    <3>1. Overtook(p) => Overtook(p)'
      BY <1>1 DEF Overtook
    <3>2. ASSUME FileSound(p) PROVE FileSound(p)'
      <4>1. \A d \in Clients \ {c} : \A x : Working(d, p, x)' <=> Working(d, p, x)
        BY <2>4 DEF Working, At
      <4>2. MetaFollows(p)'
        <5>1. ASSUME NEW d \in Clients, Working(d, p, "removeMeta") PROVE Working(d, p, "removeMeta")'
          BY <1>1, <4>1, <5>1 DEF Working, At
        <5> QED BY <1>1, <3>2, <5>1 DEF FileSound, MetaFollows
      <4>3. PutFollows(p)' /\ UpdatesFollow(p)'
        BY <1>1, <3>2 DEF FileSound, PutFollows, UpdatesFollow
      <4>4. MemoryFollows(p)'
        <5>1. ASSUME NEW d \in Clients \ {c}
              PROVE  /\ Working(d, p, "createMeta")' =>
                           p \in DOMAIN store \ DOMAIN aux.meta /\ job'[d].mem.hash = store[p]
                     /\ Working(d, p, "putMeta")' => p \in DOMAIN aux.meta /\ job'[d].mem = aux.meta[p]
          BY <2>4, <3>2, <4>1, <5>1 DEF FileSound, MemoryFollows
        <5>2. /\ Working(c, p, "createMeta")' =>
                    p \in DOMAIN store \ DOMAIN aux.meta /\ job'[c].mem.hash = store[p]
              /\ Working(c, p, "putMeta")' => p \in DOMAIN aux.meta /\ job'[c].mem = aux.meta[p]
          <6>1. ASSUME NEW z, Working(c, p, z)' PROVE z = Head(plan)
            BY <2>2, <2>4, <6>1
          <6>2. job'[c].mem = mem
            BY <2>4
          <6>3. CASE Working(c, p, "createMeta")'
            BY <1>4, <3>2, <6>1, <6>2, <6>3
          <6>4. CASE Working(c, p, "putMeta")'
            BY <1>4, <3>2, <6>1, <6>2, <6>4
          <6>5. "createMeta" # "putMeta"
            OBVIOUS
          <6> QED BY <6>1, <6>3, <6>4, <6>5
        <5> QED BY <1>1, <5>1, <5>2 DEF MemoryFollows
      <4> QED BY <4>2, <4>3, <4>4 DEF FileSound
    <3> QED BY <1>2, <3>1, <3>2 DEF LocalInv
  <2> QED BY <1>1, <2>4, <2>5, <2>6, <2>7, <2>8, LocalKept
<1>5. CASE p \in DOMAIN store \cap DOMAIN aux.meta /\ Recall(c, Rest(c), aux.meta[p], {<<"file", p>>})
  <2>1. PICK plan : plan = Rest(c)
    OBVIOUS
  <2>2. plan \in FilePlans /\ Head(plan) \in {"readFile", "putMeta"}
    BY <1>2, <2>1 DEF FilePlans
  <2>3. MetaShape(aux.meta[p])
    BY <1>1, <1>5 DEF FileTables
  <2> QED BY <1>4, <1>5, <2>1, <2>2, <2>3
<1>6. CASE /\ p \in DOMAIN store \ DOMAIN aux.meta
           /\ Recall(c, <<"createMeta">> \o Rest(c), NewMeta(p), {<<"file", p>>})
  <2>1. PICK plan, mem : plan = <<"createMeta">> \o Rest(c) /\ mem = NewMeta(p)
    OBVIOUS
  <2>2. plan \in FilePlans /\ Head(plan) = "createMeta"
    BY <1>2, <2>1 DEF FilePlans
  <2>3. MetaShape(mem) /\ mem.hash = store[p]
    BY <2>1 DEF MetaShape, NewMeta
  <2> QED BY <1>4, <1>6, <2>1, <2>2, <2>3
<1> QED BY <1>0, <1>3, <1>5, <1>6 DEF ReadMeta

-----------------------------------------------------------------------------
(* The steps that write.                                                   *)

\* A request writes to its path: what is left to show is that the path is as it should be if
\* nobody else had read it.
LEMMA WriteKeeps ==
  ASSUME LocalInv, kind = "localFiles", NEW c \in Clients, NEW p \in LocalPaths, p = job[c].path,
         Overtakes(c, p), broken' = broken, aux'.lost = aux.lost, FileJobs', FileTables',
         \A d \in Clients \ {c} : job'[d] = job[d],
         \A q, x : Working(c, q, x)' => q = p,
         \A q \in LocalPaths \ {p} : SameFile(q),
         FileSound(p) /\ (\A d \in Clients \ {c} : \A x \in Relying : ~(Working(d, p, x)'))
                      /\ (\A u \in aux.updates : u.path = p => u.stage # "read")
           => FileSound(p)'
  PROVE  LocalInv'
<1>1. /\ raced \subseteq raced'
      /\ Overtook(p)' \/ /\ FileSound(p)
                         /\ \A d \in Clients \ {c} : \A x \in Relying : ~Working(d, p, x)
                         /\ \A u \in aux.updates : u.path = p => u.stage # "read"
  BY NobodyOvertaken
<1>2. \A d \in Clients \ {c} : \A x : Working(d, p, x)' <=> Working(d, p, x)
  BY DEF Working, At
<1>3. Overtook(p)' \/ FileSound(p)'
  BY <1>1, <1>2
<1>4. ASSUME NEW q \in LocalPaths \ {p} PROVE SameWriters(q)
  <2>1. ASSUME NEW x PROVE ~Working(c, q, x) /\ ~(Working(c, q, x)')
    BY DEF Working
  <2> QED BY <2>1 DEF SameWriters, Working, At
<1> QED BY <1>1, <1>3, <1>4, LocalKept

\* A save or a rename: the metadata of a file that was there are brought up to date later.
LEMMA FileWriteKeeps ==
  ASSUME LocalInv, kind = "localFiles", NEW c \in Clients, FileWrite(c) PROVE LocalInv'
<1>1. PICK p, b : p = job[c].path /\ b = job[c].body
  OBVIOUS
<1>2. /\ FileJobs /\ FileTables /\ (At(c, "write") \/ At(c, "rename"))
      /\ store' = Put(store, p, b) /\ aux' = SaveQueues(c, p) /\ Overtakes(c, p)
      /\ Reply(c, 200, Nothing) /\ broken' = broken
  BY <1>1 DEF LocalInv, FileWrite
<1>3. p \in LocalPaths /\ (p = SavedFile \/ p = BlobFile(b))
  BY <1>1, <1>2, FileJobAt
<1>4. /\ FileJobs' /\ \A d \in Clients \ {c} : job'[d] = job[d]
      /\ \A q, x : ~(Working(c, q, x)')
  BY <1>2, FileReplies
<1>5. PICK w : w = Queued(p)
  OBVIOUS
<1>6. UpdateShape(w) /\ w.path = p /\ w.stage = "queued"
  BY <1>5 DEF UpdateShape, Queued
<1>7. /\ LocalShape(aux') /\ aux'.meta = aux.meta /\ aux'.known = aux.known /\ aux'.lost = aux.lost
      /\ aux'.put = aux.put
      /\ aux'.updates = IF p \in DOMAIN store THEN aux.updates \cup {w} ELSE aux.updates
  BY <1>2, <1>5 DEF SaveQueues, FileTables, LocalShape
<1>8. /\ DOMAIN store' = DOMAIN store \cup {p} /\ store'[p] = b
      /\ \A q \in DOMAIN store \ {p} : store'[q] = store[q]
  BY <1>2 DEF Put
<1>9. FileTables'
  <2>1. \A q \in DOMAIN store' : q = SavedFile \/ q = BlobFile(store'[q])
    BY <1>2, <1>3, <1>8 DEF FileTables
  <2>2. \A u \in aux'.updates : UpdateIs(u)
    <3>1. UpdateIs(w)
      BY <1>3, <1>6 DEF UpdateIs
    <3>2. \A u \in aux.updates : UpdateIs(u)
      BY <1>2 DEF FileTables
    <3> QED BY <1>7, <3>1, <3>2
  <2> QED BY <1>2, <1>7, <2>1, <2>2 DEF FileTables
<1>10. ASSUME NEW q \in LocalPaths \ {p} PROVE SameFile(q)
  <2>1. {u \in aux'.updates : u.path = q} = {u \in aux.updates : u.path = q}
    BY <1>6, <1>7
  <2> QED BY <1>7, <1>8, <2>1 DEF SameFile
<1>11. ASSUME FileSound(p), \A d \in Clients \ {c} : \A x \in Relying : ~(Working(d, p, x)'),
              \A u \in aux.updates : u.path = p => u.stage # "read"
       PROVE  FileSound(p)'
  <2>1. ~Working(c, p, "removeMeta")
    BY <1>2 DEF Working, At
  <2>2. \A d \in Clients : \A x \in Relying : ~(Working(d, p, x)')
    BY <1>4, <1>11
  <2>3. MetaFollows(p)'
    <3>1. SUFFICES ASSUME p \in DOMAIN aux.meta, p \notin DOMAIN store PROVE FALSE
      BY <1>6, <1>7, <1>8 DEF MetaFollows
    <3>2. PICK d \in Clients : Working(d, p, "removeMeta")
      BY <1>11, <3>1 DEF FileSound, MetaFollows
    <3>3. d # c
      BY <2>1, <3>2
    <3>4. Working(d, p, "removeMeta")'
      BY <1>4, <3>2, <3>3 DEF Working, At
    <3> QED BY <2>2, <3>4 DEF Relying
  <2>4. PutFollows(p)'
    BY <1>7, <1>11 DEF FileSound, PutFollows
  <2>5. UpdatesFollow(p)'
    BY <1>6, <1>7, <1>11 DEF UpdatesFollow
  <2>6. MemoryFollows(p)'
    BY <2>2 DEF MemoryFollows, Relying
  <2> QED BY <2>3, <2>4, <2>5, <2>6 DEF FileSound
<1> QED BY <1>1, <1>2, <1>3, <1>4, <1>7, <1>9, <1>10, <1>11, WriteKeeps

\* The hash of an upload that is complete is kept for the file it becomes.
LEMMA KnownHashKeeps ==
  ASSUME LocalInv, kind = "localFiles", NEW c \in Clients, KnownHash(c) PROVE LocalInv'
<1>1. PICK p, b : p = job[c].path /\ b = job[c].body
  OBVIOUS
<1>2. /\ FileJobs /\ FileTables /\ At(c, "knownHash") /\ store' = store
      /\ aux' = [aux EXCEPT !.known = Put(@, p, b)] /\ Advance(c)
      /\ raced' = raced /\ broken' = broken
  BY <1>1 DEF LocalInv, KnownHash, historyVars
<1>3. /\ p \in LocalPaths /\ p = BlobFile(b) /\ Rest(c) = <<"rename">> /\ job[c].reads = {}
  BY <1>1, <1>2, FileJobAt DEF Relying
<1>4. <<"rename">> \in FilePlans /\ Head(<<"rename">>) = "rename"
  BY DEF FilePlans
<1>5. /\ FileJobs' /\ \A d \in Clients \ {c} : job'[d] = job[d]
      /\ \A q, y : Working(c, q, y)' <=> q = p /\ y = "rename"
  <2>1. PICK plan : plan = Rest(c)
    OBVIOUS
  <2>2. PICK k : /\ job' = [job EXCEPT ![c] = k] /\ RequestShape(k)
                 /\ k.plan = plan /\ k.reads = job[c].reads
                 /\ k.path = job[c].path /\ k.body = job[c].body
    <3>1. job = [d \in Clients |-> job[d]] /\ RequestShape(job[c])
      BY <1>2 DEF FileJobs, FileJob
    <3> QED BY <1>2, <2>1, <3>1, WentOn DEF Advance
  <2>3. PICK y : y = Head(plan)
    OBVIOUS
  <2>4. y = "rename" /\ y \notin Relying /\ plan \in FilePlans
    BY <1>3, <1>4, <2>1, <2>3 DEF Relying
  <2>5. k.plan # <<>>
    BY <2>2, <2>4, FilePlanHeads
  <2>6. FileJob(k)
    BY <1>1, <1>3, <2>2, <2>3, <2>4, <2>5 DEF FileJob
  <2>7. /\ FileJobs' /\ \A d \in Clients \ {c} : job'[d] = job[d]
        /\ \A q, z : Working(c, q, z)' <=> q = k.path /\ z = Head(k.plan)
    BY <1>2, <2>2, <2>5, <2>6, FileGoesOn
  <2> QED BY <1>1, <2>2, <2>3, <2>4, <2>7
<1>6. /\ LocalShape(aux') /\ aux'.meta = aux.meta /\ aux'.updates = aux.updates
      /\ aux'.lost = aux.lost /\ aux'.put = aux.put /\ aux'.known = Put(aux.known, p, b)
  BY <1>2 DEF FileTables, LocalShape
<1>7. FileTables'
  <2>1. \A q \in DOMAIN aux'.known : q = BlobFile(aux'.known[q])
    BY <1>2, <1>3, <1>6 DEF FileTables, Put
  <2> QED BY <1>2, <1>6, <2>1 DEF FileTables
<1>8. \A q : SameFile(q)
  BY <1>2, <1>6 DEF SameFile
<1>9. \A q : SameWriters(q)
  BY <1>2, <1>5 DEF SameWriters, Working, At
<1> QED BY <1>2, <1>5, <1>6, <1>7, <1>8, <1>9, LocalKept

\* The metadata of a new file are made by its first reader.
LEMMA CreateMetaKeeps ==
  ASSUME LocalInv, kind = "localFiles", NEW c \in Clients, CreateMeta(c) PROVE LocalInv'
<1>1. PICK p, m : p = job[c].path /\ m = job[c].mem
  OBVIOUS
<1>2. /\ FileJobs /\ FileTables /\ At(c, "createMeta") /\ store' = store
      /\ aux' = [aux EXCEPT !.meta = Put(@, p, m)] /\ Advance(c) /\ Overtakes(c, p)
      /\ broken' = broken
  BY <1>1 DEF LocalInv, CreateMeta
<1>3. /\ p \in LocalPaths /\ MetaShape(m) /\ Rest(c) \in {<<"readFile">>, <<"putMeta">>}
      /\ job[c].reads = {<<"file", p>>} /\ Working(c, p, "createMeta")
  BY <1>1, <1>2, FileJobAt DEF Relying
<1>4. PICK plan : plan = Rest(c)
  OBVIOUS
<1>5. plan \in FilePlans /\ Head(plan) \in {"readFile", "putMeta"}
  BY <1>3, <1>4 DEF FilePlans
<1>6. /\ FileJobs' /\ \A d \in Clients \ {c} : job'[d] = job[d]
      /\ \A q, y : Working(c, q, y)' <=> q = p /\ y = Head(plan)
      /\ job'[c].mem = m
  <2>1. PICK k : /\ job' = [job EXCEPT ![c] = k] /\ RequestShape(k)
                 /\ k.plan = plan /\ k.mem = job[c].mem /\ k.reads = job[c].reads
                 /\ k.path = job[c].path /\ k.body = job[c].body
    <3>1. job = [d \in Clients |-> job[d]] /\ RequestShape(job[c])
      BY <1>2 DEF FileJobs, FileJob
    <3> QED BY <1>2, <1>4, <3>1, WentOn DEF Advance
  <2>2. PICK y : y = Head(plan)
    OBVIOUS
  <2>3. y \in Relying /\ y # "write" /\ y \notin {"knownHash", "rename"}
    BY <1>5, <2>2 DEF Relying
  <2>4. k.reads = {<<"file", p>>} /\ MetaShape(k.mem)
    BY <1>1, <1>3, <2>1
  <2>5. k.plan # <<>>
    BY <1>5, <2>1, FilePlanHeads
  <2>6. FileJob(k)
    BY <1>1, <1>3, <1>5, <2>1, <2>2, <2>3, <2>4, <2>5 DEF FileJob
  <2>7. /\ FileJobs' /\ \A d \in Clients \ {c} : job'[d] = job[d]
        /\ \A q, z : Working(c, q, z)' <=> q = k.path /\ z = Head(k.plan)
        /\ job'[c].mem = k.mem
    BY <1>2, <2>1, <2>5, <2>6, FileGoesOn
  <2> QED BY <1>1, <2>1, <2>7
<1>7. /\ LocalShape(aux') /\ aux'.meta = Put(aux.meta, p, m) /\ aux'.updates = aux.updates
      /\ aux'.lost = aux.lost /\ aux'.put = aux.put /\ aux'.known = aux.known
  BY <1>2 DEF FileTables, LocalShape
<1>8. /\ DOMAIN aux'.meta = DOMAIN aux.meta \cup {p} /\ aux'.meta[p] = m
      /\ \A q \in DOMAIN aux.meta \ {p} : aux'.meta[q] = aux.meta[q]
  BY <1>7 DEF Put
<1>9. FileTables'
  <2>1. DOMAIN aux'.meta \subseteq LocalPaths /\ \A q \in DOMAIN aux'.meta : MetaShape(aux'.meta[q])
    BY <1>2, <1>3, <1>8 DEF FileTables
  <2> QED BY <1>2, <1>7, <2>1 DEF FileTables
<1>10. \A q \in LocalPaths \ {p} : SameFile(q)
  BY <1>2, <1>7, <1>8 DEF SameFile
<1>11. ASSUME FileSound(p), \A d \in Clients \ {c} : \A x \in Relying : ~(Working(d, p, x)'),
              \A u \in aux.updates : u.path = p => u.stage # "read"
       PROVE  FileSound(p)'
  <2>1. p \in DOMAIN store /\ p \notin DOMAIN aux.meta /\ m.hash = store[p]
    BY <1>1, <1>3, <1>11 DEF FileSound, MemoryFollows
  <2>2. MetaFollows(p)'
    BY <1>2, <1>8, <2>1 DEF MetaFollows
  <2>3. PutFollows(p)'
    BY <1>7, <1>11, <2>1 DEF FileSound, PutFollows
  <2>4. UpdatesFollow(p)'
    BY <1>7, <1>11 DEF UpdatesFollow
  <2>5. ~(Working(c, p, "createMeta")')
    BY <1>5, <1>6
  <2>6. MemoryFollows(p)'
    BY <1>6, <1>8, <1>11, <2>5 DEF MemoryFollows, Relying
  <2> QED BY <2>2, <2>3, <2>4, <2>6 DEF FileSound
<1>12. \A q, x : Working(c, q, x)' => q = p
  BY <1>6
<1> QED BY <1>1, <1>2, <1>3, <1>6, <1>7, <1>9, <1>10, <1>11, <1>12, WriteKeeps

\* A repository attaches its metadata to the file: all the request has read is written back.
LEMMA PutMetaKeeps ==
  ASSUME LocalInv, kind = "localFiles", NEW c \in Clients, PutMeta(c) PROVE LocalInv'
<1>1. PICK p, b, m : p = job[c].path /\ b = job[c].body /\ m = [job[c].mem EXCEPT !.repo = b]
  OBVIOUS
<1>2. /\ FileJobs /\ FileTables /\ At(c, "putMeta") /\ store' = store
      /\ aux' = [aux EXCEPT !.meta = Put(@, p, m), !.put = Put(@, p, b)]
      /\ Overtakes(c, p) /\ Reply(c, 200, Nothing) /\ broken' = broken
  BY <1>1 DEF LocalInv, PutMeta
<1>3. /\ p \in LocalPaths /\ MetaShape(job[c].mem) /\ Working(c, p, "putMeta")
  BY <1>1, <1>2, FileJobAt
<1>4. MetaShape(m) /\ m.repo = b /\ m.hash = job[c].mem.hash
  BY <1>1, <1>3 DEF MetaShape
<1>5. /\ FileJobs' /\ \A d \in Clients \ {c} : job'[d] = job[d]
      /\ \A q, x : ~(Working(c, q, x)')
  BY <1>2, FileReplies
<1>6. /\ LocalShape(aux') /\ aux'.meta = Put(aux.meta, p, m) /\ aux'.updates = aux.updates
      /\ aux'.lost = aux.lost /\ aux'.put = Put(aux.put, p, b) /\ aux'.known = aux.known
  BY <1>2 DEF FileTables, LocalShape
<1>7. /\ DOMAIN aux'.meta = DOMAIN aux.meta \cup {p} /\ aux'.meta[p] = m
      /\ \A q \in DOMAIN aux.meta \ {p} : aux'.meta[q] = aux.meta[q]
      /\ DOMAIN aux'.put = DOMAIN aux.put \cup {p} /\ aux'.put[p] = b
      /\ \A q \in DOMAIN aux.put \ {p} : aux'.put[q] = aux.put[q]
  BY <1>6 DEF Put
<1>8. FileTables'
  <2>1. /\ DOMAIN aux'.meta \subseteq LocalPaths /\ DOMAIN aux'.put \subseteq LocalPaths
        /\ \A q \in DOMAIN aux'.meta : MetaShape(aux'.meta[q])
    BY <1>2, <1>3, <1>4, <1>7 DEF FileTables
  <2> QED BY <1>2, <1>6, <2>1 DEF FileTables
<1>9. \A q \in LocalPaths \ {p} : SameFile(q)
  BY <1>2, <1>6, <1>7 DEF SameFile
<1>10. ASSUME FileSound(p), \A d \in Clients \ {c} : \A x \in Relying : ~(Working(d, p, x)'),
              \A u \in aux.updates : u.path = p => u.stage # "read"
       PROVE  FileSound(p)'
  <2>1. p \in DOMAIN aux.meta /\ job[c].mem = aux.meta[p]
    BY <1>3, <1>10 DEF FileSound, MemoryFollows
  <2>2. \A d \in Clients : \A x \in Relying : ~(Working(d, p, x)')
    BY <1>5, <1>10
  <2>3. MetaFollows(p)'
    <3>1. CASE p \in DOMAIN store
      BY <1>2, <1>4, <1>6, <1>7, <1>10, <2>1, <3>1 DEF FileSound, MetaFollows
    <3>2. CASE p \notin DOMAIN store
      <4>1. PICK d \in Clients : Working(d, p, "removeMeta")
        BY <1>10, <2>1, <3>2 DEF FileSound, MetaFollows
      <4>2. d # c
        BY <1>2, <4>1 DEF Working, At
      <4>3. Working(d, p, "removeMeta")'
        BY <1>5, <4>1, <4>2 DEF Working, At
      <4> QED BY <2>2, <4>3 DEF Relying
    <3> QED BY <3>1, <3>2
  <2>4. PutFollows(p)'
    BY <1>4, <1>7 DEF PutFollows
  <2>5. UpdatesFollow(p)'
    BY <1>6, <1>10 DEF UpdatesFollow
  <2>6. MemoryFollows(p)'
    BY <2>2 DEF MemoryFollows, Relying
  <2> QED BY <2>3, <2>4, <2>5, <2>6 DEF FileSound
<1> QED BY <1>1, <1>2, <1>3, <1>5, <1>6, <1>8, <1>9, <1>10, WriteKeeps

\* The file is deleted; its metadata go in the next step of the request.
LEMMA RemoveFileKeeps ==
  ASSUME LocalInv, kind = "localFiles", NEW c \in Clients, RemoveFile(c) PROVE LocalInv'
<1>1. PICK p : p = job[c].path
  OBVIOUS
<1>2. /\ FileJobs /\ FileTables /\ At(c, "removeFile") /\ aux' = aux /\ broken' = broken
  BY DEF LocalInv, RemoveFile
<1>3. /\ RequestShape(job[c]) /\ p \in LocalPaths /\ Rest(c) = <<"removeMeta">>
  BY <1>1, <1>2, FileJobAt
<1>4. CASE Reply(c, 404, Nothing) /\ store' = store /\ raced' = raced
  <2>1. /\ FileJobs' /\ \A d \in Clients \ {c} : job'[d] = job[d]
        /\ \A q, x : ~(Working(c, q, x)')
    BY <1>2, <1>4, FileReplies
  <2> QED BY <1>2, <1>4, <2>1, QuietKeeps DEF Working, At
<1>5. CASE /\ store' = Drop(store, {p}) /\ Overtakes(c, p)
           /\ job' = [job EXCEPT ![c].plan = Rest(c), ![c].reads = {<<"file", p>>}]
  <2>1. <<"removeMeta">> \in FilePlans /\ Head(<<"removeMeta">>) = "removeMeta"
    BY DEF FilePlans
  <2>2. PICK plan : plan = Rest(c)
    OBVIOUS
  <2>3. PICK k : /\ job' = [job EXCEPT ![c] = k] /\ RequestShape(k) /\ k.plan = plan
                 /\ k.reads = {<<"file", p>>} /\ k.path = job[c].path /\ k.body = job[c].body
    <3>1. PICK j, k : j = job[c] /\ k = [j EXCEPT !.plan = plan, !.reads = {<<"file", p>>}]
      OBVIOUS
    <3>2. /\ RequestShape(k) /\ k.plan = plan /\ k.reads = {<<"file", p>>} /\ k.path = j.path
          /\ k.body = j.body
      BY <1>3, <3>1 DEF RequestShape
    <3>3. job = [d \in Clients |-> job[d]]
      BY <1>2 DEF FileJobs
    <3>4. job' = [job EXCEPT ![c] = k]
      BY <1>3, <1>5, <2>2, <3>1, <3>3 DEF RequestShape
    <3> QED BY <3>1, <3>2, <3>4
  <2>4. PICK y : y = Head(plan)
    OBVIOUS
  <2>5. y = "removeMeta" /\ y \in Relying /\ plan \in FilePlans
    BY <1>3, <2>1, <2>2, <2>4 DEF Relying
  <2>6. /\ FileJobs' /\ \A d \in Clients \ {c} : job'[d] = job[d]
        /\ \A q, z : Working(c, q, z)' <=> q = p /\ z = "removeMeta"
    <3>1. k.plan # <<>>
      BY <2>3, <2>5, FilePlanHeads
    <3>2. FileJob(k)
      BY <1>1, <1>3, <2>3, <2>4, <2>5, <3>1 DEF FileJob
    <3>3. /\ FileJobs' /\ \A d \in Clients \ {c} : job'[d] = job[d]
          /\ \A q, z : Working(c, q, z)' <=> q = k.path /\ z = Head(k.plan)
      BY <1>2, <2>3, <3>1, <3>2, FileGoesOn
    <3> QED BY <1>1, <2>3, <2>4, <2>5, <3>3
  <2>7. DOMAIN store' = DOMAIN store \ {p} /\ \A q \in DOMAIN store' : store'[q] = store[q]
    BY <1>5 DEF Drop
  <2>8. FileTables'
    <3>1. \A q \in DOMAIN store' : q = SavedFile \/ q = BlobFile(store'[q])
      BY <1>2, <2>7 DEF FileTables
    <3> QED BY <1>2, <3>1 DEF FileTables
  <2>9. \A q \in LocalPaths \ {p} : SameFile(q)
    BY <1>2, <2>7 DEF SameFile
  <2>10. ASSUME FileSound(p), \A d \in Clients \ {c} : \A x \in Relying : ~(Working(d, p, x)'),
               \A u \in aux.updates : u.path = p => u.stage # "read"
        PROVE  FileSound(p)'
    <3>1. Working(c, p, "removeMeta")'
      BY <2>6
    <3>2. MetaFollows(p)'
      BY <2>7, <3>1 DEF MetaFollows
    <3>3. PutFollows(p)' /\ UpdatesFollow(p)'
      BY <1>2, <2>10 DEF FileSound, PutFollows, UpdatesFollow
    <3>4. ~(Working(c, p, "createMeta")') /\ ~(Working(c, p, "putMeta")')
      BY <2>6
    <3>5. MemoryFollows(p)'
      BY <2>10, <3>4 DEF MemoryFollows, Relying
    <3> QED BY <3>2, <3>3, <3>5 DEF FileSound
  <2>11. aux'.lost = aux.lost /\ \A q, x : Working(c, q, x)' => q = p
    BY <1>2, <2>6
  <2> QED BY <1>1, <1>2, <1>3, <1>5, <2>6, <2>8, <2>9, <2>10, <2>11, WriteKeeps
<1> QED BY <1>1, <1>4, <1>5 DEF RemoveFile

\* The metadata of the deleted file.
LEMMA RemoveMetaKeeps ==
  ASSUME LocalInv, kind = "localFiles", NEW c \in Clients, RemoveMeta(c) PROVE LocalInv'
<1>1. PICK p : p = job[c].path
  OBVIOUS
<1>2. /\ FileJobs /\ FileTables /\ At(c, "removeMeta") /\ store' = store
      /\ aux' = [aux EXCEPT !.meta = Drop(@, {p}), !.put = Drop(@, {p})]
      /\ Overtakes(c, p) /\ Reply(c, 200, Nothing) /\ broken' = broken
  BY <1>1 DEF LocalInv, RemoveMeta
<1>3. p \in LocalPaths
  BY <1>1, <1>2, FileJobAt
<1>4. /\ FileJobs' /\ \A d \in Clients \ {c} : job'[d] = job[d]
      /\ \A q, x : ~(Working(c, q, x)')
  BY <1>2, FileReplies
<1>5. /\ LocalShape(aux') /\ aux'.meta = Drop(aux.meta, {p}) /\ aux'.updates = aux.updates
      /\ aux'.lost = aux.lost /\ aux'.put = Drop(aux.put, {p}) /\ aux'.known = aux.known
  BY <1>2 DEF FileTables, LocalShape
<1>6. /\ DOMAIN aux'.meta = DOMAIN aux.meta \ {p}
      /\ \A q \in DOMAIN aux'.meta : aux'.meta[q] = aux.meta[q]
      /\ DOMAIN aux'.put = DOMAIN aux.put \ {p}
      /\ \A q \in DOMAIN aux'.put : aux'.put[q] = aux.put[q]
  BY <1>5 DEF Drop
<1>7. FileTables'
  <2>1. /\ DOMAIN aux'.meta \subseteq LocalPaths /\ DOMAIN aux'.put \subseteq LocalPaths
        /\ \A q \in DOMAIN aux'.meta : MetaShape(aux'.meta[q])
    BY <1>2, <1>6 DEF FileTables
  <2> QED BY <1>2, <1>5, <2>1 DEF FileTables
<1>8. \A q \in LocalPaths \ {p} : SameFile(q)
  BY <1>2, <1>5, <1>6 DEF SameFile
<1>9. ASSUME FileSound(p), \A d \in Clients \ {c} : \A x \in Relying : ~(Working(d, p, x)'),
             \A u \in aux.updates : u.path = p => u.stage # "read"
      PROVE  FileSound(p)'
  <2>1. \A d \in Clients : \A x \in Relying : ~(Working(d, p, x)')
    BY <1>4, <1>9
  <2>2. MetaFollows(p)' /\ PutFollows(p)'
    BY <1>6 DEF MetaFollows, PutFollows
  <2>3. UpdatesFollow(p)'
    BY <1>5, <1>9 DEF UpdatesFollow
  <2>4. MemoryFollows(p)'
    BY <2>1 DEF MemoryFollows, Relying
  <2> QED BY <2>2, <2>3, <2>4 DEF FileSound
<1> QED BY <1>1, <1>2, <1>3, <1>4, <1>5, <1>7, <1>8, <1>9, WriteKeeps

-----------------------------------------------------------------------------
(* The background updates.                                                 *)

\* The requests are where they were when only the updates move.
LEMMA SameRequests ==
  ASSUME job' = job, FileJobs PROVE FileJobs' /\ \A q : SameWriters(q)
  BY DEF FileJobs, SameWriters, Working, At

\* The files of the storage have different names, so a hash known for a file is that of its content.
LEMMA KnownIsContent ==
  ASSUME FileTables, NEW q \in DOMAIN store, q \in DOMAIN aux.known PROVE aux.known[q] = store[q]
<1>1. q = BlobFile(aux.known[q]) /\ (q = SavedFile \/ q = BlobFile(store[q]))
  BY DEF FileTables
<1>2. \A b : Len(BlobFile(b)) = 2 /\ BlobFile(b)[2] = Dir(b) /\ Dir(b)[1] = b
  BY DEF BlobFile, Dir
<1>3. Len(SavedFile) = 1
  BY DEF SavedFile
<1> QED BY <1>1, <1>2, <1>3

\* An update reads: what it will write follows the file, or the file is gone.
LEMMA UpdateReadsKeeps ==
  ASSUME LocalInv, kind = "localFiles", UpdateReads PROVE LocalInv'
<1>1. FileJobs /\ FileTables
  BY DEF LocalInv
<1>2. PICK u \in aux.updates :
        /\ u.stage = "queued"
        /\ aux' = [aux EXCEPT !.updates = (@ \ {u}) \cup IF u.path \in DOMAIN store
                                THEN {[u EXCEPT !.stage = "read", !.meta = UpdatedMeta(u.path)]} ELSE {},
                              !.known = Drop(@, {u.path} \cap DOMAIN store)]
        /\ store' = store /\ job' = job /\ raced' = raced /\ broken' = broken
  BY DEF UpdateReads, historyVars
<1>3. PICK p, m, w : p = u.path /\ m = UpdatedMeta(p) /\ w = [u EXCEPT !.stage = "read", !.meta = m]
  OBVIOUS
<1>4. p \in LocalPaths /\ UpdateShape(u)
  <2>1. UpdateIs(u)
    BY <1>1 DEF FileTables
  <2> QED BY <1>3, <2>1 DEF UpdateIs
<1>5. UpdateShape(w) /\ w.path = p /\ w.stage = "read" /\ w.meta = m
  BY <1>3, <1>4 DEF UpdateShape
<1>6. /\ LocalShape(aux') /\ aux'.meta = aux.meta /\ aux'.lost = aux.lost /\ aux'.put = aux.put
      /\ aux'.updates = (aux.updates \ {u}) \cup IF p \in DOMAIN store THEN {w} ELSE {}
      /\ aux'.known = Drop(aux.known, {p} \cap DOMAIN store)
  BY <1>1, <1>2, <1>3 DEF FileTables, LocalShape
<1>7. MetaShape(m)
  BY <1>3 DEF MetaShape, UpdatedMeta
<1>8. p \in DOMAIN store => m.hash = store[p]
  BY <1>1, <1>3, KnownIsContent DEF UpdatedMeta
<1>9. p \in DOMAIN aux.meta => m.repo = aux.meta[p].repo
  BY <1>3 DEF UpdatedMeta
<1>10. FileTables'
  <2>1. \A q \in DOMAIN aux'.known : q \in DOMAIN aux.known /\ aux'.known[q] = aux.known[q]
    BY <1>6 DEF Drop
  <2>2. \A v \in aux'.updates : UpdateIs(v)
    <3>1. UpdateIs(w)
      BY <1>4, <1>5, <1>7 DEF UpdateIs
    <3>2. \A v \in aux.updates : UpdateIs(v)
      BY <1>1 DEF FileTables
    <3> QED BY <1>6, <3>1, <3>2
  <2> QED BY <1>1, <1>2, <1>6, <2>1, <2>2 DEF FileTables
<1>11. ASSUME NEW q \in LocalPaths \ {p} PROVE SameFile(q)
  <2>1. {v \in aux'.updates : v.path = q} = {v \in aux.updates : v.path = q}
    BY <1>3, <1>5, <1>6
  <2> QED BY <1>2, <1>6, <2>1 DEF SameFile
<1>12. FileJobs' /\ \A q : SameWriters(q)
  BY <1>1, <1>2, SameRequests
<1>13. Overtook(p)' \/ FileSound(p)'
  <2>1. Overtook(p) => Overtook(p)'
    BY <1>2, <1>6 DEF Overtook
  <2>2. ASSUME FileSound(p) PROVE FileSound(p)'
    <3>1. MetaFollows(p)'
      <4>1. CASE p \in DOMAIN store
        <5>1. w \in aux'.updates
          BY <1>6, <4>1
        <5> QED BY <1>2, <1>5, <4>1, <5>1 DEF MetaFollows
      <4>2. CASE p \notin DOMAIN store
        <5>1. \A d \in Clients : Working(d, p, "removeMeta")' <=> Working(d, p, "removeMeta")
          BY <1>2 DEF Working, At
        <5> QED BY <1>2, <1>6, <2>2, <4>2, <5>1 DEF FileSound, MetaFollows
      <4> QED BY <4>1, <4>2
    <3>2. PutFollows(p)'
      BY <1>6, <2>2 DEF FileSound, PutFollows
    <3>3. UpdatesFollow(p)'
      <4>1. SUFFICES ASSUME NEW v \in aux'.updates, v.path = p, v.stage = "read"
                     PROVE  /\ p \in DOMAIN store /\ v.meta.hash = store[p]
                            /\ p \in DOMAIN aux.meta => v.meta.repo = aux.meta[p].repo
        BY <1>2, <1>6 DEF UpdatesFollow
      <4>2. CASE v \in aux.updates
        BY <2>2, <4>1, <4>2 DEF FileSound, UpdatesFollow
      <4>3. CASE p \in DOMAIN store /\ v = w
        BY <1>5, <1>8, <1>9, <4>3
      <4>4. v \in aux.updates \/ (p \in DOMAIN store /\ v = w)
        BY <1>6, <4>1
      <4> QED BY <4>2, <4>3, <4>4
    <3>4. MemoryFollows(p)'
      BY <1>2, <1>6, <2>2 DEF FileSound, MemoryFollows, Working, At
    <3> QED BY <3>1, <3>2, <3>3, <3>4 DEF FileSound
  <2> QED BY <1>4, <2>1, <2>2 DEF LocalInv
<1> QED BY <1>2, <1>6, <1>10, <1>11, <1>12, <1>13, LocalKept

\* An update writes what it read.
LEMMA UpdateSavesKeeps ==
  ASSUME LocalInv, kind = "localFiles", UpdateSaves PROVE LocalInv'
<1>1. FileJobs /\ FileTables
  BY DEF LocalInv
<1>2. PICK u \in aux.updates :
        /\ u.stage = "read"
        /\ aux' = [aux EXCEPT !.updates = @ \ {u}, !.meta = Put(@, u.path, u.meta)]
        /\ raced' = raced \cup {r \in {<<"file", u.path>>} :
                                  \/ \E c \in Clients : r \in job[c].reads
                                  \/ \E w \in aux.updates \ {u} : w.path = u.path /\ w.stage = "read"}
        /\ store' = store /\ job' = job /\ broken' = broken
  BY DEF UpdateSaves
<1>3. PICK p, m : p = u.path /\ m = u.meta
  OBVIOUS
<1>4. p \in LocalPaths /\ MetaShape(m)
  <2>1. UpdateIs(u)
    BY <1>1 DEF FileTables
  <2> QED BY <1>2, <1>3, <2>1 DEF UpdateIs
<1>5. /\ LocalShape(aux') /\ aux'.meta = Put(aux.meta, p, m) /\ aux'.lost = aux.lost
      /\ aux'.put = aux.put /\ aux'.known = aux.known /\ aux'.updates = aux.updates \ {u}
  BY <1>1, <1>2, <1>3 DEF FileTables, LocalShape
<1>6. /\ DOMAIN aux'.meta = DOMAIN aux.meta \cup {p} /\ aux'.meta[p] = m
      /\ \A q \in DOMAIN aux.meta \ {p} : aux'.meta[q] = aux.meta[q]
  BY <1>5 DEF Put
<1>7. FileTables'
  <2>1. DOMAIN aux'.meta \subseteq LocalPaths /\ \A q \in DOMAIN aux'.meta : MetaShape(aux'.meta[q])
    BY <1>1, <1>4, <1>6 DEF FileTables
  <2> QED BY <1>1, <1>2, <1>5, <2>1 DEF FileTables
<1>8. ASSUME NEW q \in LocalPaths \ {p} PROVE SameFile(q)
  <2>1. {v \in aux'.updates : v.path = q} = {v \in aux.updates : v.path = q}
    BY <1>3, <1>5
  <2> QED BY <1>2, <1>5, <1>6, <2>1 DEF SameFile
<1>9. FileJobs' /\ \A q : SameWriters(q)
  BY <1>1, <1>2, SameRequests
<1>10. raced \subseteq raced'
  BY <1>2
<1>11. ASSUME ~(Overtook(p)') PROVE FileSound(p)'
  <2>1. FileSound(p)
    <3>1. ~Overtook(p)
      BY <1>2, <1>5, <1>10, <1>11 DEF Overtook
    <3> QED BY <1>4, <3>1 DEF LocalInv
  <2>2. <<"file", p>> \notin raced'
    BY <1>11 DEF Overtook
  <2>3. ASSUME NEW c \in Clients, NEW x \in Relying, Working(c, p, x) PROVE FALSE
    <3>1. <<"file", p>> \in job[c].reads
      BY <1>1, <2>3, FileJobAt DEF Working
    <3> QED BY <1>2, <1>3, <2>2, <3>1
  <2>4. ASSUME NEW v \in aux.updates \ {u}, v.path = p, v.stage = "read" PROVE FALSE
    BY <1>2, <1>3, <2>2, <2>4
  <2>5. /\ p \in DOMAIN store /\ m.hash = store[p]
        /\ p \in DOMAIN aux.meta => m.repo = aux.meta[p].repo
    BY <1>2, <1>3, <2>1 DEF FileSound, UpdatesFollow
  <2>6. MetaFollows(p)'
    BY <1>2, <1>6, <2>5 DEF MetaFollows
  <2>7. PutFollows(p)'
    BY <1>5, <1>6, <2>1, <2>5 DEF FileSound, PutFollows
  <2>8. UpdatesFollow(p)'
    BY <1>5, <2>4 DEF UpdatesFollow
  <2>9. MemoryFollows(p)'
    <3>1. \A c \in Clients : ~(Working(c, p, "createMeta")') /\ ~(Working(c, p, "putMeta")')
      BY <1>2, <2>3 DEF Working, At, Relying
    <3> QED BY <3>1 DEF MemoryFollows
  <2> QED BY <2>6, <2>7, <2>8, <2>9 DEF FileSound
<1> QED BY <1>2, <1>5, <1>7, <1>8, <1>9, <1>10, <1>11, LocalKept

\* An update that fails is lost.
LEMMA UpdateFailsKeeps ==
  ASSUME LocalInv, kind = "localFiles", UpdateFails PROVE LocalInv'
<1>1. FileJobs /\ FileTables
  BY DEF LocalInv
<1>2. PICK u \in aux.updates :
        /\ aux' = [aux EXCEPT !.updates = @ \ {u}, !.lost = @ \cup {u.path}]
        /\ store' = store /\ job' = job /\ raced' = raced /\ broken' = broken
  BY DEF UpdateFails, historyVars
<1>3. PICK p : p = u.path
  OBVIOUS
<1>4. /\ LocalShape(aux') /\ aux'.meta = aux.meta /\ aux'.lost = aux.lost \cup {p}
      /\ aux'.put = aux.put /\ aux'.known = aux.known /\ aux'.updates = aux.updates \ {u}
  BY <1>1, <1>2, <1>3 DEF FileTables, LocalShape
<1>5. FileTables'
  BY <1>1, <1>2, <1>4 DEF FileTables
<1>6. ASSUME NEW q \in LocalPaths \ {p} PROVE SameFile(q)
  <2>1. {v \in aux'.updates : v.path = q} = {v \in aux.updates : v.path = q}
    BY <1>3, <1>4
  <2> QED BY <1>2, <1>4, <2>1 DEF SameFile
<1>7. FileJobs' /\ \A q : SameWriters(q)
  BY <1>1, <1>2, SameRequests
<1>8. Overtook(p)'
  BY <1>4 DEF Overtook
<1> QED BY <1>2, <1>4, <1>5, <1>6, <1>7, <1>8, LocalKept

-----------------------------------------------------------------------------
(* Faults, restarts and the rest of the system.                            *)

\* A step that fails breaks what its request relied on.
LEMMA FileFailureKeeps ==
  ASSUME LocalInv, kind = "localFiles", NEW c \in Clients, StepFails(c) PROVE LocalInv'
<1>1. PICK p, x : p = job[c].path /\ x = Head(job[c].plan)
  OBVIOUS
<1>2. /\ FileJobs /\ FileTables /\ At(c, x) /\ job[c].plan # <<>> /\ Abort(c, 500)
      /\ store' = store /\ aux' = aux /\ raced' = raced
      /\ broken' = broken \cup {<<job[c].p, job[c].v>>} \cup job[c].reads
  BY <1>1 DEF LocalInv, StepFails, Idle, At, Fault
<1>3. p \in LocalPaths /\ x \in Relying => <<"file", p>> \in job[c].reads
  BY <1>1, <1>2, FileJobAt
<1>4. Reply(c, 500, Nothing)
  BY <1>2, FileAborts
<1>5. /\ FileJobs' /\ \A d \in Clients \ {c} : job'[d] = job[d]
      /\ \A q, y : ~(Working(c, q, y)')
  BY <1>2, <1>4, FileReplies
<1>6. FileTables' /\ aux.lost \subseteq aux'.lost /\ \A q : SameFile(q)
  BY <1>2, NothingWritten
<1>7. CASE x \in Relying
  <2>1. Overtook(p)'
    BY <1>1, <1>2, <1>7, FileJobAt DEF Overtook
  <2>2. ASSUME NEW q, q # p PROVE SameWriters(q)
    BY <1>1, <1>5, <2>2 DEF SameWriters, Working, At
  <2> QED BY <1>2, <1>5, <1>6, <2>1, <2>2, LocalKept
<1>8. CASE x \notin Relying
  <2>1. \A q : SameWriters(q)
    BY <1>1, <1>5, <1>8 DEF SameWriters, Working, At, Relying
  <2> QED BY <1>2, <1>5, <1>6, <2>1, LocalKept
<1> QED BY <1>7, <1>8

\* A restart forgets the queued updates and the known hashes, and cuts the requests off.
LEMMA FileRestartKeeps ==
  ASSUME LocalInv, kind = "localFiles", Restart PROVE LocalInv'
<1>1. /\ FileJobs /\ FileTables /\ store' = store /\ raced' = raced
      /\ job' = [c \in Clients |-> NoJob] /\ aux' = InMemory
      /\ broken' = broken \cup UNION {{<<job[c].p, job[c].v>>} \cup job[c].reads : c \in Clients}
  BY DEF LocalInv, Restart
<1>2. aux' = [aux EXCEPT !.updates = {}, !.known = EmptyMap, !.lost = @ \cup {u.path : u \in aux.updates}]
  BY <1>1 DEF InMemory
<1>3. /\ LocalShape(aux') /\ aux'.updates = {} /\ aux'.known = EmptyMap /\ aux'.meta = aux.meta
      /\ aux'.put = aux.put /\ aux'.lost = aux.lost \cup {u.path : u \in aux.updates}
  BY <1>1, <1>2 DEF FileTables, LocalShape
<1>4. FileTables'
  <2>1. DOMAIN EmptyMap = {}
    BY DEF EmptyMap
  <2> QED BY <1>1, <1>3, <2>1 DEF FileTables
<1>5. FileJobs' /\ \A c \in Clients : \A q, x : ~(Working(c, q, x)')
  <2>1. RequestShape(NoJob) /\ NoJob.plan = <<>> /\ NoJob.reads = {}
    BY DEF RequestShape, NoJob
  <2>2. \A c \in Clients : job'[c] = NoJob
    BY <1>1
  <2>3. job' = [c \in Clients |-> job'[c]]
    BY <1>1
  <2> QED BY <2>1, <2>2, <2>3 DEF FileJobs, FileJob, Working, At
<1>6. ASSUME NEW q \in LocalPaths, ~(Overtook(q)') PROVE FileSound(q)'
  <2>1. FileSound(q)
    <3>1. ~Overtook(q)
      BY <1>1, <1>3, <1>6 DEF Overtook
    <3> QED BY <3>1 DEF LocalInv
  <2>2. ASSUME NEW u \in aux.updates, u.path = q PROVE FALSE
    BY <1>3, <1>6, <2>2 DEF Overtook
  <2>3. ASSUME NEW c \in Clients, Working(c, q, "removeMeta") PROVE FALSE
    <3>1. <<"file", q>> \in job[c].reads
      BY <1>1, <2>3, FileJobAt DEF Working, Relying
    <3>2. <<"file", q>> \in broken'
      BY <1>1, <3>1
    <3> QED BY <1>6, <3>2 DEF Overtook
  <2>4. MetaFollows(q)'
    BY <1>1, <1>3, <2>1, <2>2, <2>3 DEF FileSound, MetaFollows
  <2>5. PutFollows(q)' /\ UpdatesFollow(q)'
    BY <1>3, <2>1 DEF FileSound, PutFollows, UpdatesFollow
  <2>6. MemoryFollows(q)'
    BY <1>5 DEF MemoryFollows
  <2> QED BY <2>4, <2>5, <2>6 DEF FileSound
<1> QED BY <1>1, <1>3, <1>4, <1>5, <1>6, LocalKept

\* The names of the shared steps.
SharedNames == {"project", "newProject", "newVersion", "updateVersion", "fileRow", "nextPath", "erase", "targets",
                "trees", "soft", "serve", "passThrough", "notFound", "indexFind", "indexDelete", "evict", "logged"}

\* A request takes a shared step, or fails.
LEMMA SharedNamed == ASSUME NEW c, SharedStep(c) PROVE StepFails(c) \/ \E x \in SharedNames : At(c, x)
<1>1. CASE CatalogSteps(c)
  <2>1. CASE FindProject(c)
    BY <2>1 DEF FindProject, SharedNames
  <2>2. CASE InsertProject(c)
    BY <2>2 DEF InsertProject, SharedNames
  <2>3. CASE InsertVersion(c)
    BY <2>3 DEF InsertVersion, SharedNames
  <2>4. CASE UpdateVersion(c)
    BY <2>4 DEF UpdateVersion, SharedNames
  <2>5. CASE UpsertFileRow(c)
    BY <2>5 DEF UpsertFileRow, SharedNames
  <2> QED BY <1>1, <2>1, <2>2, <2>3, <2>4, <2>5 DEF CatalogSteps
<1>2. CASE DeletionSteps(c)
  <2>1. CASE NextPath(c)
    <3>1. NextPath(c) => At(c, "nextPath")
      BY Zenon DEF NextPath
    <3> QED BY <2>1, <3>1 DEF SharedNames
  <2>2. CASE Erase(c) \/ EraseFails(c)
    BY <2>2 DEF Erase, EraseFails, SharedNames
  <2>3. CASE DeleteTargets(c)
    <3>1. DeleteTargets(c) => At(c, "targets")
      BY Zenon DEF DeleteTargets, DeleteVersions
    <3> QED BY <2>3, <3>1 DEF SharedNames
  <2>4. CASE DeleteTrees(c)
    <3>1. DeleteTrees(c) => At(c, "trees")
      BY Zenon DEF DeleteTrees, DeleteVersions
    <3> QED BY <2>4, <3>1 DEF SharedNames
  <2>5. CASE SoftDelete(c)
    BY <2>5 DEF SoftDelete, SharedNames
  <2> QED BY <1>2, <2>1, <2>2, <2>3, <2>4, <2>5 DEF DeletionSteps
<1>3. CASE ProxySteps(c)
  <2>1. CASE ServeStored(c)
    BY <2>1 DEF ServeStored, SharedNames
  <2>2. CASE PassThrough(c)
    BY <2>2 DEF PassThrough, SharedNames
  <2>3. CASE NotFound(c)
    BY <2>3 DEF NotFound, SharedNames
  <2>4. CASE IndexFind(c)
    BY <2>4 DEF IndexFind, SharedNames
  <2>5. CASE IndexDelete(c)
    BY <2>5 DEF IndexDelete, SharedNames
  <2>6. CASE EvictCached(c)
    BY <2>6 DEF EvictCached, SharedNames
  <2> QED BY <1>3, <2>1, <2>2, <2>3, <2>4, <2>5, <2>6 DEF ProxySteps
<1>4. CASE Logs(c)
  BY <1>4 DEF Logs, SharedNames
<1> QED BY <1>1, <1>2, <1>3, <1>4 DEF SharedStep

\* The requests of the file storage take none of the shared steps, but may fail.
LEMMA FileSharedFails ==
  ASSUME LocalInv, kind = "localFiles", NEW c \in Clients, SharedStep(c) PROVE StepFails(c)
<1>1. ASSUME NEW x, At(c, x) PROVE x \in FileSteps
  BY <1>1, FileJobAt DEF LocalInv
<1>2. ASSUME NEW x \in SharedNames PROVE ~At(c, x)
  BY <1>1 DEF SharedNames, FileSteps
<1> QED BY <1>2, SharedNamed

\* Every step of a request keeps the invariant.
LEMMA FileStepKeeps ==
  ASSUME LocalInv, kind = "localFiles", NEW c \in Clients, LocalFilesStep(c) PROVE LocalInv'
  BY FileStartsKeep, FileWriteKeeps, KnownHashKeeps, ReadMetaKeeps, CreateMetaKeeps, ReadFileKeeps,
     PutMetaKeeps, RemoveFileKeeps, RemoveMetaKeeps DEF LocalFilesStep

\* The invariant is inductive.
LEMMA LocalInvNext == ASSUME RowsInv, LocalInv, [Next]_vars PROVE LocalInv'
<1>1. kind' = kind
  BY RowsInvNext DEF Fixed
<1>2. CASE kind # "localFiles"
  BY <1>1, <1>2 DEF LocalInv
<1>3. CASE kind = "localFiles"
  <2>1. CASE UNCHANGED vars
    <3>1. /\ store' = store /\ aux' = aux /\ job' = job /\ raced' = raced /\ broken' = broken
      BY <2>1 DEF vars
    <3>2. FileJobs /\ FileTables
      BY <1>3 DEF LocalInv
    <3>3. FileJobs' /\ FileTables' /\ aux.lost \subseteq aux'.lost /\ \A q : SameFile(q) /\ SameWriters(q)
      BY <3>1, <3>2, NothingWritten, SameRequests
    <3> QED BY <1>3, <3>1, <3>3, LocalKept
  <2>2. CASE WorldStep
    <3>1. Restart \/ UpdateReads \/ UpdateSaves \/ UpdateFails
      BY <1>3, <2>2 DEF WorldStep, ProxyKinds, VirtualKinds, MetaUpdates
    <3> QED BY <1>3, <3>1, FileRestartKeeps, UpdateReadsKeeps, UpdateSavesKeeps, UpdateFailsKeeps
  <2>3. ASSUME NEW c \in Clients, HandlerStep(c) PROVE LocalInv'
    <3>1. LocalFilesStep(c)
      BY <1>3, <2>3 DEF HandlerStep, VirtualKinds
    <3> QED BY <1>3, <3>1, FileStepKeeps
  <2>4. ASSUME NEW c \in Clients, SharedStep(c) PROVE LocalInv'
    BY <1>3, <2>4, FileSharedFails, FileFailureKeeps
  <2> QED BY <2>1, <2>2, <2>3, <2>4 DEF Next
<1> QED BY <1>2, <1>3

\* The invariant holds at the start.
LEMMA LocalInvInit == ASSUME Init PROVE LocalInv
<1>1. SUFFICES ASSUME kind = "localFiles"
               PROVE  FileJobs /\ FileTables /\ \A q \in LocalPaths : FileSound(q)
  BY DEF LocalInv
<1>2. aux = LocalInit /\ store = EmptyMap /\ job = [c \in Clients |-> NoJob]
  BY <1>1 DEF Init, RepositoryInit, FirstStates, VirtualKinds
<1>3. /\ LocalShape(aux) /\ aux.meta = EmptyMap /\ aux.updates = {} /\ aux.known = EmptyMap
      /\ aux.put = EmptyMap
  BY <1>2 DEF LocalInit, LocalShape
<1>4. DOMAIN EmptyMap = {}
  BY DEF EmptyMap
<1>5. FileTables
  BY <1>2, <1>3, <1>4 DEF FileTables
<1>6. FileJobs /\ \A c \in Clients : \A q, x : ~Working(c, q, x)
  <2>1. RequestShape(NoJob) /\ NoJob.plan = <<>> /\ NoJob.reads = {}
    BY DEF RequestShape, NoJob
  <2>2. \A c \in Clients : job[c] = NoJob
    BY <1>2
  <2>3. job = [c \in Clients |-> job[c]]
    BY <1>2
  <2> QED BY <2>1, <2>2, <2>3 DEF FileJobs, FileJob, Working, At
<1>7. ASSUME NEW q \in LocalPaths PROVE FileSound(q)
  BY <1>3, <1>4, <1>6 DEF FileSound, MetaFollows, PutFollows, UpdatesFollow, MemoryFollows
<1> QED BY <1>5, <1>6, <1>7

\* The hashes beside a file are those of its content and what a repository attached to it stays,
\* on every path whose requests and updates are over, unless they overlapped, failed or were lost.
THEOREM LocalMetaIsCurrent == Spec => []LocalMetaCurrent
<1>1. ASSUME LocalInv PROVE LocalMetaCurrent
  <2>1. ASSUME kind = "localFiles", NEW q \in LocalPaths, Settled(q)
        PROVE  /\ q \in DOMAIN aux.meta => q \in DOMAIN store /\ aux.meta[q].hash = store[q]
               /\ q \in DOMAIN aux.put => q \in DOMAIN aux.meta /\ aux.meta[q].repo = aux.put[q]
    <3>1. FileSound(q)
      BY <1>1, <2>1 DEF LocalInv, Overtook, Settled
    <3>2. \A c \in Clients : ~Working(c, q, "removeMeta")
      BY <2>1 DEF Settled, Quiescent, Idle, Working, At
    <3> QED BY <2>1, <3>1, <3>2 DEF FileSound, MetaFollows, PutFollows, Settled
  <2>2. kind = "localFiles" => DOMAIN aux.meta \subseteq LocalPaths /\ DOMAIN aux.put \subseteq LocalPaths
    BY <1>1 DEF LocalInv, FileTables
  <2>3. LocalHashesCurrent
    BY <2>1, <2>2 DEF LocalHashesCurrent
  <2>4. LocalPutKept
    BY <2>1, <2>2 DEF LocalPutKept
  <2> QED BY <2>3, <2>4 DEF LocalMetaCurrent
<1>2. RowsInv /\ LocalInv /\ [Next]_vars => (RowsInv /\ LocalInv)'
  BY RowsInvNext, LocalInvNext
<1>3. Init => RowsInv /\ LocalInv
  BY RowsInvInit, LocalInvInit
<1> QED BY <1>1, <1>2, <1>3, PTL DEF Spec

-----------------------------------------------------------------------------
(* The requests of the virtual repositories.                               *)

\* What is left to do of a request that administers one: the steps of each kind of request
\* that stores a configuration, and those they share.
ReadThenReplace ==
    <<"virtualRead", "virtualPersist", "virtualReplace", "virtualReload", "virtualSync", "virtualAssign", "virtualTarget">>
ReadThenReload ==
    <<"virtualRead", "virtualPersist", "virtualReload", "virtualSync", "virtualAssign", "virtualTarget">>
PersistThenReplace ==
    <<"virtualPersist", "virtualReplace", "virtualReload", "virtualSync", "virtualAssign", "virtualTarget">>
PersistThenReload == <<"virtualPersist", "virtualReload", "virtualSync", "virtualAssign", "virtualTarget">>
ReplaceOn == <<"virtualReplace", "virtualReload", "virtualSync", "virtualAssign", "virtualTarget">>
ReloadOn == <<"virtualReload", "virtualSync", "virtualAssign", "virtualTarget">>
SyncOn == <<"virtualSync", "virtualAssign", "virtualTarget">>
SeedOn == <<"virtualSeed", "virtualAssign", "virtualTarget">>
AssignOn == <<"virtualAssign", "virtualTarget">>
TargetOn == <<"virtualTarget">>
ConfigPlans ==
    {ReadThenReplace, ReadThenReload, PersistThenReplace, PersistThenReload, ReplaceOn, ReloadOn, SyncOn, SeedOn,
     AssignOn, TargetOn}
\* Those of the others.
MemberPlans == {<<"memberRows", "memberFiles", "memberUnload">>, <<"memberFiles", "memberUnload">>, <<"memberUnload">>}
ReaderPlans ==
    {<<"virtualCached">>, <<"virtualHit", "virtualNext">>, <<"virtualNext">>,
     <<"virtualPage", "virtualMerge">>, <<"virtualMerge">>, <<"virtualForward">>}
VirtualPlans == ConfigPlans \cup MemberPlans \cup ReaderPlans
\* The steps of these requests.
StoreSteps ==
    {"virtualPersist", "virtualReplace", "virtualReload", "virtualSync", "virtualSeed", "virtualAssign", "virtualTarget"}
GetSteps == {"virtualCached", "virtualHit", "virtualNext"}
ListSteps == {"virtualPage", "virtualMerge"}
VirtualSteps ==
    {"virtualRead"} \cup StoreSteps \cup GetSteps \cup ListSteps
    \cup {"virtualForward", "memberRows", "memberFiles", "memberUnload"}

\* A list of members; what a request remembers of the configuration, or of the members.
ListShape(list) == \A m \in DOMAIN list : m \in Repositories /\ list[m].rank \in Nat
ConfigMem(m) ==
    /\ m = [members |-> m.members, publish |-> m.publish, list |-> m.list]
    /\ ListShape(m.members) /\ ListShape(m.list)
ReaderMem(m) ==
    /\ m = [denied |-> m.denied, list |-> m.list, refused |-> m.refused, found |-> m.found,
            held |-> m.held, failed |-> m.failed, all |-> m.all]
    /\ ListShape(m.list) /\ ListShape(m.all)
\* A request whose next step is x.
ConfigJob(j, x) ==
    /\ x \in {"virtualRead"} \cup StoreSteps => ConfigMem(j.mem)
    /\ x \in StoreSteps => VConfig \in j.reads \/ (x = "virtualPersist" /\ j.op = "updateConfig")
    /\ j.plan \in {ReadThenReplace, PersistThenReplace} => j.op = "updateMembers"
    /\ j.plan = ReadThenReload => j.op = "updateOrder"
    /\ j.plan = PersistThenReload => j.op \in {"updateOrder", "updateConfig"}
ReaderJob(j, x, versions) ==
    /\ x \in GetSteps => ReaderMem(j.mem) /\ j.op = "virtualGet" /\ j.p \in Packages /\ j.v \in versions
    /\ x \in {"virtualHit", "virtualNext"} =>
         \A m \in DOMAIN j.mem.list : m \in DOMAIN j.mem.all /\ j.mem.list[m] = j.mem.all[m]
    /\ x \in ListSteps => ReaderMem(j.mem) /\ j.op = "virtualList" /\ j.p \in Packages
    /\ x = "virtualMerge" => j.mem.held \subseteq Repositories \X versions
VirtualJob(j, versions) ==
    /\ RequestShape(j)
    /\ j.plan # <<>> =>
         j.plan \in VirtualPlans /\ ConfigJob(j, Head(j.plan)) /\ ReaderJob(j, Head(j.plan), versions)
VirtualJobs == job = [c \in Clients |-> job[c]] /\ \A c \in Clients : VirtualJob(job[c], Versions)

-----------------------------------------------------------------------------
(* The invariant of the virtual repositories.                              *)

\* The fields of the tables and of the counters.
VirtualShape(a) ==
    a = [exists |-> a.exists, loaded |-> a.loaded, config |-> a.config, table |-> a.table, live |-> a.live,
         target |-> a.target, writer |-> a.writer, whole |-> a.whole, kept |-> a.kept, lists |-> a.lists,
         cache |-> a.cache, index |-> a.index, up |-> a.up, odd |-> a.odd]
UsedShape(u) ==
    /\ u = [requests |-> u.requests, faults |-> u.faults, clock |-> u.clock, changes |-> u.changes, bound |-> u.bound]
    /\ u.faults \in Nat
VirtualTables ==
    /\ VirtualShape(aux) /\ UsedShape(used)
    /\ aux.exists \subseteq Repositories
    /\ aux.config = [members |-> aux.config.members, publish |-> aux.config.publish]
    /\ ListShape(aux.config.members) /\ ListShape(aux.table) /\ ListShape(aux.live)

\* What VirtualMemoryCurrent excuses.
Spoilt == VConfig \in raced \cup broken \/ aux.odd # {} \/ ~aux.up
\* The table is the configuration's, and the memory both.
TableFollows == Loads(aux.config, aux.table) /\ aux.config.members = aux.table
VirtualMemoryFollows ==
    TableFollows /\ aux.live = aux.table /\ aux.target = SelectTarget(aux.config, aux.table)
\* A request has stored a configuration that the memory has yet to take.
Storing(c) == \E x \in StoreSteps \ {"virtualPersist"} : At(c, x)
\* What the request has read or stored is still so.
ConfigFollows(c) ==
    LET mem == job[c].mem IN
    /\ At(c, "virtualPersist") /\ job[c].op # "updateConfig" =>
         /\ ValidTarget(mem.publish, mem.members)
         /\ job[c].op = "updateOrder" => mem.members = aux.config.members
    /\ At(c, "virtualReplace") =>
         /\ mem.members = aux.config.members /\ mem.publish = aux.config.publish
         /\ ValidTarget(mem.publish, mem.members)
    /\ At(c, "virtualReload") => TableFollows
    /\ At(c, "virtualSync") =>
         TableFollows /\ mem.members = aux.config.members /\ mem.publish = aux.config.publish
    /\ ~At(c, "virtualSeed")
    /\ At(c, "virtualAssign") =>
         TableFollows /\ mem.list = aux.table /\ mem.publish = aux.config.publish
    /\ At(c, "virtualTarget") =>
         TableFollows /\ aux.live = aux.table /\ mem.publish = SelectTarget(aux.config, aux.table)
ConfigSound ==
    /\ \A c \in Clients : ConfigFollows(c)
    /\ (\A c \in Clients : ~Storing(c)) => VirtualMemoryFollows

\* The target fits the members when both are of one reload, and a reload that wrote the members
\* last is about to write a target that fits them.
TargetSound ==
    /\ aux.whole => ValidTarget(aux.target, aux.live)
    /\ \A c \in Clients : At(c, "virtualTarget") /\ aux.writer = {c} => ValidTarget(job[c].mem.publish, aux.live)
    /\ \A c, d \in aux.writer : c = d

\* The copy of the version v that a member has, as long as it serves it to the request; and a
\* version that it lists.
Copy(m, j, v) == <<"file", MemberFile(m, j.p, v)>>
Available(m, j, v) ==
    /\ m \in DOMAIN j.mem.list /\ m \in aux.loaded /\ RightType(m) /\ m \notin j.mem.denied
    /\ MemberFile(m, j.p, v) \in DOMAIN store /\ Copy(m, j, v) \in j.reads
OnList(m, j, v) ==
    /\ m \in DOMAIN j.mem.list /\ m \in aux.loaded /\ RightType(m) /\ m \notin j.mem.denied
    /\ v \in Lists(m, j.p) /\ Copy(m, j, v) \in j.reads
\* The members that had the file are still to be asked, or their upstream failed; the versions
\* a member listed are found, or that member is still to be asked, or its upstream failed.
GetKnows(j) == \A m \in j.mem.held : m \in j.mem.failed \/ Copy(m, j, j.v) \in raced \/ Available(m, j, j.v)
ListKnows(j) ==
    \A h \in j.mem.held :
        \/ h[2] \in j.mem.found \/ h[1] \in j.mem.failed
        \/ Copy(h[1], j, h[2]) \in raced \/ OnList(h[1], j, h[2])
GetFollows(c) == At(c, "virtualHit") \/ At(c, "virtualNext") => GetKnows(job[c])
ListFollows(c) == At(c, "virtualMerge") => ListKnows(job[c])

VirtualInv ==
    kind \in VirtualKinds =>
        /\ VirtualJobs /\ VirtualTables
        /\ TargetSound
        /\ Spoilt \/ ConfigSound
        /\ \A c \in Clients : GetFollows(c) /\ ListFollows(c)

\* The tail of three.
LEMMA TailOfThree ==
  ASSUME NEW a, NEW b, NEW c
  PROVE  Tail(<<a, b, c>>) = <<b, c>>
OBVIOUS

\* The tail of four.
LEMMA TailOfFour ==
  ASSUME NEW a, NEW b, NEW c, NEW d
  PROVE  Tail(<<a, b, c, d>>) = <<b, c, d>>
OBVIOUS

\* The tail of five.
LEMMA TailOfFive ==
  ASSUME NEW a, NEW b, NEW c, NEW d, NEW e
  PROVE  Tail(<<a, b, c, d, e>>) = <<b, c, d, e>>
OBVIOUS

\* The tail of six.
LEMMA TailOfSix ==
  ASSUME NEW a, NEW b, NEW c, NEW d, NEW e, NEW f
  PROVE  Tail(<<a, b, c, d, e, f>>) = <<b, c, d, e, f>>
OBVIOUS

\* The tail of seven.
LEMMA TailOfSeven ==
  ASSUME NEW a, NEW b, NEW c, NEW d, NEW e, NEW f, NEW g
  PROVE  Tail(<<a, b, c, d, e, f, g>>) = <<b, c, d, e, f, g>>
OBVIOUS

\* One step before two.
LEMMA OneBeforeTwo ==
  ASSUME NEW a, NEW b, NEW c
  PROVE  <<a>> \o <<b, c>> = <<a, b, c>>
<1> DEFINE s == <<a>> \o <<b, c>>
           t == <<a, b, c>>
<1>1. s \in Seq({a, b, c}) /\ t \in Seq({a, b, c}) /\ Len(s) = 3 /\ Len(t) = 3
  OBVIOUS
<1>2. s[1] = t[1] /\ s[2] = t[2] /\ s[3] = t[3]
  OBVIOUS
<1>3. \A i \in 1 .. Len(s) : s[i] = t[i]
  BY <1>1, <1>2
<1> HIDE DEF s, t
<1>4. s = t
  BY <1>1, <1>3, SeqEqual
<1> QED BY <1>4 DEF s, t

\* One step before four.
LEMMA OneBeforeFour ==
  ASSUME NEW a, NEW b, NEW c, NEW d, NEW e
  PROVE  <<a>> \o <<b, c, d, e>> = <<a, b, c, d, e>>
<1> DEFINE s == <<a>> \o <<b, c, d, e>>
           t == <<a, b, c, d, e>>
<1>1. s \in Seq({a, b, c, d, e}) /\ t \in Seq({a, b, c, d, e}) /\ Len(s) = 5 /\ Len(t) = 5
  OBVIOUS
<1>2. s[1] = t[1] /\ s[2] = t[2] /\ s[3] = t[3] /\ s[4] = t[4] /\ s[5] = t[5]
  OBVIOUS
<1>3. \A i \in 1 .. Len(s) : s[i] = t[i]
  BY <1>1, <1>2
<1> HIDE DEF s, t
<1>4. s = t
  BY <1>1, <1>3, SeqEqual
<1> QED BY <1>4 DEF s, t

\* Two steps before four.
LEMMA TwoBeforeFour ==
  ASSUME NEW a, NEW b, NEW c, NEW d, NEW e, NEW f
  PROVE  <<a, b>> \o <<c, d, e, f>> = <<a, b, c, d, e, f>>
<1> DEFINE s == <<a, b>> \o <<c, d, e, f>>
           t == <<a, b, c, d, e, f>>
<1>1. s \in Seq({a, b, c, d, e, f}) /\ t \in Seq({a, b, c, d, e, f}) /\ Len(s) = 6 /\ Len(t) = 6
  OBVIOUS
<1>2. s[1] = t[1] /\ s[2] = t[2] /\ s[3] = t[3] /\ s[4] = t[4] /\ s[5] = t[5] /\ s[6] = t[6]
  OBVIOUS
<1>3. \A i \in 1 .. Len(s) : s[i] = t[i]
  BY <1>1, <1>2
<1> HIDE DEF s, t
<1>4. s = t
  BY <1>1, <1>3, SeqEqual
<1> QED BY <1>4 DEF s, t

\* One step before six.
LEMMA OneBeforeSix ==
  ASSUME NEW a, NEW b, NEW c, NEW d, NEW e, NEW f, NEW g
  PROVE  <<a>> \o <<b, c, d, e, f, g>> = <<a, b, c, d, e, f, g>>
<1> DEFINE s == <<a>> \o <<b, c, d, e, f, g>>
           t == <<a, b, c, d, e, f, g>>
<1>1. s \in Seq({a, b, c, d, e, f, g}) /\ t \in Seq({a, b, c, d, e, f, g}) /\ Len(s) = 7 /\ Len(t) = 7
  OBVIOUS
<1>2. s[1] = t[1] /\ s[2] = t[2] /\ s[3] = t[3] /\ s[4] = t[4] /\ s[5] = t[5] /\ s[6] = t[6] /\ s[7] = t[7]
  OBVIOUS
<1>3. \A i \in 1 .. Len(s) : s[i] = t[i]
  BY <1>1, <1>2
<1> HIDE DEF s, t
<1>4. s = t
  BY <1>1, <1>3, SeqEqual
<1> QED BY <1>4 DEF s, t

\* The plans of the requests that store a configuration, spelled out.
LEMMA PlansSpelled ==
  /\ <<"virtualRead">> \o ConfigSteps = ReadThenReplace
  /\ <<"virtualRead", "virtualPersist">> \o ReloadSteps = ReadThenReload
  /\ <<"virtualPersist">> \o ReloadSteps = PersistThenReload
  /\ <<"virtualSeed">> \o AssignOn = SeedOn
<1>1. ConfigSteps = PersistThenReplace
  BY TwoBeforeFour DEF ConfigSteps, ReloadSteps, PersistThenReplace
<1>2. <<"virtualRead">> \o ConfigSteps = ReadThenReplace
  BY <1>1, OneBeforeSix DEF ReadThenReplace, PersistThenReplace
<1>3. <<"virtualRead", "virtualPersist">> \o ReloadSteps = ReadThenReload
  BY TwoBeforeFour DEF ReloadSteps, ReadThenReload
<1>4. <<"virtualPersist">> \o ReloadSteps = PersistThenReload
  BY OneBeforeFour DEF ReloadSteps, PersistThenReload
<1>5. <<"virtualSeed">> \o AssignOn = SeedOn
  BY OneBeforeTwo DEF AssignOn, SeedOn
<1> QED BY <1>2, <1>3, <1>4, <1>5

\* What comes after each step.
VirtualOnward(s) ==
    /\ Head(s) = "virtualRead" =>
         \/ s = ReadThenReplace /\ Tail(s) = PersistThenReplace
         \/ s = ReadThenReload /\ Tail(s) = PersistThenReload
    /\ Head(s) = "virtualPersist" =>
         \/ s = PersistThenReplace /\ Tail(s) = ReplaceOn
         \/ s = PersistThenReload /\ Tail(s) = ReloadOn
    /\ Head(s) = "virtualReplace" => Tail(s) = ReloadOn
    /\ Head(s) = "virtualReload" => Tail(s) = SyncOn
    /\ Head(s) \in {"virtualSync", "virtualSeed"} => Tail(s) = AssignOn
    /\ Head(s) = "virtualAssign" => Tail(s) = TargetOn
    /\ Head(s) = "virtualHit" => Tail(s) = <<"virtualNext">>
    /\ Head(s) = "virtualPage" => Tail(s) = <<"virtualMerge">>
    /\ Head(s) = "memberRows" => Tail(s) = <<"memberFiles", "memberUnload">>
    /\ Head(s) = "memberFiles" => Tail(s) = <<"memberUnload">>
    /\ Head(s) = "virtualNext" => s = <<"virtualNext">>
    /\ Head(s) = "virtualMerge" => s = <<"virtualMerge">>

\* Every plan goes on so.
LEMMA VirtualPlanOnward == ASSUME NEW s \in VirtualPlans PROVE VirtualOnward(s)
<1>1. CASE s = ReadThenReplace
  <2>1. Head(s) = "virtualRead" /\ Tail(s) = PersistThenReplace
    BY <1>1, TailOfSeven DEF ReadThenReplace, PersistThenReplace
  <2> QED BY <1>1, <2>1 DEF VirtualOnward
<1>2. CASE s = ReadThenReload
  <2>1. Head(s) = "virtualRead" /\ Tail(s) = PersistThenReload
    BY <1>2, TailOfSix DEF ReadThenReload, PersistThenReload
  <2> QED BY <1>2, <2>1 DEF VirtualOnward
<1>3. CASE s = PersistThenReplace
  <2>1. Head(s) = "virtualPersist" /\ Tail(s) = ReplaceOn
    BY <1>3, TailOfSix DEF PersistThenReplace, ReplaceOn
  <2> QED BY <1>3, <2>1 DEF VirtualOnward
<1>4. CASE s = PersistThenReload
  <2>1. Head(s) = "virtualPersist" /\ Tail(s) = ReloadOn
    BY <1>4, TailOfFive DEF PersistThenReload, ReloadOn
  <2> QED BY <1>4, <2>1 DEF VirtualOnward
<1>5. CASE s = ReplaceOn
  <2>1. Head(s) = "virtualReplace" /\ Tail(s) = ReloadOn
    BY <1>5, TailOfFive DEF ReplaceOn, ReloadOn
  <2> QED BY <2>1 DEF VirtualOnward
<1>6. CASE s = ReloadOn
  <2>1. Head(s) = "virtualReload" /\ Tail(s) = SyncOn
    BY <1>6, TailOfFour DEF ReloadOn, SyncOn
  <2> QED BY <2>1 DEF VirtualOnward
<1>7. CASE s = SyncOn
  <2>1. Head(s) = "virtualSync" /\ Tail(s) = AssignOn
    BY <1>7, TailOfThree DEF SyncOn, AssignOn
  <2> QED BY <2>1 DEF VirtualOnward
<1>8. CASE s \in {TargetOn, <<"virtualCached">>, <<"virtualForward">>, <<"memberUnload">>}
  <2>1. Head(s) \in {"virtualTarget", "virtualCached", "virtualForward", "memberUnload"}
    BY <1>8 DEF TargetOn
  <2> QED BY <2>1 DEF VirtualOnward
<1>9. CASE s = <<"memberRows", "memberFiles", "memberUnload">>
  <2>1. Head(s) = "memberRows" /\ Tail(s) = <<"memberFiles", "memberUnload">>
    BY <1>9, TailOfThree
  <2> QED BY <2>1 DEF VirtualOnward
<1>10. CASE s = <<"memberFiles", "memberUnload">>
  <2>1. Head(s) = "memberFiles" /\ Tail(s) = <<"memberUnload">>
    BY <1>10, TailOfTwo
  <2> QED BY <2>1 DEF VirtualOnward
<1>11. CASE s = <<"virtualHit", "virtualNext">>
  <2>1. Head(s) = "virtualHit" /\ Tail(s) = <<"virtualNext">>
    BY <1>11, TailOfTwo
  <2> QED BY <2>1 DEF VirtualOnward
<1>12. CASE s = <<"virtualPage", "virtualMerge">>
  <2>1. Head(s) = "virtualPage" /\ Tail(s) = <<"virtualMerge">>
    BY <1>12, TailOfTwo
  <2> QED BY <2>1 DEF VirtualOnward
<1>13. CASE s = <<"virtualNext">>
  <2>1. Head(s) = "virtualNext"
    BY <1>13
  <2> QED BY <1>13, <2>1 DEF VirtualOnward
<1>14. CASE s = <<"virtualMerge">>
  <2>1. Head(s) = "virtualMerge"
    BY <1>14
  <2> QED BY <1>14, <2>1 DEF VirtualOnward
<1>15. CASE s = SeedOn
  <2>1. Head(s) = "virtualSeed" /\ Tail(s) = AssignOn
    BY <1>15, TailOfThree DEF SeedOn, AssignOn
  <2> QED BY <2>1 DEF VirtualOnward
<1>16. CASE s = AssignOn
  <2>1. Head(s) = "virtualAssign" /\ Tail(s) = TargetOn
    BY <1>16, TailOfTwo DEF AssignOn, TargetOn
  <2> QED BY <2>1 DEF VirtualOnward
<1> QED BY <1>1, <1>2, <1>3, <1>4, <1>5, <1>6, <1>7, <1>8, <1>9, <1>10, <1>11, <1>12, <1>13, <1>14, <1>15, <1>16
        DEF VirtualPlans, ConfigPlans, MemberPlans, ReaderPlans

\* The plans and their heads.
LEMMA VirtualPlanHeads ==
  ASSUME NEW s \in VirtualPlans
  PROVE  s # <<>> /\ Head(s) \in VirtualSteps /\ \A i \in 1 .. Len(s) : s[i] # "logged"
<1>1. s # <<>>
  <2>1. CASE s \in {ReadThenReplace, ReadThenReload, PersistThenReplace, PersistThenReload}
    <3>1. CASE s = ReadThenReplace
      BY <3>1 DEF ReadThenReplace
    <3>2. CASE s = ReadThenReload
      BY <3>2 DEF ReadThenReload
    <3>3. CASE s = PersistThenReplace
      BY <3>3 DEF PersistThenReplace
    <3>4. CASE s = PersistThenReload
      BY <3>4 DEF PersistThenReload
    <3> QED BY <2>1, <3>1, <3>2, <3>3, <3>4
  <2>2. CASE s \in {ReplaceOn, ReloadOn, SyncOn, SeedOn, AssignOn, TargetOn}
    BY <2>2 DEF ReplaceOn, ReloadOn, SyncOn, SeedOn, AssignOn, TargetOn
  <2>3. CASE s \in MemberPlans
    BY <2>3 DEF MemberPlans
  <2>4. CASE s \in ReaderPlans
    BY <2>4 DEF ReaderPlans
  <2> QED BY <2>1, <2>2, <2>3, <2>4 DEF VirtualPlans, ConfigPlans
<1>2. Head(s) \in VirtualSteps
  <2>1. CASE s \in ConfigPlans
    BY <2>1 DEF ConfigPlans, ReadThenReplace, ReadThenReload,
         PersistThenReplace, PersistThenReload, ReplaceOn, ReloadOn, SyncOn, SeedOn, AssignOn, TargetOn,
         VirtualSteps, StoreSteps
  <2>2. CASE s \in MemberPlans
    BY <2>2 DEF MemberPlans, VirtualSteps
  <2>3. CASE s \in ReaderPlans
    BY <2>3 DEF ReaderPlans, VirtualSteps, GetSteps, ListSteps
  <2> QED BY <2>1, <2>2, <2>3 DEF VirtualPlans
<1>3. \A i \in 1 .. Len(s) : s[i] # "logged"
  <2>1. CASE s \in ConfigPlans
    BY <2>1 DEF ConfigPlans, ReadThenReplace, ReadThenReload,
         PersistThenReplace, PersistThenReload, ReplaceOn, ReloadOn, SyncOn, SeedOn, AssignOn, TargetOn
  <2>2. CASE s \in MemberPlans
    BY <2>2 DEF MemberPlans
  <2>3. CASE s \in ReaderPlans
    BY <2>3 DEF ReaderPlans
  <2> QED BY <2>1, <2>2, <2>3 DEF VirtualPlans
<1> QED BY <1>1, <1>2, <1>3

-----------------------------------------------------------------------------
(* What a step does to the requests.                                       *)

\* One request becomes another.
LEMMA VirtualJobChanged ==
  ASSUME VirtualJobs, Versions' = Versions, NEW c \in Clients, NEW k, VirtualJob(k, Versions),
         job' = [job EXCEPT ![c] = k]
  PROVE  VirtualJobs' /\ job'[c] = k /\ \A d \in Clients \ {c} : job'[d] = job[d]
<1>1. job = [d \in Clients |-> job[d]]
  BY DEF VirtualJobs
<1>2. job' = [d \in Clients |-> job'[d]] /\ job'[c] = k /\ \A d \in Clients \ {c} : job'[d] = job[d]
  BY <1>1
<1>3. \A d \in Clients : VirtualJob(job'[d], Versions)
  BY <1>2 DEF VirtualJobs
<1> QED BY <1>2, <1>3 DEF VirtualJobs

\* What may be assumed of a request at one of its steps.
LEMMA VirtualAt ==
  ASSUME VirtualJobs, NEW c \in Clients, NEW x, At(c, x)
  PROVE  /\ x \in VirtualSteps /\ RequestShape(job[c]) /\ job = [d \in Clients |-> job[d]]
         /\ ConfigJob(job[c], x) /\ ReaderJob(job[c], x, Versions)
         /\ job[c].plan \in VirtualPlans /\ VirtualOnward(job[c].plan)
         /\ job[c].plan # <<>> /\ Head(job[c].plan) = x /\ Rest(c) = Tail(job[c].plan)
<1>1. VirtualJob(job[c], Versions) /\ job[c].plan # <<>> /\ Head(job[c].plan) = x
  BY DEF VirtualJobs, At
<1>2. job[c].plan \in VirtualPlans
  BY <1>1 DEF VirtualJob
<1>3. x \in VirtualSteps /\ VirtualOnward(job[c].plan)
  BY <1>1, <1>2, VirtualPlanHeads, VirtualPlanOnward
<1> QED BY <1>1, <1>2, <1>3 DEF VirtualJob, VirtualJobs, Rest

\* A request that answers is over.
LEMMA VirtualReplies ==
  ASSUME VirtualJobs, Versions' = Versions, NEW c \in Clients, NEW code, NEW got, Reply(c, code, got)
  PROVE  /\ VirtualJobs' /\ \A d \in Clients \ {c} : job'[d] = job[d]
         /\ \A x : ~(At(c, x)')
         /\ job'[c].op = job[c].op /\ job'[c].code = code /\ job'[c].got = got
<1>1. PICK k : k = [NoJob EXCEPT !.op = job[c].op, !.code = code, !.got = got]
  OBVIOUS
<1>2. RequestShape(k) /\ k.plan = <<>> /\ k.op = job[c].op /\ k.code = code /\ k.got = got
  BY <1>1 DEF RequestShape, NoJob
<1>3. job' = [job EXCEPT ![c] = k] /\ VirtualJob(k, Versions)
  BY <1>1, <1>2 DEF Reply, VirtualJob
<1>4. VirtualJobs' /\ job'[c] = k /\ \A d \in Clients \ {c} : job'[d] = job[d]
  BY <1>3, VirtualJobChanged
<1> QED BY <1>2, <1>4 DEF At

\* A request that fails is over: nothing of it is logged only.
LEMMA VirtualAborts ==
  ASSUME VirtualJobs, NEW c \in Clients, job[c].plan # <<>>, NEW code, Abort(c, code)
  PROVE  Reply(c, code, Nothing)
<1>1. job[c].plan \in VirtualPlans
  BY DEF VirtualJobs, VirtualJob
<1>2. Logged(c) = {}
  BY <1>1, VirtualPlanHeads DEF Logged
<1> QED BY <1>2 DEF Abort

\* A request goes on.
LEMMA VirtualGoesOn ==
  ASSUME VirtualJobs, Versions' = Versions, NEW c \in Clients, NEW k, VirtualJob(k, Versions),
         k.plan # <<>>, job' = [job EXCEPT ![c] = k]
  PROVE  /\ VirtualJobs' /\ \A d \in Clients \ {c} : job'[d] = job[d]
         /\ \A z : At(c, z)' <=> z = Head(k.plan)
         /\ job'[c] = k
<1>1. VirtualJobs' /\ job'[c] = k /\ \A d \in Clients \ {c} : job'[d] = job[d]
  BY VirtualJobChanged
<1> QED BY <1>1 DEF At

-----------------------------------------------------------------------------
(* What a step leaves alone.                                               *)

\* The configuration, the table and what the memory holds of them are what they were.
SameConfig ==
    /\ aux'.exists = aux.exists /\ aux'.config = aux.config /\ aux'.table = aux.table
    /\ aux'.live = aux.live /\ aux'.target = aux.target /\ aux'.up = aux.up /\ aux'.odd = aux.odd
    /\ aux'.writer = aux.writer /\ aux'.whole = aux.whole
\* The files a request read are served and listed still, or it is overtaken.
FilesStay(d) ==
    \A m \in Repositories, p \in Packages, v \in Versions :
        m \in aux.loaded /\ <<"file", MemberFile(m, p, v)>> \in job[d].reads =>
            \/ <<"file", MemberFile(m, p, v)>> \in raced'
            \/ /\ m \in aux'.loaded
               /\ MemberFile(m, p, v) \in DOMAIN store => MemberFile(m, p, v) \in DOMAIN store'
               /\ v \in Lists(m, p) => v \in Lists(m, p)'

\* A file that stays is listed still.
LEMMA ListsStay ==
  ASSUME NEW m, NEW p, NEW v, aux'.lists = aux.lists, Versions' = Versions,
         MemberFile(m, p, v) \in DOMAIN store => MemberFile(m, p, v) \in DOMAIN store', v \in Lists(m, p)
  PROVE  v \in Lists(m, p)'
  BY DEF Lists, HasMember

\* Where no file goes and no member, and the lists kept are the same, all is served still.
LEMMA AllStays ==
  ASSUME aux'.loaded = aux.loaded, aux'.lists = aux.lists, Versions' = Versions, DOMAIN store \subseteq DOMAIN store'
  PROVE  \A d \in Clients : FilesStay(d)
  BY ListsStay DEF FilesStay

\* The target, where a step leaves it, the members and the other requests alone.
LEMMA TargetRests ==
  ASSUME TargetSound, aux'.target = aux.target, aux'.live = aux.live, aux'.writer = aux.writer,
         aux'.whole = aux.whole, NEW c, \A d \in Clients \ {c} : job'[d] = job[d], ~(At(c, "virtualTarget")')
  PROVE  TargetSound'
<1>1. \A t, list : ValidTarget(t, list)' <=> ValidTarget(t, list)
  BY DEF ValidTarget, EnabledOf
<1>2. ValidTarget(aux.target, aux.live)' <=> ValidTarget(aux.target, aux.live)
  BY <1>1 DEF ValidTarget, EnabledOf
<1>3. ASSUME NEW d \in Clients, At(d, "virtualTarget")', aux'.writer = {d}
      PROVE  ValidTarget(job[d].mem.publish, aux.live)'
  <2>1. d # c /\ job'[d] = job[d] /\ At(d, "virtualTarget") /\ aux.writer = {d}
    BY <1>3 DEF At
  <2>2. ValidTarget(job[d].mem.publish, aux.live)
    BY <2>1 DEF TargetSound
  <2> QED BY <2>1, <2>2 DEF ValidTarget, EnabledOf
<1>4. \A d, e \in aux'.writer : d = e
  BY DEF TargetSound
<1> QED BY <1>2, <1>3, <1>4 DEF TargetSound

\* The target that is chosen depends on the configuration and the table only.
LEMMA SameTarget ==
  ASSUME aux'.config = aux.config, aux'.table = aux.table
  PROVE  SelectTarget(aux.config, aux.table)' = SelectTarget(aux.config, aux.table)
  BY DEF SelectTarget, EnabledOf, FirstOf, Before

\* A request that stores no configuration leaves those that do as they were.
LEMMA ConfigRests ==
  ASSUME Spoilt \/ ConfigSound, NEW c \in Clients, \A d \in Clients \ {c} : job'[d] = job[d],
         raced \subseteq raced', broken \subseteq broken', SameConfig,
         \A x \in StoreSteps :
             ~At(c, x) /\ (At(c, x)' => x = "virtualPersist" /\ job'[c].op = "updateConfig")
  PROVE  (Spoilt \/ ConfigSound)'
<1>1. CASE Spoilt
  BY <1>1 DEF Spoilt, SameConfig
<1>2. CASE ConfigSound
  <2>1. TableFollows' <=> TableFollows
    BY DEF TableFollows, Loads, ListLoads, SameConfig
  <2>0. SelectTarget(aux.config, aux.table)' = SelectTarget(aux.config, aux.table)
    BY SameTarget DEF SameConfig
  <2>2. VirtualMemoryFollows' <=> VirtualMemoryFollows
    BY <2>0, <2>1 DEF VirtualMemoryFollows, SameConfig
  <2>3. ASSUME NEW d \in Clients PROVE ConfigFollows(d)'
    <3>1. CASE d = c
      BY <3>1 DEF ConfigFollows, StoreSteps
    <3>2. CASE d # c
      <4>1. ConfigFollows(d) /\ job'[d] = job[d] /\ \A x : At(d, x)' <=> At(d, x)
        BY <1>2, <3>2 DEF ConfigSound, At
      <4> QED BY <2>0, <2>1, <4>1 DEF ConfigFollows, SameConfig
    <3> QED BY <3>1, <3>2
  <2>4. ASSUME NEW d \in Clients, Storing(d) PROVE Storing(d)'
    BY <2>4 DEF Storing, At
  <2> QED BY <1>2, <2>2, <2>3, <2>4 DEF ConfigSound
<1> QED BY <1>1, <1>2

\* A reader that does not move keeps what it knows.
LEMMA ReaderRests ==
  ASSUME VirtualJobs, NEW d \in Clients, job'[d] = job[d], raced \subseteq raced', FilesStay(d),
         GetFollows(d) /\ ListFollows(d)
  PROVE  GetFollows(d)' /\ ListFollows(d)'
<1>1. PICK j : j = job[d]
  OBVIOUS
<1>2. \A x : At(d, x)' <=> At(d, x)
  BY DEF At
<1>3. ASSUME NEW m, NEW v \in Versions, j.p \in Packages, ListShape(j.mem.list)
      PROVE  /\ Available(m, j, v) => Available(m, j, v)' \/ Copy(m, j, v) \in raced'
             /\ OnList(m, j, v) => OnList(m, j, v)' \/ Copy(m, j, v) \in raced'
  <2>1. CASE m \in Repositories /\ m \in aux.loaded /\ Copy(m, j, v) \in j.reads
    <3>1. \/ <<"file", MemberFile(m, j.p, v)>> \in raced'
          \/ /\ m \in aux'.loaded
             /\ MemberFile(m, j.p, v) \in DOMAIN store => MemberFile(m, j.p, v) \in DOMAIN store'
             /\ v \in Lists(m, j.p) => v \in Lists(m, j.p)'
      BY <1>1, <1>3, <2>1 DEF Copy, FilesStay
    <3>2. Available(m, j, v) => Available(m, j, v)' \/ Copy(m, j, v) \in raced'
      BY <3>1 DEF Available, Copy
    <3>3. OnList(m, j, v) => OnList(m, j, v)' \/ Copy(m, j, v) \in raced'
      BY <3>1 DEF OnList, Copy
    <3> QED BY <3>2, <3>3
  <2>2. CASE ~(m \in Repositories /\ m \in aux.loaded /\ Copy(m, j, v) \in j.reads)
    BY <1>3, <2>2 DEF Available, OnList, ListShape
  <2> QED BY <2>1, <2>2
<1>4. GetFollows(d)'
  <2>1. SUFFICES ASSUME At(d, "virtualHit") \/ At(d, "virtualNext"), NEW m \in j.mem.held
                 PROVE  m \in j.mem.failed \/ Copy(m, j, j.v) \in raced' \/ Available(m, j, j.v)'
    BY <1>1, <1>2 DEF GetFollows, GetKnows, Copy, Available
  <2>2. m \in j.mem.failed \/ Copy(m, j, j.v) \in raced \/ Available(m, j, j.v)
    BY <1>1, <2>1 DEF GetFollows, GetKnows
  <2>3. j.p \in Packages /\ j.v \in Versions /\ ListShape(j.mem.list)
    BY <1>1, <2>1, VirtualAt DEF ReaderJob, GetSteps, ReaderMem
  <2> QED BY <1>3, <2>2, <2>3
<1>5. ListFollows(d)'
  <2>1. SUFFICES ASSUME At(d, "virtualMerge"), NEW h \in j.mem.held
                 PROVE  \/ h[2] \in j.mem.found \/ h[1] \in j.mem.failed
                        \/ Copy(h[1], j, h[2]) \in raced' \/ OnList(h[1], j, h[2])'
    BY <1>1, <1>2 DEF ListFollows, ListKnows, Copy, OnList, Lists
  <2>2. \/ h[2] \in j.mem.found \/ h[1] \in j.mem.failed
        \/ Copy(h[1], j, h[2]) \in raced \/ OnList(h[1], j, h[2])
    BY <1>1, <2>1 DEF ListFollows, ListKnows
  <2>3. j.p \in Packages /\ h[2] \in Versions /\ ListShape(j.mem.list)
    <3>1. ReaderJob(j, "virtualMerge", Versions)
      BY <1>1, <2>1, VirtualAt
    <3>2. j.p \in Packages /\ ListShape(j.mem.list) /\ j.mem.held \subseteq Repositories \X Versions
      BY <3>1 DEF ReaderJob, ListSteps, ReaderMem
    <3> QED BY <2>1, <3>2
  <2> QED BY <1>3, <2>2, <2>3
<1> QED BY <1>4, <1>5

\* The invariant, from its parts.
LEMMA VirtualKept ==
  ASSUME VirtualInv, kind \in VirtualKinds, NEW c \in Clients, VirtualJobs', VirtualTables',
         TargetSound', (Spoilt \/ ConfigSound)', raced \subseteq raced',
         \A d \in Clients \ {c} : job'[d] = job[d] /\ FilesStay(d),
         GetFollows(c)' /\ ListFollows(c)'
  PROVE  VirtualInv'
<1>1. ASSUME NEW d \in Clients PROVE GetFollows(d)' /\ ListFollows(d)'
  <2>1. CASE d # c
    BY <2>1, ReaderRests DEF VirtualInv
  <2> QED BY <2>1
<1> QED BY <1>1 DEF VirtualInv

\* A step that changes neither what the repository is made of nor the files.
LEMMA VirtualQuiet ==
  ASSUME VirtualInv, kind \in VirtualKinds, NEW c \in Clients, kind' = kind,
         SameConfig, aux'.loaded = aux.loaded, VirtualShape(aux'), UsedShape(used'),
         raced \subseteq raced', broken \subseteq broken',
         VirtualJobs', \A d \in Clients \ {c} : job'[d] = job[d] /\ FilesStay(d),
         \A x \in StoreSteps :
             ~At(c, x) /\ (At(c, x)' => x = "virtualPersist" /\ job'[c].op = "updateConfig"),
         GetFollows(c)' /\ ListFollows(c)'
  PROVE  VirtualInv'
<1>1. VirtualTables'
  BY DEF VirtualInv, VirtualTables, SameConfig
<1>2. (Spoilt \/ ConfigSound)'
  BY ConfigRests DEF VirtualInv
<1>3. TargetSound'
  BY TargetRests DEF VirtualInv, SameConfig, StoreSteps
<1> QED BY <1>1, <1>2, <1>3, VirtualKept

\* A request that begins.
LEMMA VirtualStarted ==
  ASSUME VirtualInv, kind \in VirtualKinds, NEW c \in Clients, NEW k, NEW y, Start(c, k),
         RequestShape(k), k.plan \in VirtualPlans, y = Head(k.plan),
         ConfigJob(k, y), ReaderJob(k, y, Versions),
         y \notin {"virtualHit", "virtualNext", "virtualMerge"},
         y \in StoreSteps => y = "virtualPersist" /\ k.op = "updateConfig"
  PROVE  VirtualInv'
<1>1. /\ VirtualJobs /\ VirtualTables
      /\ job' = [job EXCEPT ![c] = k] /\ used' = [used EXCEPT !.requests = @ + 1]
      /\ kind' = kind /\ store' = store /\ aux' = aux /\ raced' = raced /\ broken' = broken
      /\ job[c].plan = <<>>
  BY DEF VirtualInv, Start, Free, Idle, worldVars, historyVars
<1>2. UsedShape(used') /\ used'.bound = used.bound
  <2>1. UsedShape(used)
    BY <1>1 DEF VirtualTables
  <2> QED BY <1>1, <2>1 DEF UsedShape
<1>3. Versions' = Versions
  BY <1>2 DEF Versions
<1>4. k.plan # <<>>
  BY VirtualPlanHeads
<1>5. VirtualJob(k, Versions)
  BY <1>4 DEF VirtualJob
<1>6. /\ VirtualJobs' /\ \A d \in Clients \ {c} : job'[d] = job[d]
      /\ \A z : At(c, z)' <=> z = y
      /\ job'[c] = k
  BY <1>1, <1>3, <1>4, <1>5, VirtualGoesOn
<1>7. \A x : ~At(c, x)
  BY <1>1 DEF At
<1>8. GetFollows(c)' /\ ListFollows(c)'
  BY <1>6 DEF GetFollows, ListFollows
<1>9. SameConfig /\ VirtualShape(aux') /\ \A d \in Clients : FilesStay(d)
  BY <1>1, <1>3, AllStays DEF SameConfig, VirtualTables
<1> QED BY <1>1, <1>2, <1>6, <1>7, <1>8, <1>9, VirtualQuiet

\* The lists of members an administrator sends.
LEMMA ListsShaped ==
  /\ \A list \in MemberLists \cup {EmptyMap} : ListShape(list)
  /\ \A rank \in {1, 2} : ListShape(FirstConfig(rank).members)
  /\ Repositories = {"hosted", "proxy", "other"}
<1>1. Repositories = {"hosted", "proxy", "other"}
  BY DEF Repositories, MemberRank
<1>2. ListShape(EmptyMap)
  BY DEF ListShape, EmptyMap
<1>3. \A rank \in {1, 2} : ListShape(FirstConfig(rank).members)
  BY <1>1 DEF ListShape, FirstConfig, Member
<1>4. ASSUME NEW list \in MemberLists PROVE ListShape(list)
  BY <1>1 DEF ListShape, MemberLists, Member
<1> QED BY <1>1, <1>2, <1>3, <1>4

\* The requests that administer the repository begin.
LEMMA AdminStarts ==
  ASSUME VirtualInv, kind \in VirtualKinds, NEW c \in Clients,
         UpdateMembers(c) \/ UpdateResolutionOrder(c) \/ UpdateConfig(c)
  PROVE  VirtualInv'
<1>1. PICK op, list, t, plan, k :
        /\ list \in MemberLists \cup {EmptyMap}
        /\ k = VirtualAdmin(op, list, t, plan) /\ Start(c, k)
        /\ \/ op = "updateMembers" /\ plan = ReadThenReplace
           \/ op = "updateOrder" /\ plan = ReadThenReload
           \/ op = "updateConfig" /\ plan = PersistThenReload
  <2>1. CASE UpdateMembers(c)
    BY <2>1, PlansSpelled DEF UpdateMembers
  <2>2. CASE UpdateResolutionOrder(c)
    BY <2>2, PlansSpelled DEF UpdateResolutionOrder
  <2>3. CASE UpdateConfig(c)
    BY <2>3, PlansSpelled DEF UpdateConfig
  <2> QED BY <2>1, <2>2, <2>3
<1>2. RequestShape(k) /\ k.op = op /\ k.plan = plan
  BY <1>1 DEF VirtualAdmin, NoJob, RequestShape
<1>3. ConfigMem(k.mem)
  <2>1. k.mem = [members |-> list, publish |-> t, list |-> list]
    BY <1>1 DEF VirtualAdmin, NoJob
  <2>2. ListShape(list)
    BY <1>1, ListsShaped
  <2> QED BY <2>1, <2>2 DEF ConfigMem
<1>4. PICK y : y = Head(plan)
  OBVIOUS
<1>5. /\ plan \in VirtualPlans
      /\ y = IF op = "updateConfig" THEN "virtualPersist" ELSE "virtualRead"
  <2>1. plan \in VirtualPlans
    BY <1>1 DEF VirtualPlans, ConfigPlans
  <2>2. y = IF op = "updateConfig" THEN "virtualPersist" ELSE "virtualRead"
    BY <1>1, <1>4 DEF ReadThenReplace, ReadThenReload, PersistThenReload
  <2> QED BY <2>1, <2>2
<1>6. ReadThenReplace # ReadThenReload /\ \A q \in {ReadThenReplace, ReadThenReload} : q # PersistThenReload
  <2>1. Len(ReadThenReplace) = 7 /\ Len(ReadThenReload) = 6 /\ Len(PersistThenReload) = 5
    BY DEF ReadThenReplace, ReadThenReload, PersistThenReload
  <2> QED BY <2>1
<1>7. PersistThenReplace \notin {ReadThenReplace, ReadThenReload, PersistThenReload}
  <2>1. Len(PersistThenReplace) = 6 /\ Head(PersistThenReplace) = "virtualPersist"
        /\ Head(ReadThenReload) = "virtualRead"
        /\ Len(ReadThenReplace) = 7 /\ Len(PersistThenReload) = 5
    BY DEF ReadThenReplace, ReadThenReload, PersistThenReload, PersistThenReplace
  <2> QED BY <2>1
<1>8. ConfigJob(k, y)
  BY <1>1, <1>2, <1>3, <1>5, <1>6, <1>7 DEF ConfigJob, StoreSteps
<1>9. ReaderJob(k, y, Versions)
  BY <1>5 DEF ReaderJob, GetSteps, ListSteps
<1> QED BY <1>1, <1>2, <1>4, <1>5, <1>8, <1>9, VirtualStarted DEF StoreSteps

\* The deletion of a member begins.
LEMMA DeleteMemberStarts ==
  ASSUME VirtualInv, kind \in VirtualKinds, NEW c \in Clients, DeleteMember(c) PROVE VirtualInv'
<1>1. PICK m, k : /\ Start(c, k)
                  /\ k = [NoJob EXCEPT !.op = "deleteMember", !.p = m,
                                       !.plan = <<"memberRows", "memberFiles", "memberUnload">>]
  BY DEF DeleteMember
<1>2. RequestShape(k) /\ k.plan = <<"memberRows", "memberFiles", "memberUnload">>
  BY <1>1 DEF NoJob, RequestShape
<1>3. k.plan \in VirtualPlans /\ Head(k.plan) = "memberRows"
  BY <1>2 DEF VirtualPlans, MemberPlans
<1>4. k.plan \notin {ReadThenReplace, PersistThenReplace, ReadThenReload, PersistThenReload}
  BY <1>3 DEF ReadThenReplace, PersistThenReplace, ReadThenReload, PersistThenReload
<1>5. ConfigJob(k, "memberRows") /\ ReaderJob(k, "memberRows", Versions)
  BY <1>4 DEF ConfigJob, StoreSteps, ReaderJob, GetSteps, ListSteps
<1> QED BY <1>1, <1>2, <1>3, <1>5, VirtualStarted DEF StoreSteps

\* The requests that read the repository or publish to it begin.
LEMMA ReaderStarts ==
  ASSUME VirtualInv, kind \in VirtualKinds, NEW c \in Clients,
         VirtualGet(c) \/ VirtualList(c) \/ VirtualPublish(c)
  PROVE  VirtualInv'
<1>1. /\ <<"virtualCached">> \in VirtualPlans /\ Head(<<"virtualCached">>) = "virtualCached"
      /\ <<"virtualPage", "virtualMerge">> \in VirtualPlans
      /\ Head(<<"virtualPage", "virtualMerge">>) = "virtualPage"
      /\ <<"virtualForward">> \in VirtualPlans /\ Head(<<"virtualForward">>) = "virtualForward"
  BY DEF VirtualPlans, ReaderPlans
<1>2. ASSUME NEW k, k.plan # <<>>, Head(k.plan) \notin StoreSteps \cup {"virtualRead"}
      PROVE  ConfigJob(k, Head(k.plan))
  BY <1>2 DEF ConfigJob, StoreSteps, ReadThenReplace, PersistThenReplace, ReadThenReload, PersistThenReload
<1>3. ASSUME NEW op, NEW p, NEW v, NEW denied, NEW plan, NEW k, k = ReadOf(op, p, v, denied, plan)
      PROVE  /\ RequestShape(k) /\ k.op = op /\ k.p = p /\ k.v = v /\ k.plan = plan
             /\ ReaderMem(k.mem)
  <2>1. RequestShape(k) /\ k.op = op /\ k.p = p /\ k.v = v /\ k.plan = plan
    BY <1>3 DEF ReadOf, NoJob, RequestShape
  <2>2. k.mem = [denied |-> denied, list |-> EmptyMap, refused |-> FALSE, found |-> {}, held |-> {},
                 failed |-> {}, all |-> EmptyMap]
    BY <1>3 DEF ReadOf, NoJob
  <2>3. ListShape(EmptyMap)
    BY ListsShaped
  <2> QED BY <2>1, <2>2, <2>3 DEF ReaderMem
<1>4. CASE VirtualGet(c)
  <2>1. PICK p \in Packages, v \in Versions, denied \in Readers :
           Start(c, ReadOf("virtualGet", p, v, denied, <<"virtualCached">>))
    BY <1>4 DEF VirtualGet
  <2>2. PICK k : k = ReadOf("virtualGet", p, v, denied, <<"virtualCached">>)
    OBVIOUS
  <2>3. /\ RequestShape(k) /\ k.op = "virtualGet" /\ k.p = p /\ k.v = v /\ k.plan = <<"virtualCached">>
        /\ ReaderMem(k.mem)
    BY <1>3, <2>2
  <2>4. ReaderJob(k, "virtualCached", Versions)
    BY <2>3 DEF ReaderJob, GetSteps, ListSteps
  <2>5. ConfigJob(k, "virtualCached")
    BY <1>1, <1>2, <2>3 DEF StoreSteps
  <2> QED BY <1>1, <2>1, <2>2, <2>3, <2>4, <2>5, VirtualStarted DEF StoreSteps
<1>5. CASE VirtualList(c)
  <2>1. PICK p \in Packages, denied \in Readers :
           Start(c, ReadOf("virtualList", p, 0, denied, <<"virtualPage", "virtualMerge">>))
    BY <1>5 DEF VirtualList
  <2>2. PICK k : k = ReadOf("virtualList", p, 0, denied, <<"virtualPage", "virtualMerge">>)
    OBVIOUS
  <2>3. /\ RequestShape(k) /\ k.op = "virtualList" /\ k.p = p /\ k.plan = <<"virtualPage", "virtualMerge">>
        /\ ReaderMem(k.mem)
    BY <1>3, <2>2
  <2>4. ReaderJob(k, "virtualPage", Versions)
    BY <2>3 DEF ReaderJob, GetSteps, ListSteps
  <2>5. ConfigJob(k, "virtualPage")
    BY <1>1, <1>2, <2>3 DEF StoreSteps
  <2> QED BY <1>1, <2>1, <2>2, <2>3, <2>4, <2>5, VirtualStarted DEF StoreSteps
<1>6. CASE VirtualPublish(c)
  <2>1. PICK p, v, b, k :
           /\ k = [NoJob EXCEPT !.op = "virtualPublish", !.p = p, !.v = v, !.body = b, !.plan = <<"virtualForward">>]
           /\ Start(c, k)
    BY <1>6 DEF VirtualPublish
  <2>2. RequestShape(k) /\ k.plan = <<"virtualForward">>
    BY <2>1 DEF NoJob, RequestShape
  <2>3. ReaderJob(k, "virtualForward", Versions)
    BY DEF ReaderJob, GetSteps, ListSteps
  <2>4. ConfigJob(k, "virtualForward")
    BY <1>1, <1>2, <2>2 DEF StoreSteps
  <2> QED BY <1>1, <2>1, <2>2, <2>3, <2>4, VirtualStarted DEF StoreSteps
<1> QED BY <1>4, <1>5, <1>6

\* A request ends and changes nothing but what it answers.
LEMMA VirtualAnswered ==
  ASSUME VirtualInv, kind \in VirtualKinds, NEW c \in Clients, kind' = kind,
         SameConfig, aux'.loaded = aux.loaded, aux'.lists = aux.lists, VirtualShape(aux'), UsedShape(used'),
         Versions' = Versions, store' = store, raced' = raced, broken \subseteq broken',
         NEW x, At(c, x), x \notin StoreSteps, NEW code, NEW got, Reply(c, code, got)
  PROVE  VirtualInv'
<1>1. VirtualJobs
  BY DEF VirtualInv
<1>2. /\ VirtualJobs' /\ \A d \in Clients \ {c} : job'[d] = job[d]
      /\ \A y : ~(At(c, y)')
  BY <1>1, VirtualReplies
<1>3. \A y \in StoreSteps : ~At(c, y)
  BY DEF At
<1>4. GetFollows(c)' /\ ListFollows(c)'
  BY <1>2 DEF GetFollows, ListFollows
<1>5. \A d \in Clients : FilesStay(d)
  BY AllStays
<1> QED BY <1>2, <1>3, <1>4, <1>5, VirtualQuiet

-----------------------------------------------------------------------------
(* The steps that store a configuration.                                   *)

\* The plans of these steps.
LEMMA ConfigHeads ==
  /\ Head(ReadThenReplace) = "virtualRead" /\ Head(ReadThenReload) = "virtualRead"
  /\ Head(PersistThenReplace) = "virtualPersist" /\ Head(PersistThenReload) = "virtualPersist"
  /\ Head(ReplaceOn) = "virtualReplace" /\ Head(ReloadOn) = "virtualReload"
  /\ Head(SyncOn) = "virtualSync" /\ Head(SeedOn) = "virtualSeed" /\ Head(AssignOn) = "virtualAssign"
  /\ Head(TargetOn) = "virtualTarget"
  /\ PersistThenReplace # PersistThenReload
<1>1. Len(PersistThenReplace) = 6 /\ Len(PersistThenReload) = 5
  BY DEF PersistThenReplace, PersistThenReload
<1> QED BY <1>1 DEF ReadThenReplace, ReadThenReload, PersistThenReplace, PersistThenReload,
                    ReplaceOn, ReloadOn, SyncOn, SeedOn, AssignOn, TargetOn

\* A request on its way through them.
LEMMA ConfigJobOf ==
  ASSUME NEW k, NEW versions, RequestShape(k), ConfigMem(k.mem), VConfig \in k.reads,
         \/ k.plan = PersistThenReplace /\ k.op = "updateMembers"
         \/ k.plan = PersistThenReload /\ k.op = "updateOrder"
         \/ k.plan \in {ReplaceOn, ReloadOn, SyncOn, SeedOn, AssignOn, TargetOn}
  PROVE  VirtualJob(k, versions) /\ k.plan # <<>>
<1>1. k.plan \in VirtualPlans
  BY DEF VirtualPlans, ConfigPlans
<1>2. k.plan # <<>>
  BY <1>1, VirtualPlanHeads
<1>3. PICK y : y = Head(k.plan)
  OBVIOUS
<1>4. y \in StoreSteps
  BY <1>3, ConfigHeads DEF StoreSteps
<1>5. ConfigJob(k, y)
  BY <1>4, ConfigHeads DEF ConfigJob
<1>6. ReaderJob(k, y, versions)
  BY <1>4 DEF ReaderJob, StoreSteps, GetSteps, ListSteps
<1> QED BY <1>1, <1>2, <1>3, <1>5, <1>6 DEF VirtualJob

\* What a request at one of these steps has.
LEMMA StoringHas ==
  ASSUME VirtualJobs, NEW c \in Clients, NEW x \in StoreSteps, At(c, x)
  PROVE  /\ ConfigMem(job[c].mem)
         /\ VConfig \in job[c].reads \/ (x = "virtualPersist" /\ job[c].op = "updateConfig")
  BY VirtualAt DEF ConfigJob

\* What the others have read or stored is still so when the configuration and the table are.
LEMMA OthersFollow ==
  ASSUME ConfigSound, NEW c \in Clients, \A d \in Clients \ {c} : job'[d] = job[d],
         aux'.exists = aux.exists, aux'.config = aux.config, aux'.table = aux.table,
         aux'.live = aux.live \/ aux'.live = aux.table
  PROVE  /\ \A d \in Clients \ {c} : ConfigFollows(d)' /\ (Storing(d)' <=> Storing(d))
         /\ TableFollows' <=> TableFollows
<1>1. TableFollows' <=> TableFollows
  BY DEF TableFollows, Loads, ListLoads
<1>0. SelectTarget(aux.config, aux.table)' = SelectTarget(aux.config, aux.table)
  BY SameTarget
<1>2. ASSUME NEW d \in Clients \ {c} PROVE ConfigFollows(d)' /\ (Storing(d)' <=> Storing(d))
  <2>1. ConfigFollows(d) /\ job'[d] = job[d] /\ \A x : At(d, x)' <=> At(d, x)
    BY DEF ConfigSound, At
  <2>2. ConfigFollows(d)'
    BY <1>0, <1>1, <2>1 DEF ConfigFollows
  <2> QED BY <2>1, <2>2 DEF Storing
<1> QED BY <1>1, <1>2

\* Nobody else has read or stored the configuration that a request writes undisturbed.
LEMMA NobodyElseStores ==
  ASSUME VirtualJobs, NEW c \in Clients, \A d \in Clients \ {c} : job'[d] = job[d],
         Touch(c, {VConfig}), VConfig \notin raced'
  PROVE  \A d \in Clients \ {c} : ConfigFollows(d)' /\ ~Storing(d) /\ ~(Storing(d)')
<1>1. ASSUME NEW d \in Clients \ {c} PROVE ConfigFollows(d)' /\ ~Storing(d) /\ ~(Storing(d)')
  <2>1. VConfig \notin job[d].reads
    BY DEF Touch, Overtaken
  <2>2. ASSUME NEW x \in StoreSteps, At(d, x) PROVE x = "virtualPersist" /\ job[d].op = "updateConfig"
    BY <2>1, <2>2, StoringHas
  <2>3. job'[d] = job[d] /\ \A x : At(d, x)' <=> At(d, x)
    BY DEF At
  <2>4. ~Storing(d) /\ ~(Storing(d)')
    BY <2>2, <2>3 DEF Storing
  <2>5. ConfigFollows(d)'
    BY <2>2, <2>3 DEF ConfigFollows, StoreSteps
  <2> QED BY <2>4, <2>5
<1> QED BY <1>1

\* What is spoilt stays so.
LEMMA SpoiltStays ==
  ASSUME Spoilt \/ ConfigSound, raced \subseteq raced', broken \subseteq broken',
         aux.odd \subseteq aux'.odd, aux'.up => aux.up, ~(Spoilt')
  PROVE  ~Spoilt /\ ConfigSound
  BY DEF Spoilt

\* Steps of requests that store a configuration: what is left to show is that the
\* configuration follows.
LEMMA StoreStepKeeps ==
  ASSUME VirtualInv, kind \in VirtualKinds, kind' = kind, NEW c \in Clients,
         aux'.loaded = aux.loaded, store' = store, raced \subseteq raced', broken \subseteq broken',
         aux.odd \subseteq aux'.odd, aux'.up => aux.up,
         aux'.lists = aux.lists, Versions' = Versions, VirtualJobs', VirtualTables', TargetSound',
         \A d \in Clients \ {c} : job'[d] = job[d],
         \A x \in {"virtualHit", "virtualNext", "virtualMerge"} : ~(At(c, x)'),
         ~Spoilt /\ ConfigSound /\ ~(Spoilt') => ConfigSound'
  PROVE  VirtualInv'
<1>1. (Spoilt \/ ConfigSound)'
  <2>1. SUFFICES ASSUME ~(Spoilt') PROVE ConfigSound'
    OBVIOUS
  <2>2. ~Spoilt /\ ConfigSound
    BY <2>1, SpoiltStays DEF VirtualInv
  <2> QED BY <2>1, <2>2
<1>2. GetFollows(c)' /\ ListFollows(c)'
  BY DEF GetFollows, ListFollows
<1>3. \A d \in Clients \ {c} : FilesStay(d)
  BY AllStays
<1> QED BY <1>1, <1>2, <1>3, VirtualKept

\* The stored configuration is read and the payload laid over it.
LEMMA ReadConfigKeeps ==
  ASSUME VirtualInv, kind \in VirtualKinds, NEW c \in Clients, ReadConfig(c) PROVE VirtualInv'
<1>1. /\ VirtualJobs /\ VirtualTables /\ At(c, "virtualRead") /\ kind' = kind
      /\ store' = store /\ aux' = aux /\ used' = used /\ raced' = raced /\ broken' = broken
  BY DEF VirtualInv, ReadConfig, worldVars, historyVars
<1>2. PICK op, members, publish :
        /\ op = job[c].op
        /\ members = IF op = "updateOrder" THEN aux.config.members ELSE job[c].mem.members
        /\ publish = IF job[c].mem.publish = {} THEN aux.config.publish ELSE job[c].mem.publish
  OBVIOUS
<1>3. Versions' = Versions /\ SameConfig /\ VirtualShape(aux') /\ UsedShape(used')
  BY <1>1 DEF Versions, SameConfig, VirtualTables
<1>4. CASE Reply(c, 400, Nothing)
  BY <1>1, <1>3, <1>4, VirtualAnswered DEF StoreSteps
<1>5. CASE /\ TargetAccepted(publish, members)
           /\ Recall(c, Rest(c), [members |-> members, publish |-> publish, list |-> members], {VConfig})
  <2>1. /\ RequestShape(job[c]) /\ job = [d \in Clients |-> job[d]] /\ ConfigMem(job[c].mem)
        /\ \/ op = "updateMembers" /\ Rest(c) = PersistThenReplace
           \/ op = "updateOrder" /\ Rest(c) = PersistThenReload
    <3>1. /\ RequestShape(job[c]) /\ job = [d \in Clients |-> job[d]] /\ ConfigJob(job[c], "virtualRead")
          /\ VirtualOnward(job[c].plan) /\ Head(job[c].plan) = "virtualRead" /\ Rest(c) = Tail(job[c].plan)
      BY <1>1, VirtualAt
    <3>2. \/ job[c].plan = ReadThenReplace /\ Rest(c) = PersistThenReplace
          \/ job[c].plan = ReadThenReload /\ Rest(c) = PersistThenReload
      BY <3>1 DEF VirtualOnward
    <3> QED BY <1>2, <3>1, <3>2 DEF ConfigJob
  <2>2. PICK plan, mem : /\ plan = Rest(c)
                         /\ mem = [members |-> members, publish |-> publish, list |-> members]
    OBVIOUS
  <2>3. PICK k : /\ job' = [job EXCEPT ![c] = k] /\ RequestShape(k)
                 /\ k.plan = plan /\ k.mem = mem /\ k.reads = {VConfig} /\ k.op = op
    <3>1. Recall(c, plan, mem, {VConfig})
      BY <1>5, <2>2
    <3>2. PICK k : /\ job' = [job EXCEPT ![c] = k] /\ RequestShape(k)
                   /\ k.plan = plan /\ k.mem = mem /\ k.reads = {VConfig} /\ k.op = job[c].op
      BY <2>1, <3>1, Recalled
    <3> QED BY <1>2, <3>2
  <2>4. ConfigMem(mem) /\ mem.members = members /\ mem.publish = publish
    <3>1. ListShape(members)
      BY <1>1, <1>2, <2>1 DEF VirtualTables, ConfigMem
    <3> QED BY <2>2, <3>1 DEF ConfigMem
  <2>5. VirtualJob(k, Versions) /\ k.plan # <<>>
    BY <2>1, <2>2, <2>3, <2>4, ConfigJobOf
  <2>6. /\ VirtualJobs' /\ \A d \in Clients \ {c} : job'[d] = job[d]
        /\ \A z : At(c, z)' <=> z = Head(k.plan)
        /\ job'[c] = k
    BY <1>1, <1>3, <2>3, <2>5, VirtualGoesOn
  <2>7. \A z : At(c, z)' <=> z = "virtualPersist"
    BY <2>1, <2>2, <2>3, <2>6, ConfigHeads
  <2>8. VirtualTables' /\ TargetSound'
    BY <1>1, <2>6, <2>7, TargetRests DEF VirtualTables, VirtualInv
  <2>9. ASSUME ConfigSound PROVE ConfigSound'
    <3>1. /\ \A d \in Clients \ {c} : ConfigFollows(d)' /\ (Storing(d)' <=> Storing(d))
          /\ TableFollows' <=> TableFollows
      BY <1>1, <2>6, <2>9, OthersFollow
    <3>2. ConfigFollows(c)'
      <4>1. ValidTarget(publish, members)
        BY <1>5 DEF TargetAccepted
      <4>2. op = "updateOrder" => members = aux'.config.members
        BY <1>1, <1>2
      <4> QED BY <2>3, <2>4, <2>6, <2>7, <4>1, <4>2 DEF ConfigFollows
    <3>3. ~Storing(c)
      BY <1>1 DEF Storing, StoreSteps, At
    <3>4. VirtualMemoryFollows' <=> VirtualMemoryFollows
      BY <1>1, <3>1, SameTarget DEF VirtualMemoryFollows
    <3> QED BY <2>9, <3>1, <3>2, <3>3, <3>4 DEF ConfigSound
  <2> QED BY <1>1, <1>3, <2>6, <2>7, <2>8, <2>9, StoreStepKeeps
<1> QED BY <1>2, <1>4, <1>5 DEF ReadConfig

\* The configuration is stored.
LEMMA PersistConfigKeeps ==
  ASSUME VirtualInv, kind \in VirtualKinds, NEW c \in Clients, PersistConfig(c) PROVE VirtualInv'
<1>1. PICK op, mem, config : /\ op = job[c].op /\ mem = job[c].mem
                             /\ config = [members |-> mem.members, publish |-> mem.publish]
  OBVIOUS
<1>2. /\ VirtualJobs /\ VirtualTables /\ At(c, "virtualPersist") /\ kind' = kind
      /\ store' = store /\ used' = used /\ broken' = broken
      /\ aux' = [aux EXCEPT !.config = config,
                            !.odd = IF op = "updateConfig" THEN @ \cup {"generic"} ELSE @]
      /\ Touch(c, {VConfig}) /\ Recall(c, Rest(c), mem, {VConfig})
  BY <1>1 DEF VirtualInv, PersistConfig, worldVars
<1>3. /\ VirtualShape(aux') /\ aux'.config = config /\ aux'.table = aux.table /\ aux'.live = aux.live
      /\ aux'.target = aux.target /\ aux'.exists = aux.exists /\ aux'.loaded = aux.loaded
      /\ aux'.up = aux.up /\ aux'.lists = aux.lists /\ aux'.writer = aux.writer /\ aux'.whole = aux.whole
      /\ aux'.odd = IF op = "updateConfig" THEN aux.odd \cup {"generic"} ELSE aux.odd
  BY <1>2 DEF VirtualTables, VirtualShape
<1>4. /\ RequestShape(job[c]) /\ job = [d \in Clients |-> job[d]] /\ ConfigMem(mem)
      /\ \/ op = "updateMembers" /\ Rest(c) = ReplaceOn
         \/ op \in {"updateOrder", "updateConfig"} /\ Rest(c) = ReloadOn
  <2>1. /\ RequestShape(job[c]) /\ job = [d \in Clients |-> job[d]] /\ ConfigJob(job[c], "virtualPersist")
        /\ VirtualOnward(job[c].plan) /\ Head(job[c].plan) = "virtualPersist" /\ Rest(c) = Tail(job[c].plan)
    BY <1>2, VirtualAt
  <2>2. \/ job[c].plan = PersistThenReplace /\ Rest(c) = ReplaceOn
        \/ job[c].plan = PersistThenReload /\ Rest(c) = ReloadOn
    BY <2>1 DEF VirtualOnward
  <2> QED BY <1>1, <2>1, <2>2 DEF ConfigJob, StoreSteps
<1>5. PICK plan : plan = Rest(c)
  OBVIOUS
<1>6. PICK k : /\ job' = [job EXCEPT ![c] = k] /\ RequestShape(k)
               /\ k.plan = plan /\ k.mem = mem /\ k.reads = {VConfig} /\ k.op = job[c].op
  <2>1. Recall(c, plan, mem, {VConfig})
    BY <1>2, <1>5
  <2> QED BY <1>4, <2>1, Recalled
<1>7. VirtualJob(k, Versions) /\ k.plan # <<>>
  BY <1>4, <1>5, <1>6, ConfigJobOf
<1>8. Versions' = Versions /\ UsedShape(used')
  BY <1>2 DEF Versions, VirtualTables
<1>9. /\ VirtualJobs' /\ \A d \in Clients \ {c} : job'[d] = job[d]
      /\ \A z : At(c, z)' <=> z = Head(k.plan)
      /\ job'[c] = k
  BY <1>2, <1>6, <1>7, <1>8, VirtualGoesOn
<1>10. \A z : At(c, z)' <=> z = IF op = "updateMembers" THEN "virtualReplace" ELSE "virtualReload"
  BY <1>4, <1>5, <1>6, <1>9, ConfigHeads
<1>11. VirtualTables'
  <2>1. config = [members |-> config.members, publish |-> config.publish] /\ config.members = mem.members
    BY <1>1
  <2> QED BY <1>2, <1>3, <1>4, <1>8, <2>1 DEF VirtualTables, ConfigMem
<1>12. TargetSound'
  BY <1>3, <1>9, <1>10, TargetRests DEF VirtualInv
<1>13. raced \subseteq raced'
  BY <1>2 DEF Touch
<1>14. ASSUME ConfigSound, ~(Spoilt') PROVE ConfigSound'
  <2>1. op # "updateConfig" /\ VConfig \notin raced'
    BY <1>3, <1>14 DEF Spoilt
  <2>2. \A d \in Clients \ {c} : ConfigFollows(d)' /\ ~Storing(d) /\ ~(Storing(d)')
    BY <1>2, <1>9, <2>1, NobodyElseStores
  <2>3. ~Storing(c)
    BY <1>2 DEF Storing, StoreSteps, At
  <2>4. VirtualMemoryFollows
    BY <1>14, <2>2, <2>3 DEF ConfigSound
  <2>5. ValidTarget(mem.publish, mem.members) /\ (op = "updateOrder" => mem.members = aux.config.members)
    BY <1>1, <1>2, <1>14, <2>1 DEF ConfigSound, ConfigFollows
  <2>6. ConfigFollows(c)'
    <3>1. CASE op = "updateMembers"
      BY <1>1, <1>3, <1>6, <1>9, <1>10, <2>5, <3>1 DEF ConfigFollows
    <3>2. CASE op = "updateOrder"
      <4>1. mem.members = aux.table /\ ListLoads(aux.table)
        BY <2>4, <2>5, <3>2 DEF VirtualMemoryFollows, TableFollows, Loads
      <4>2. ListLoads(aux.table)'
        BY <1>3, <4>1 DEF ListLoads
      <4>3. TableFollows'
        BY <1>1, <1>3, <2>5, <4>1, <4>2 DEF TableFollows, Loads
      <4> QED BY <1>10, <3>2, <4>3 DEF ConfigFollows
    <3> QED BY <1>4, <2>1, <3>1, <3>2
  <2>7. Storing(c)'
    BY <1>10 DEF Storing, StoreSteps
  <2> QED BY <2>2, <2>6, <2>7 DEF ConfigSound
<1> QED BY <1>2, <1>3, <1>8, <1>9, <1>10, <1>11, <1>12, <1>13, <1>14, StoreStepKeeps

\* The table is replaced, or the member that is missing fails the request.
LEMMA ReplaceMembersKeeps ==
  ASSUME VirtualInv, kind \in VirtualKinds, NEW c \in Clients, ReplaceMembers(c) PROVE VirtualInv'
<1>1. PICK mem, list : mem = job[c].mem /\ list = mem.members
  OBVIOUS
<1>2. /\ VirtualJobs /\ VirtualTables /\ At(c, "virtualReplace") /\ kind' = kind
      /\ store' = store /\ used' = used
  BY DEF VirtualInv, ReplaceMembers, worldVars
<1>3. /\ RequestShape(job[c]) /\ job = [d \in Clients |-> job[d]] /\ ConfigMem(mem)
      /\ VConfig \in job[c].reads /\ Rest(c) = ReloadOn
  <2>1. /\ RequestShape(job[c]) /\ job = [d \in Clients |-> job[d]] /\ ConfigJob(job[c], "virtualReplace")
        /\ VirtualOnward(job[c].plan) /\ Head(job[c].plan) = "virtualReplace" /\ Rest(c) = Tail(job[c].plan)
    BY <1>2, VirtualAt
  <2> QED BY <1>1, <2>1 DEF ConfigJob, StoreSteps, VirtualOnward
<1>4. Versions' = Versions /\ UsedShape(used')
  BY <1>2 DEF Versions, VirtualTables
<1>5. CASE /\ DOMAIN list \subseteq aux.exists
           /\ aux' = [aux EXCEPT !.table = list,
                                 !.odd = IF \A m \in DOMAIN list : RightType(m) THEN @ ELSE @ \cup {"foreign"}]
           /\ Touch(c, {VConfig}) /\ Advance(c) /\ broken' = broken
  <2>1. /\ VirtualShape(aux') /\ aux'.config = aux.config /\ aux'.table = list /\ aux'.live = aux.live
        /\ aux'.target = aux.target /\ aux'.exists = aux.exists /\ aux'.loaded = aux.loaded
        /\ aux'.up = aux.up /\ aux'.lists = aux.lists /\ aux'.writer = aux.writer /\ aux'.whole = aux.whole
        /\ aux.odd \subseteq aux'.odd
        /\ aux'.odd = {} => \A m \in DOMAIN list : RightType(m)
    BY <1>2, <1>5 DEF VirtualTables, VirtualShape
  <2>2. PICK plan : plan = ReloadOn
    OBVIOUS
  <2>3. PICK k : /\ job' = [job EXCEPT ![c] = k] /\ RequestShape(k)
                 /\ k.plan = plan /\ k.mem = mem /\ k.reads = job[c].reads
    <3>1. Goto(c, plan)
      BY <1>3, <1>5, <2>2 DEF Advance
    <3> QED BY <1>1, <1>3, <3>1, WentOn
  <2>4. VirtualJob(k, Versions) /\ k.plan # <<>>
    BY <1>3, <2>2, <2>3, ConfigJobOf
  <2>5. /\ VirtualJobs' /\ \A d \in Clients \ {c} : job'[d] = job[d]
        /\ \A z : At(c, z)' <=> z = Head(k.plan)
        /\ job'[c] = k
    BY <1>2, <1>4, <2>3, <2>4, VirtualGoesOn
  <2>6. \A z : At(c, z)' <=> z = "virtualReload"
    BY <2>2, <2>3, <2>5, ConfigHeads
  <2>7. VirtualTables'
    BY <1>1, <1>2, <1>3, <1>4, <2>1 DEF VirtualTables, ConfigMem
  <2>8. TargetSound'
    BY <2>1, <2>5, <2>6, TargetRests DEF VirtualInv
  <2>9. raced \subseteq raced'
    BY <1>5 DEF Touch
  <2>10. ASSUME ConfigSound, ~(Spoilt') PROVE ConfigSound'
    <3>1. aux'.odd = {} /\ VConfig \notin raced'
      BY <2>10 DEF Spoilt
    <3>2. \A d \in Clients \ {c} : ConfigFollows(d)' /\ ~Storing(d) /\ ~(Storing(d)')
      BY <1>2, <1>5, <2>5, <3>1, NobodyElseStores
    <3>3. mem.members = aux.config.members /\ mem.publish = aux.config.publish
          /\ ValidTarget(mem.publish, mem.members)
      BY <1>1, <1>2, <2>10 DEF ConfigSound, ConfigFollows
    <3>4. ListLoads(list)'
      BY <1>5, <2>1, <3>1 DEF ListLoads
    <3>5. TableFollows'
      BY <1>1, <2>1, <3>3, <3>4 DEF TableFollows, Loads
    <3>6. ConfigFollows(c)'
      BY <2>6, <3>5 DEF ConfigFollows
    <3>7. Storing(c)'
      BY <2>6 DEF Storing, StoreSteps
    <3> QED BY <3>2, <3>6, <3>7 DEF ConfigSound
  <2> QED BY <1>2, <1>4, <1>5, <2>1, <2>5, <2>6, <2>7, <2>8, <2>9, <2>10, StoreStepKeeps
<1>6. CASE /\ Reply(c, 500, Nothing) /\ broken' = broken \cup {VConfig} /\ aux' = aux /\ raced' = raced
  <2>1. /\ VirtualJobs' /\ \A d \in Clients \ {c} : job'[d] = job[d]
        /\ \A x : ~(At(c, x)')
    BY <1>2, <1>4, <1>6, VirtualReplies
  <2>2. VirtualTables' /\ TargetSound'
    BY <1>2, <1>6, <2>1, TargetRests DEF VirtualTables, VirtualInv
  <2>3. Spoilt'
    BY <1>6 DEF Spoilt
  <2> QED BY <1>2, <1>4, <1>6, <2>1, <2>2, <2>3, StoreStepKeeps
<1> QED BY <1>1, <1>5, <1>6 DEF ReplaceMembers

\* The configuration is read again.
LEMMA ReloadConfigKeeps ==
  ASSUME VirtualInv, kind \in VirtualKinds, NEW c \in Clients, ReloadConfig(c) PROVE VirtualInv'
<1>1. /\ VirtualJobs /\ VirtualTables /\ At(c, "virtualReload") /\ kind' = kind
      /\ store' = store /\ used' = used /\ aux' = aux /\ raced' = raced /\ broken' = broken
  BY DEF VirtualInv, ReloadConfig, worldVars, historyVars
<1>2. /\ RequestShape(job[c]) /\ job = [d \in Clients |-> job[d]]
      /\ VConfig \in job[c].reads /\ Rest(c) = SyncOn
  <2>1. /\ RequestShape(job[c]) /\ job = [d \in Clients |-> job[d]] /\ ConfigJob(job[c], "virtualReload")
        /\ VirtualOnward(job[c].plan) /\ Head(job[c].plan) = "virtualReload" /\ Rest(c) = Tail(job[c].plan)
    BY <1>1, VirtualAt
  <2> QED BY <2>1 DEF ConfigJob, StoreSteps, VirtualOnward
<1>3. PICK plan, mem, reads :
        /\ plan = SyncOn /\ reads = job[c].reads
        /\ mem = [members |-> aux.config.members, publish |-> aux.config.publish, list |-> EmptyMap]
  OBVIOUS
<1>4. PICK k : /\ job' = [job EXCEPT ![c] = k] /\ RequestShape(k)
               /\ k.plan = plan /\ k.mem = mem /\ k.reads = reads
  <2>1. Recall(c, plan, mem, reads)
    BY <1>2, <1>3 DEF ReloadConfig
  <2> QED BY <1>2, <2>1, Recalled
<1>5. ConfigMem(mem) /\ mem.members = aux.config.members /\ mem.publish = aux.config.publish
  BY <1>1, <1>3, ListsShaped DEF ConfigMem, VirtualTables
<1>6. VirtualJob(k, Versions) /\ k.plan # <<>>
  BY <1>2, <1>3, <1>4, <1>5, ConfigJobOf
<1>7. Versions' = Versions /\ VirtualTables'
  BY <1>1 DEF Versions, VirtualTables
<1>8. /\ VirtualJobs' /\ \A d \in Clients \ {c} : job'[d] = job[d]
      /\ \A z : At(c, z)' <=> z = Head(k.plan)
      /\ job'[c] = k
  BY <1>1, <1>4, <1>6, <1>7, VirtualGoesOn
<1>9. \A z : At(c, z)' <=> z = "virtualSync"
  BY <1>3, <1>4, <1>8, ConfigHeads
<1>10. ASSUME ConfigSound PROVE ConfigSound'
  <2>1. /\ \A d \in Clients \ {c} : ConfigFollows(d)' /\ (Storing(d)' <=> Storing(d))
        /\ TableFollows' <=> TableFollows
    BY <1>1, <1>8, <1>10, OthersFollow
  <2>2. TableFollows
    BY <1>1, <1>10 DEF ConfigSound, ConfigFollows
  <2>3. ConfigFollows(c)'
    BY <1>1, <1>4, <1>5, <1>8, <1>9, <2>1, <2>2 DEF ConfigFollows
  <2>4. Storing(c)'
    BY <1>9 DEF Storing, StoreSteps
  <2> QED BY <2>1, <2>3, <2>4 DEF ConfigSound
<1>11. TargetSound'
  BY <1>1, <1>8, <1>9, TargetRests DEF VirtualInv
<1> QED BY <1>1, <1>7, <1>8, <1>9, <1>10, <1>11, StoreStepKeeps

\* The table is read, or found empty.
LEMMA SyncMembersKeeps ==
  ASSUME VirtualInv, kind \in VirtualKinds, NEW c \in Clients, SyncMembers(c) PROVE VirtualInv'
<1>1. PICK mem, seed : mem = job[c].mem /\ seed = (DOMAIN aux.table = {} /\ DOMAIN mem.members # {})
  OBVIOUS
<1>2. /\ VirtualJobs /\ VirtualTables /\ At(c, "virtualSync") /\ kind' = kind
      /\ store' = store /\ aux' = aux /\ used' = used /\ raced' = raced /\ broken' = broken
  BY DEF VirtualInv, SyncMembers, worldVars, historyVars
<1>3. /\ RequestShape(job[c]) /\ job = [d \in Clients |-> job[d]] /\ ConfigMem(mem)
      /\ VConfig \in job[c].reads /\ Rest(c) = AssignOn
  <2>1. /\ RequestShape(job[c]) /\ job = [d \in Clients |-> job[d]] /\ ConfigJob(job[c], "virtualSync")
        /\ VirtualOnward(job[c].plan) /\ Head(job[c].plan) = "virtualSync" /\ Rest(c) = Tail(job[c].plan)
    BY <1>2, VirtualAt
  <2> QED BY <1>1, <2>1 DEF ConfigJob, StoreSteps, VirtualOnward
<1>4. Versions' = Versions /\ VirtualTables'
  BY <1>2 DEF Versions, VirtualTables
<1>5. PICK plan, list, next, reads :
        /\ plan = (IF seed THEN SeedOn ELSE AssignOn) /\ list = (IF seed THEN mem.members ELSE aux.table)
        /\ next = [mem EXCEPT !.list = list] /\ reads = job[c].reads
  OBVIOUS
<1>6. PICK k : /\ job' = [job EXCEPT ![c] = k] /\ RequestShape(k)
               /\ k.plan = plan /\ k.mem = next /\ k.reads = reads
  <2>1. Recall(c, plan, next, reads)
    <3>1. Recall(c, IF seed THEN <<"virtualSeed">> \o Rest(c) ELSE Rest(c),
                 [mem EXCEPT !.list = IF seed THEN mem.members ELSE aux.table], job[c].reads)
      BY <1>1 DEF SyncMembers
    <3> QED BY <1>3, <1>5, <3>1, PlansSpelled
  <2> QED BY <1>3, <2>1, Recalled
<1>7. ConfigMem(next) /\ next.list = list /\ next.publish = mem.publish
  <2>1. ListShape(list)
    BY <1>2, <1>3, <1>5 DEF ConfigMem, VirtualTables
  <2> QED BY <1>3, <1>5, <2>1 DEF ConfigMem
<1>8. VirtualJob(k, Versions) /\ k.plan # <<>>
  BY <1>3, <1>5, <1>6, <1>7, ConfigJobOf
<1>9. /\ VirtualJobs' /\ \A d \in Clients \ {c} : job'[d] = job[d]
      /\ \A z : At(c, z)' <=> z = Head(k.plan)
      /\ job'[c] = k
  BY <1>2, <1>4, <1>6, <1>8, VirtualGoesOn
<1>10. \A z : At(c, z)' <=> z = IF seed THEN "virtualSeed" ELSE "virtualAssign"
  BY <1>5, <1>6, <1>9, ConfigHeads
<1>11. TargetSound'
  BY <1>2, <1>9, <1>10, TargetRests DEF VirtualInv
<1>12. ASSUME ConfigSound PROVE ConfigSound'
  <2>1. /\ \A d \in Clients \ {c} : ConfigFollows(d)' /\ (Storing(d)' <=> Storing(d))
        /\ TableFollows' <=> TableFollows
    BY <1>2, <1>9, <1>12, OthersFollow
  <2>2. TableFollows /\ mem.members = aux.config.members /\ mem.publish = aux.config.publish
    BY <1>1, <1>2, <1>12 DEF ConfigSound, ConfigFollows
  <2>3. ~seed /\ list = aux.table
    BY <1>1, <1>5, <2>2 DEF TableFollows
  <2>4. ConfigFollows(c)'
    BY <1>2, <1>6, <1>7, <1>9, <1>10, <2>1, <2>2, <2>3 DEF ConfigFollows
  <2>5. Storing(c)'
    BY <1>10, <2>3 DEF Storing, StoreSteps
  <2> QED BY <2>1, <2>4, <2>5 DEF ConfigSound
<1>13. \A x \in {"virtualHit", "virtualNext", "virtualMerge"} : ~(At(c, x)')
  BY <1>10
<1> QED BY <1>2, <1>4, <1>9, <1>11, <1>12, <1>13, StoreStepKeeps

\* An empty table is filled from the configuration: never where the table follows it.
LEMMA SeedMembersKeeps ==
  ASSUME VirtualInv, kind \in VirtualKinds, NEW c \in Clients, SeedMembers(c) PROVE VirtualInv'
<1>1. PICK mem, list : mem = job[c].mem /\ list = mem.list
  OBVIOUS
<1>2. /\ VirtualJobs /\ VirtualTables /\ At(c, "virtualSeed") /\ kind' = kind
      /\ store' = store /\ used' = used /\ raced' = raced /\ broken' = broken
  BY DEF VirtualInv, SeedMembers, worldVars, historyVars
<1>3. /\ RequestShape(job[c]) /\ job = [d \in Clients |-> job[d]] /\ ConfigMem(mem)
      /\ VConfig \in job[c].reads /\ Rest(c) = AssignOn
  <2>1. /\ RequestShape(job[c]) /\ job = [d \in Clients |-> job[d]] /\ ConfigJob(job[c], "virtualSeed")
        /\ VirtualOnward(job[c].plan) /\ Head(job[c].plan) = "virtualSeed" /\ Rest(c) = Tail(job[c].plan)
    BY <1>2, VirtualAt
  <2> QED BY <1>1, <2>1 DEF ConfigJob, StoreSteps, VirtualOnward
<1>4. Versions' = Versions /\ UsedShape(used')
  BY <1>2 DEF Versions, VirtualTables
<1>5. ~ConfigSound
  BY <1>2 DEF ConfigSound, ConfigFollows
<1>6. CASE aux' = [aux EXCEPT !.table = list] /\ Advance(c)
  <2>1. /\ VirtualShape(aux') /\ aux'.config = aux.config /\ aux'.table = list /\ aux'.live = aux.live
        /\ aux'.target = aux.target /\ aux'.exists = aux.exists /\ aux'.loaded = aux.loaded
        /\ aux'.up = aux.up /\ aux'.odd = aux.odd /\ aux'.lists = aux.lists
        /\ aux'.writer = aux.writer /\ aux'.whole = aux.whole
    BY <1>2, <1>6 DEF VirtualTables, VirtualShape
  <2>2. PICK plan : plan = AssignOn
    OBVIOUS
  <2>3. PICK k : /\ job' = [job EXCEPT ![c] = k] /\ RequestShape(k)
                 /\ k.plan = plan /\ k.mem = mem /\ k.reads = job[c].reads
    <3>1. Goto(c, plan)
      BY <1>3, <1>6, <2>2 DEF Advance
    <3> QED BY <1>1, <1>3, <3>1, WentOn
  <2>4. VirtualJob(k, Versions) /\ k.plan # <<>>
    BY <1>3, <2>2, <2>3, ConfigJobOf
  <2>5. /\ VirtualJobs' /\ \A d \in Clients \ {c} : job'[d] = job[d]
        /\ \A z : At(c, z)' <=> z = Head(k.plan)
    BY <1>2, <1>4, <2>3, <2>4, VirtualGoesOn
  <2>6. \A z : At(c, z)' <=> z = "virtualAssign"
    BY <2>2, <2>3, <2>5, ConfigHeads
  <2>7. VirtualTables'
    BY <1>1, <1>2, <1>3, <1>4, <2>1 DEF VirtualTables, ConfigMem
  <2>8. TargetSound'
    BY <2>1, <2>5, <2>6, TargetRests DEF VirtualInv
  <2> QED BY <1>2, <1>4, <1>5, <2>1, <2>5, <2>6, <2>7, <2>8, StoreStepKeeps
<1>7. CASE ReloadFails(c) /\ aux' = aux
  <2>1. /\ VirtualJobs' /\ \A d \in Clients \ {c} : job'[d] = job[d]
        /\ \A x : ~(At(c, x)')
    BY <1>2, <1>4, <1>7, VirtualReplies DEF ReloadFails
  <2>2. VirtualTables' /\ TargetSound'
    BY <1>2, <1>7, <2>1, TargetRests DEF VirtualTables, VirtualInv
  <2> QED BY <1>2, <1>4, <1>5, <1>7, <2>1, <2>2, StoreStepKeeps
<1> QED BY <1>1, <1>6, <1>7 DEF SeedMembers

\* The target that is chosen is an enabled hosted member.
LEMMA TargetSelected ==
  ASSUME aux.exists \subseteq Repositories, NEW config, NEW list, Loads(config, list)
  PROVE  ValidTarget(SelectTarget(config, list), list)
<1>1. CASE config.publish # {}
  BY <1>1 DEF SelectTarget, Loads
<1>2. CASE config.publish = {}
  <2> DEFINE hosts == {m \in EnabledOf(list) : IsHosted(m)}
  <2>1. \A m \in hosts : m = "hosted"
    BY DEF IsHosted
  <2>2. CASE hosts = {}
    BY <1>2, <2>2 DEF SelectTarget, ValidTarget
  <2>3. CASE hosts # {}
    <3>1. hosts = {"hosted"}
      BY <2>1, <2>3
    <3>2. FirstOf(list, {"hosted"}) = "hosted"
      BY DEF FirstOf
    <3>3. SelectTarget(config, list) = {"hosted"}
      BY <1>2, <3>1, <3>2 DEF SelectTarget
    <3>4. "hosted" \in EnabledOf(list) /\ IsHosted("hosted")
      BY <3>1
    <3> QED BY <3>3, <3>4 DEF ValidTarget
  <2> QED BY <2>2, <2>3
<1> QED BY <1>1, <1>2

\* The memory takes the members, when they load, and the target is chosen.
LEMMA AssignMembersKeeps ==
  ASSUME VirtualInv, kind \in VirtualKinds, NEW c \in Clients, AssignMembers(c) PROVE VirtualInv'
<1>1. PICK mem, list : mem = job[c].mem /\ list = mem.list
  OBVIOUS
<1>2. /\ VirtualJobs /\ VirtualTables /\ At(c, "virtualAssign") /\ kind' = kind
      /\ store' = store /\ used' = used /\ raced' = raced /\ broken' = broken
  BY DEF VirtualInv, AssignMembers, worldVars, historyVars
<1>3. /\ RequestShape(job[c]) /\ job = [d \in Clients |-> job[d]] /\ ConfigMem(mem)
      /\ VConfig \in job[c].reads /\ Rest(c) = TargetOn
  <2>1. /\ RequestShape(job[c]) /\ job = [d \in Clients |-> job[d]] /\ ConfigJob(job[c], "virtualAssign")
        /\ VirtualOnward(job[c].plan) /\ Head(job[c].plan) = "virtualAssign" /\ Rest(c) = Tail(job[c].plan)
    BY <1>2, VirtualAt
  <2> QED BY <1>1, <2>1 DEF ConfigJob, StoreSteps, VirtualOnward
<1>4. Versions' = Versions /\ UsedShape(used')
  BY <1>2 DEF Versions, VirtualTables
<1>5. ASSUME ConfigSound
      PROVE  TableFollows /\ list = aux.table /\ mem.publish = aux.config.publish /\ Loads(mem, list)
  <2>1. TableFollows /\ list = aux.table /\ mem.publish = aux.config.publish
    BY <1>1, <1>2, <1>5 DEF ConfigSound, ConfigFollows
  <2> QED BY <2>1 DEF TableFollows, Loads
<1>6. CASE /\ TakesOver(mem, list)
           /\ aux' = [aux EXCEPT !.live = list, !.writer = {c}, !.whole = FALSE]
           /\ Recall(c, Rest(c), [mem EXCEPT !.publish = SelectTarget(mem, list)], job[c].reads)
  <2>1. PICK plan, target, next, reads : /\ plan = TargetOn /\ target = SelectTarget(mem, list)
                                         /\ next = [mem EXCEPT !.publish = target] /\ reads = job[c].reads
    OBVIOUS
  <2>2. PICK k : /\ job' = [job EXCEPT ![c] = k] /\ RequestShape(k)
                 /\ k.plan = plan /\ k.mem = next /\ k.reads = reads
    <3>1. Recall(c, plan, next, reads)
      BY <1>3, <1>6, <2>1
    <3> QED BY <1>3, <3>1, Recalled
  <2>3. ConfigMem(next) /\ next.publish = target
    BY <1>3, <2>1 DEF ConfigMem
  <2>4. VirtualJob(k, Versions) /\ k.plan # <<>>
    BY <1>3, <2>1, <2>2, <2>3, ConfigJobOf
  <2>5. /\ VirtualJobs' /\ \A d \in Clients \ {c} : job'[d] = job[d]
        /\ \A z : At(c, z)' <=> z = Head(k.plan)
        /\ job'[c] = k
    BY <1>2, <1>4, <2>2, <2>4, VirtualGoesOn
  <2>6. \A z : At(c, z)' <=> z = "virtualTarget"
    BY <2>1, <2>2, <2>5, ConfigHeads
  <2>7. /\ VirtualShape(aux') /\ aux'.config = aux.config /\ aux'.table = aux.table /\ aux'.live = list
        /\ aux'.exists = aux.exists /\ aux'.loaded = aux.loaded /\ aux'.up = aux.up /\ aux'.odd = aux.odd
        /\ aux'.lists = aux.lists /\ aux'.writer = {c} /\ aux'.whole = FALSE
    BY <1>2, <1>6 DEF VirtualTables, VirtualShape
  <2>8. VirtualTables'
    BY <1>1, <1>2, <1>3, <1>4, <2>7 DEF VirtualTables, ConfigMem
  <2>9. TargetSound'
    <3>1. ValidTarget(target, list)
      BY <1>2, <1>6, <2>1, TargetSelected DEF TakesOver, VirtualTables
    <3>2. ASSUME NEW d \in Clients, aux'.writer = {d} PROVE ValidTarget(job[d].mem.publish, aux.live)'
      <4>1. d = c
        BY <2>7, <3>2
      <4>2. ValidTarget(job'[d].mem.publish, aux'.live)
        BY <2>2, <2>3, <2>5, <2>7, <3>1, <4>1
      <4> QED BY <4>2 DEF ValidTarget, EnabledOf
    <3> QED BY <2>7, <3>2 DEF TargetSound
  <2>10. ASSUME ConfigSound PROVE ConfigSound'
    <3>1. /\ \A d \in Clients \ {c} : ConfigFollows(d)' /\ (Storing(d)' <=> Storing(d))
          /\ TableFollows' <=> TableFollows
      BY <1>5, <2>5, <2>7, <2>10, OthersFollow
    <3>2. target = SelectTarget(aux.config, aux.table)
      BY <1>5, <2>1, <2>10 DEF SelectTarget
    <3>3. SelectTarget(aux.config, aux.table)' = SelectTarget(aux.config, aux.table)
      BY <2>7, SameTarget
    <3>4. ConfigFollows(c)'
      BY <1>5, <2>2, <2>3, <2>5, <2>6, <2>7, <2>10, <3>1, <3>2, <3>3 DEF ConfigFollows
    <3>5. Storing(c)'
      BY <2>6 DEF Storing, StoreSteps
    <3> QED BY <3>1, <3>4, <3>5 DEF ConfigSound
  <2> QED BY <1>2, <1>4, <2>5, <2>6, <2>7, <2>8, <2>9, <2>10, StoreStepKeeps
<1>7. CASE ~TakesOver(mem, list) /\ ReloadFails(c) /\ aux' = aux
  <2>1. /\ VirtualJobs' /\ \A d \in Clients \ {c} : job'[d] = job[d]
        /\ \A x : ~(At(c, x)')
    BY <1>2, <1>4, <1>7, VirtualReplies DEF ReloadFails
  <2>2. VirtualTables' /\ TargetSound'
    BY <1>2, <1>7, <2>1, TargetRests DEF VirtualTables, VirtualInv
  <2> QED BY <1>2, <1>4, <1>5, <1>7, <2>1, <2>2, StoreStepKeeps DEF TakesOver
<1> QED BY <1>1, <1>6, <1>7 DEF AssignMembers

\* The memory takes the target: it fits the members unless another reload wrote them since.
LEMMA AssignTargetKeeps ==
  ASSUME VirtualInv, kind \in VirtualKinds, NEW c \in Clients, AssignTarget(c) PROVE VirtualInv'
<1>1. PICK target, whole : target = job[c].mem.publish /\ whole = (aux.writer = {c})
  OBVIOUS
<1>2. /\ VirtualJobs /\ VirtualTables /\ At(c, "virtualTarget") /\ kind' = kind
      /\ store' = store /\ used' = used /\ raced' = raced /\ broken' = broken
      /\ aux' = [aux EXCEPT !.target = target, !.writer = @ \ {c}, !.whole = whole]
      /\ Reply(c, 200, Nothing)
  BY <1>1 DEF VirtualInv, AssignTarget, worldVars, historyVars
<1>3. /\ VirtualShape(aux') /\ aux'.config = aux.config /\ aux'.table = aux.table /\ aux'.live = aux.live
      /\ aux'.exists = aux.exists /\ aux'.loaded = aux.loaded /\ aux'.up = aux.up /\ aux'.odd = aux.odd
      /\ aux'.lists = aux.lists /\ aux'.target = target /\ aux'.writer = aux.writer \ {c}
      /\ aux'.whole = whole
  BY <1>2 DEF VirtualTables, VirtualShape
<1>4. Versions' = Versions /\ VirtualTables'
  BY <1>2, <1>3 DEF Versions, VirtualTables
<1>5. /\ VirtualJobs' /\ \A d \in Clients \ {c} : job'[d] = job[d]
      /\ \A x : ~(At(c, x)')
  BY <1>2, <1>4, VirtualReplies
<1>6. TargetSound'
  <2>0. TargetSound
    BY DEF VirtualInv
  <2>1. aux'.whole => ValidTarget(aux.target, aux.live)'
    <3>1. aux'.whole => ValidTarget(aux'.target, aux'.live)
      BY <1>1, <1>2, <1>3, <2>0 DEF TargetSound
    <3> QED BY <3>1 DEF ValidTarget, EnabledOf
  <2>2. ASSUME NEW d \in Clients, At(d, "virtualTarget")', aux'.writer = {d}
        PROVE  ValidTarget(job[d].mem.publish, aux.live)'
    <3>1. d # c /\ job'[d] = job[d] /\ At(d, "virtualTarget")
      BY <1>5, <2>2 DEF At
    <3>2. aux.writer = {d}
      <4>1. d \in aux.writer
        BY <1>3, <2>2
      <4>2. \A e \in aux.writer : e = d
        BY <2>0, <4>1 DEF TargetSound
      <4> QED BY <4>1, <4>2
    <3>3. ValidTarget(job[d].mem.publish, aux.live)
      BY <2>0, <3>1, <3>2 DEF TargetSound
    <3>4. ValidTarget(job'[d].mem.publish, aux'.live)
      BY <1>3, <3>1, <3>3
    <3> QED BY <3>4 DEF ValidTarget, EnabledOf
  <2>3. \A d, e \in aux'.writer : d = e
    BY <1>3, <2>0 DEF TargetSound
  <2> QED BY <2>1, <2>2, <2>3 DEF TargetSound
<1>7. ASSUME ConfigSound PROVE ConfigSound'
  <2>1. /\ \A d \in Clients \ {c} : ConfigFollows(d)' /\ (Storing(d)' <=> Storing(d))
        /\ TableFollows' <=> TableFollows
    BY <1>3, <1>5, <1>7, OthersFollow
  <2>2. ConfigFollows(c)'
    BY <1>5 DEF ConfigFollows
  <2>3. TableFollows /\ aux.live = aux.table /\ target = SelectTarget(aux.config, aux.table)
    BY <1>1, <1>2, <1>7 DEF ConfigSound, ConfigFollows
  <2>4. SelectTarget(aux.config, aux.table)' = SelectTarget(aux.config, aux.table)
    BY <1>3, SameTarget
  <2>5. VirtualMemoryFollows'
    BY <1>3, <2>1, <2>3, <2>4 DEF VirtualMemoryFollows
  <2> QED BY <2>1, <2>2, <2>5 DEF ConfigSound
<1> QED BY <1>2, <1>3, <1>4, <1>5, <1>6, <1>7, StoreStepKeeps

-----------------------------------------------------------------------------
(* The deletion of a member.                                               *)

\* The request that deletes a member goes on.
LEMMA MemberGoesOn ==
  ASSUME VirtualJobs, Versions' = Versions, NEW c \in Clients, NEW x \in {"memberRows", "memberFiles"}, At(c, x),
         Advance(c)
  PROVE  /\ VirtualJobs' /\ \A d \in Clients \ {c} : job'[d] = job[d]
         /\ \A z \in StoreSteps \cup {"virtualHit", "virtualNext", "virtualMerge"} : ~At(c, z) /\ ~(At(c, z)')
<1>1. /\ RequestShape(job[c]) /\ job = [d \in Clients |-> job[d]] /\ Rest(c) = Tail(job[c].plan)
      /\ VirtualOnward(job[c].plan) /\ Head(job[c].plan) = x
  BY VirtualAt
<1>2. PICK plan : plan = Rest(c)
  OBVIOUS
<1>3. plan \in {<<"memberFiles", "memberUnload">>, <<"memberUnload">>}
  BY <1>1, <1>2 DEF VirtualOnward
<1>4. PICK k : job' = [job EXCEPT ![c] = k] /\ RequestShape(k) /\ k.plan = plan
  BY <1>1, <1>2, WentOn DEF Advance
<1>5. PICK y : y = Head(plan)
  OBVIOUS
<1>6. y \in {"memberFiles", "memberUnload"}
  BY <1>3, <1>5
<1>7. VirtualJob(k, Versions) /\ k.plan # <<>>
  <2>1. plan \in VirtualPlans
    BY <1>3 DEF VirtualPlans, MemberPlans
  <2>2. k.plan # <<>>
    BY <1>4, <2>1, VirtualPlanHeads
  <2>3. ConfigJob(k, y)
    BY <1>4, <1>5, <1>6, ConfigHeads DEF ConfigJob, StoreSteps
  <2>4. ReaderJob(k, y, Versions)
    BY <1>6 DEF ReaderJob, GetSteps, ListSteps
  <2> QED BY <1>4, <1>5, <2>1, <2>2, <2>3, <2>4 DEF VirtualJob
<1>8. /\ VirtualJobs' /\ \A d \in Clients \ {c} : job'[d] = job[d]
      /\ \A z : At(c, z)' <=> z = Head(k.plan)
  BY <1>4, <1>7, VirtualGoesOn
<1> QED BY <1>4, <1>5, <1>6, <1>8 DEF StoreSteps, At

\* Its rows go.
LEMMA MemberRowsKeeps ==
  ASSUME VirtualInv, kind \in VirtualKinds, NEW c \in Clients, MemberRows(c) PROVE VirtualInv'
<1>1. PICK m : m = job[c].p
  OBVIOUS
<1>2. /\ VirtualJobs /\ VirtualTables /\ At(c, "memberRows") /\ kind' = kind
      /\ store' = store /\ used' = used /\ broken' = broken /\ raced \subseteq raced' /\ Advance(c)
      /\ aux' = [aux EXCEPT !.exists = @ \ {m}, !.table = Drop(@, {m}), !.odd = @ \cup {"deleted"}]
  BY <1>1 DEF VirtualInv, MemberRows, worldVars, Touch
<1>3. /\ VirtualShape(aux') /\ aux'.config = aux.config /\ aux'.table = Drop(aux.table, {m})
      /\ aux'.live = aux.live /\ aux'.target = aux.target /\ aux'.exists = aux.exists \ {m}
      /\ aux'.loaded = aux.loaded /\ aux'.up = aux.up /\ aux'.odd = aux.odd \cup {"deleted"}
      /\ aux'.lists = aux.lists /\ aux'.writer = aux.writer /\ aux'.whole = aux.whole
  BY <1>2 DEF VirtualTables, VirtualShape
<1>4. Versions' = Versions /\ UsedShape(used')
  BY <1>2 DEF Versions, VirtualTables
<1>5. /\ VirtualJobs' /\ \A d \in Clients \ {c} : job'[d] = job[d]
      /\ \A z \in StoreSteps \cup {"virtualHit", "virtualNext", "virtualMerge"} : ~At(c, z) /\ ~(At(c, z)')
  BY <1>2, <1>4, MemberGoesOn
<1>6. VirtualTables'
  <2>1. ListShape(Drop(aux.table, {m}))
    BY <1>2 DEF VirtualTables, ListShape, Drop
  <2> QED BY <1>2, <1>3, <1>4, <2>1 DEF VirtualTables
<1>7. TargetSound'
  BY <1>3, <1>5, TargetRests DEF VirtualInv, StoreSteps
<1>8. Spoilt'
  BY <1>3 DEF Spoilt
<1> QED BY <1>2, <1>3, <1>4, <1>5, <1>6, <1>7, <1>8, StoreStepKeeps

\* The files of a member are in its own directory.
LEMMA OtherDirs ==
  ASSUME NEW m, NEW n, NEW p, NEW v, Under(<<Dir(m)>>, MemberFile(n, p, v)) PROVE n = m
<1>1. PICK q, dir : q = MemberFile(n, p, v) /\ dir = <<Dir(m)>>
  OBVIOUS
<1>2. Len(dir) = 1 /\ SubSeq(q, 1, 1) = dir
  BY <1>1 DEF Under
<1>3. SubSeq(q, 1, 1)[1] = q[1]
  BY <1>1 DEF MemberFile
<1>4. Dir(n) = Dir(m)
  <2>1. q[1] = Dir(n)
    BY <1>1 DEF MemberFile
  <2>2. dir[1] = Dir(m)
    BY <1>1
  <2> QED BY <1>2, <1>3, <2>1, <2>2
<1> QED BY <1>4 DEF Dir

\* Its files go.
LEMMA MemberFilesKeeps ==
  ASSUME VirtualInv, kind \in VirtualKinds, NEW c \in Clients, MemberFiles(c) PROVE VirtualInv'
<1>1. PICK m, gone : m = job[c].p /\ gone = {q \in DOMAIN store : Under(<<Dir(m)>>, q)}
  OBVIOUS
<1>2. /\ VirtualJobs /\ VirtualTables /\ At(c, "memberFiles") /\ kind' = kind /\ Advance(c)
      /\ used' = used /\ broken' = broken /\ store' = Drop(store, gone) /\ Touch(c, FilesOf(m))
      /\ aux' = IF m = "proxy" THEN [aux EXCEPT !.kept = {}, !.lists = EmptyMap] ELSE aux
  BY <1>1 DEF VirtualInv, MemberFiles, worldVars
<1>3. /\ VirtualShape(aux') /\ SameConfig /\ aux'.loaded = aux.loaded
      /\ m # "proxy" => aux'.lists = aux.lists
  BY <1>2 DEF VirtualTables, VirtualShape, SameConfig
<1>4. Versions' = Versions /\ VirtualTables'
  BY <1>2, <1>3 DEF Versions, VirtualTables, SameConfig
<1>5. /\ VirtualJobs' /\ \A d \in Clients \ {c} : job'[d] = job[d]
      /\ \A z \in StoreSteps \cup {"virtualHit", "virtualNext", "virtualMerge"} : ~At(c, z) /\ ~(At(c, z)')
  BY <1>2, <1>4, MemberGoesOn
<1>6. raced \subseteq raced' /\ TargetSound'
  BY <1>2, <1>3, <1>5, TargetRests DEF Touch, VirtualInv, SameConfig, StoreSteps
<1>7. ASSUME NEW d \in Clients \ {c} PROVE FilesStay(d)
  <2>1. SUFFICES ASSUME NEW n \in Repositories, NEW p \in Packages, NEW v \in Versions, n \in aux.loaded,
                        <<"file", MemberFile(n, p, v)>> \in job[d].reads,
                        <<"file", MemberFile(n, p, v)>> \notin raced'
                 PROVE  /\ MemberFile(n, p, v) \in DOMAIN store => MemberFile(n, p, v) \in DOMAIN store'
                        /\ v \in Lists(n, p) => v \in Lists(n, p)'
    BY <1>3 DEF FilesStay
  <2>2. n # m
    <3>1. <<"file", MemberFile(n, p, v)>> \notin FilesOf(m)
      BY <1>2, <2>1 DEF Touch, Overtaken
    <3> QED BY <3>1 DEF FilesOf
  <2>3. MemberFile(n, p, v) \in DOMAIN store => MemberFile(n, p, v) \in DOMAIN store'
    BY <1>1, <1>2, <2>2, OtherDirs DEF Drop
  <2>4. v \in Lists(n, p) => v \in Lists(n, p)'
    <3>1. CASE n = "proxy"
      BY <1>3, <1>4, <2>2, <2>3, <3>1, ListsStay
    <3>2. CASE n # "proxy"
      BY <1>4, <2>3, <3>2 DEF Lists, HasMember
    <3> QED BY <3>1, <3>2
  <2> QED BY <2>3, <2>4
<1>8. (Spoilt \/ ConfigSound)'
  BY <1>2, <1>3, <1>5, <1>6, ConfigRests DEF VirtualInv
<1>9. GetFollows(c)' /\ ListFollows(c)'
  BY <1>5 DEF GetFollows, ListFollows
<1> QED BY <1>2, <1>4, <1>5, <1>6, <1>7, <1>8, <1>9, VirtualKept

\* The memory forgets it.
LEMMA MemberUnloadKeeps ==
  ASSUME VirtualInv, kind \in VirtualKinds, NEW c \in Clients, MemberUnload(c) PROVE VirtualInv'
<1>1. PICK m : m = job[c].p
  OBVIOUS
<1>2. /\ VirtualJobs /\ VirtualTables /\ At(c, "memberUnload") /\ kind' = kind
      /\ aux' = [aux EXCEPT !.loaded = @ \ {m}] /\ used' = used /\ broken' = broken
      /\ store' = store /\ Touch(c, FilesOf(m)) /\ Reply(c, 204, Nothing)
  BY <1>1 DEF VirtualInv, MemberUnload, worldVars
<1>3. VirtualShape(aux') /\ SameConfig /\ aux'.loaded = aux.loaded \ {m} /\ aux'.lists = aux.lists
  BY <1>2 DEF VirtualTables, VirtualShape, SameConfig
<1>4. Versions' = Versions /\ VirtualTables'
  BY <1>2, <1>3 DEF Versions, VirtualTables, SameConfig
<1>5. /\ VirtualJobs' /\ \A d \in Clients \ {c} : job'[d] = job[d]
      /\ \A x : ~(At(c, x)')
  BY <1>2, <1>4, VirtualReplies
<1>6. raced \subseteq raced' /\ TargetSound' /\ \A x \in StoreSteps : ~At(c, x)
  BY <1>2, <1>3, <1>5, TargetRests DEF Touch, At, StoreSteps, VirtualInv, SameConfig
<1>7. ASSUME NEW d \in Clients \ {c} PROVE FilesStay(d)
  <2>1. SUFFICES ASSUME NEW n \in Repositories, NEW p \in Packages, NEW v \in Versions, n \in aux.loaded,
                        <<"file", MemberFile(n, p, v)>> \in job[d].reads,
                        <<"file", MemberFile(n, p, v)>> \notin raced'
                 PROVE  n \in aux'.loaded /\ (v \in Lists(n, p) => v \in Lists(n, p)')
    BY <1>2 DEF FilesStay
  <2>2. n # m
    <3>1. <<"file", MemberFile(n, p, v)>> \notin FilesOf(m)
      BY <1>2, <2>1 DEF Touch, Overtaken
    <3> QED BY <3>1 DEF FilesOf
  <2> QED BY <1>2, <1>3, <1>4, <2>1, <2>2, ListsStay
<1>8. (Spoilt \/ ConfigSound)'
  BY <1>2, <1>3, <1>5, <1>6, ConfigRests DEF VirtualInv
<1>9. GetFollows(c)' /\ ListFollows(c)'
  BY <1>5 DEF GetFollows, ListFollows
<1> QED BY <1>2, <1>4, <1>5, <1>6, <1>7, <1>8, <1>9, VirtualKept

-----------------------------------------------------------------------------
(* The rest of the server.                                                 *)

\* A publication puts a file into the target, where it has none.
LEMMA ForwardPublishKeeps ==
  ASSUME VirtualInv, kind \in VirtualKinds, NEW c \in Clients, ForwardPublish(c) PROVE VirtualInv'
<1>1. /\ VirtualJobs /\ VirtualTables /\ At(c, "virtualForward") /\ kind' = kind
      /\ aux' = aux /\ used' = used /\ raced' = raced /\ broken' = broken
  BY DEF VirtualInv, ForwardPublish, worldVars, historyVars
<1>2. PICK code : Reply(c, code, Nothing)
  BY DEF ForwardPublish
<1>3. DOMAIN store \subseteq DOMAIN store'
  BY DEF ForwardPublish, Put
<1>4. Versions' = Versions /\ VirtualTables' /\ SameConfig
  BY <1>1 DEF Versions, VirtualTables, SameConfig
<1>5. /\ VirtualJobs' /\ \A d \in Clients \ {c} : job'[d] = job[d]
      /\ \A x : ~(At(c, x)')
  BY <1>1, <1>2, <1>4, VirtualReplies
<1>6. \A x \in StoreSteps : ~At(c, x)
  BY <1>1 DEF At, StoreSteps
<1>7. TargetSound' /\ \A d \in Clients \ {c} : FilesStay(d)
  BY <1>1, <1>3, <1>4, <1>5, AllStays, TargetRests DEF VirtualInv
<1>8. (Spoilt \/ ConfigSound)'
  BY <1>1, <1>4, <1>5, <1>6, ConfigRests DEF VirtualInv
<1>9. GetFollows(c)' /\ ListFollows(c)'
  BY <1>5 DEF GetFollows, ListFollows
<1> QED BY <1>1, <1>4, <1>5, <1>7, <1>8, <1>9, VirtualKept

\* Where no request moves: a change of a member's files, an entry of a cache that ages.
LEMMA VirtualUnmoved ==
  ASSUME VirtualInv, kind \in VirtualKinds, kind' = kind, job' = job, broken' = broken, raced \subseteq raced',
         SameConfig, aux'.loaded = aux.loaded, VirtualShape(aux'), UsedShape(used'), Versions' = Versions,
         \A d \in Clients : FilesStay(d)
  PROVE  VirtualInv'
<1>1. VirtualJobs /\ VirtualTables /\ TargetSound /\ (Spoilt \/ ConfigSound)
  BY DEF VirtualInv
<1>2. VirtualJobs'
  BY <1>1 DEF VirtualJobs
<1>3. VirtualTables'
  BY <1>1 DEF VirtualTables, SameConfig
<1>4. TargetSound'
  BY <1>1 DEF TargetSound, SameConfig, ValidTarget, EnabledOf, At
<1>5. (Spoilt \/ ConfigSound)'
  <2>1. CASE Spoilt
    BY <2>1 DEF Spoilt, SameConfig
  <2>2. CASE ConfigSound
    <3>1. TableFollows' <=> TableFollows
      BY DEF TableFollows, Loads, ListLoads, SameConfig
    <3>0. SelectTarget(aux.config, aux.table)' = SelectTarget(aux.config, aux.table)
      BY SameTarget DEF SameConfig
    <3>2. VirtualMemoryFollows' <=> VirtualMemoryFollows
      BY <3>0, <3>1 DEF VirtualMemoryFollows, SameConfig
    <3>3. \A d \in Clients : ConfigFollows(d)' /\ (Storing(d)' <=> Storing(d))
      BY <2>2, <3>0, <3>1 DEF ConfigSound, ConfigFollows, SameConfig, Storing, At
    <3> QED BY <2>2, <3>2, <3>3 DEF ConfigSound
  <2> QED BY <1>1, <2>1, <2>2
<1>6. \A d \in Clients : GetFollows(d)' /\ ListFollows(d)'
  BY <1>1, ReaderRests DEF VirtualInv
<1> QED BY <1>2, <1>3, <1>4, <1>5, <1>6 DEF VirtualInv

\* A member gets or loses a file.
LEMMA MemberChangesKeeps ==
  ASSUME VirtualInv, kind \in VirtualKinds, MemberChanges PROVE VirtualInv'
<1>1. PICK q, kept : /\ kind' = kind /\ job' = job /\ broken' = broken
                     /\ aux' = aux \/ aux' = [aux EXCEPT !.kept = kept]
                     /\ used' = [used EXCEPT !.changes = @ + 1]
                     /\ \/ DOMAIN store \subseteq DOMAIN store' /\ raced' = raced
                        \/ /\ store' = Drop(store, {q})
                           /\ raced' = raced \cup {r \in {<<"file", q>>} : \E d \in Clients : r \in job[d].reads}
  <2>1. PICK m \in {"hosted", "proxy"} \cap aux.loaded, p \in Packages, v \in Versions, b \in Bodies :
          /\ used' = [used EXCEPT !.changes = @ + 1]
          /\ IF MemberFile(m, p, v) \in DOMAIN store
             THEN /\ store' = Drop(store, {MemberFile(m, p, v)})
                  /\ aux' = [aux EXCEPT !.kept = @ \ {MemberFile(m, p, v)}]
                  /\ raced' = raced \cup {r \in {<<"file", MemberFile(m, p, v)>>} :
                                             \E d \in Clients : r \in job[d].reads}
             ELSE store' = Put(store, MemberFile(m, p, v), b) /\ aux' = aux /\ raced' = raced
          /\ kind' = kind /\ job' = job /\ broken' = broken
    BY DEF MemberChanges, worldVars
  <2>2. PICK q, kept : q = MemberFile(m, p, v) /\ kept = aux.kept \ {q}
    OBVIOUS
  <2>3. store' = Put(store, q, b) => DOMAIN store \subseteq DOMAIN store'
    BY DEF Put
  <2> QED BY <2>1, <2>2, <2>3
<1>2. VirtualTables /\ VirtualJobs
  BY DEF VirtualInv
<1>3. UsedShape(used') /\ used'.bound = used.bound
  <2>1. UsedShape(used)
    BY <1>2 DEF VirtualTables
  <2> QED BY <1>1, <2>1 DEF UsedShape
<1>4. /\ Versions' = Versions /\ SameConfig /\ VirtualShape(aux') /\ aux'.loaded = aux.loaded
      /\ aux'.lists = aux.lists /\ raced \subseteq raced'
  BY <1>1, <1>2, <1>3 DEF Versions, SameConfig, VirtualTables, VirtualShape
<1>5. ASSUME NEW d \in Clients PROVE FilesStay(d)
  <2>1. ASSUME NEW f \in DOMAIN store, <<"file", f>> \in job[d].reads
        PROVE  f \in DOMAIN store' \/ <<"file", f>> \in raced'
    BY <1>1, <2>1 DEF Drop
  <2> QED BY <1>4, <2>1, ListsStay DEF FilesStay
<1> QED BY <1>1, <1>3, <1>4, <1>5, VirtualUnmoved

\* An entry of a cache reaches its age.
LEMMA VirtualTtlKeeps ==
  ASSUME VirtualInv, kind \in VirtualKinds, VirtualTtlPasses PROVE VirtualInv'
<1>1. /\ kind' = kind /\ store' = store /\ job' = job /\ used' = used /\ raced' = raced /\ broken' = broken
      /\ VirtualTables
  BY DEF VirtualInv, VirtualTtlPasses, worldVars, historyVars
<1>2. PICK caches : aux' = [aux EXCEPT !.cache = caches] \/ aux' = [aux EXCEPT !.index = caches]
  BY DEF VirtualTtlPasses
<1>3. VirtualShape(aux') /\ SameConfig /\ aux'.loaded = aux.loaded /\ aux'.lists = aux.lists
  BY <1>1, <1>2 DEF VirtualTables, VirtualShape, SameConfig
<1>4. Versions' = Versions /\ UsedShape(used')
  BY <1>1, <1>3 DEF Versions, VirtualTables
<1>5. \A d \in Clients : FilesStay(d)
  BY <1>1, <1>3, <1>4, AllStays
<1> QED BY <1>1, <1>3, <1>4, <1>5, VirtualUnmoved

\* A start takes the database as it is, or fails.
LEMMA VirtualRestartKeeps ==
  ASSUME VirtualInv, kind \in VirtualKinds, VirtualRestart PROVE VirtualInv'
<1>1. PICK table : table = StartTable
  OBVIOUS
<1>2. /\ VirtualJobs /\ VirtualTables /\ kind' = kind /\ raced' = raced
      /\ used' = [used EXCEPT !.faults = @ + 1]
      /\ broken' = broken \cup UNION {job[c].reads : c \in Clients}
      /\ job' = [c \in Clients |-> NoJob]
  BY DEF VirtualInv, VirtualRestart, worldVars
<1>3. UsedShape(used')
  <2>1. UsedShape(used)
    BY <1>2 DEF VirtualTables
  <2> QED BY <1>2, <2>1 DEF UsedShape
<1>4. VirtualJobs' /\ \A c \in Clients : \A x : ~(At(c, x)')
  <2>1. RequestShape(NoJob) /\ NoJob.plan = <<>>
    BY DEF RequestShape, NoJob
  <2>2. \A c \in Clients : job'[c] = NoJob
    BY <1>2
  <2>3. job' = [c \in Clients |-> job'[c]]
    BY <1>2
  <2> QED BY <2>1, <2>2, <2>3 DEF VirtualJobs, VirtualJob, At
<1>5. \A c \in Clients : GetFollows(c)' /\ ListFollows(c)'
  BY <1>4 DEF GetFollows, ListFollows
<1>6. CASE /\ Loads(aux.config, table)
           /\ aux' = [aux EXCEPT !.loaded = aux.exists, !.table = table, !.live = table,
                                 !.target = SelectTarget(aux.config, table), !.writer = {}, !.whole = TRUE,
                                 !.cache = EmptyMap, !.index = EmptyMap]
  <2>1. PICK target : target = SelectTarget(aux.config, table)
    OBVIOUS
  <2>2. /\ VirtualShape(aux') /\ aux'.config = aux.config /\ aux'.table = table /\ aux'.live = table
        /\ aux'.target = target /\ aux'.exists = aux.exists /\ aux'.up = aux.up /\ aux'.odd = aux.odd
        /\ aux'.writer = {}
    BY <1>2, <1>6, <2>1 DEF VirtualTables, VirtualShape
  <2>3. VirtualTables'
    <3>1. ListShape(table)
      BY <1>1, <1>2 DEF VirtualTables, StartTable
    <3> QED BY <1>2, <1>3, <2>2, <3>1 DEF VirtualTables
  <2>4. TargetSound'
    <3>1. ValidTarget(target, table)
      BY <1>2, <1>6, <2>1, TargetSelected DEF VirtualTables
    <3>2. ValidTarget(aux'.target, aux'.live)
      BY <2>2, <3>1
    <3>3. ValidTarget(aux.target, aux.live)'
      BY <3>2 DEF ValidTarget, EnabledOf
    <3> QED BY <1>4, <2>2, <3>3 DEF TargetSound
  <2>5. ASSUME ~(Spoilt') PROVE ConfigSound'
    <3>1. ~Spoilt /\ ConfigSound
      BY <1>2, <2>2, <2>5 DEF Spoilt, VirtualInv
    <3>2. ASSUME NEW c \in Clients PROVE ~Storing(c)
      <4>1. VConfig \notin job[c].reads
        BY <1>2, <2>5 DEF Spoilt
      <4> QED BY <1>2, <4>1, StoringHas DEF Storing
    <3>3. VirtualMemoryFollows
      BY <3>1, <3>2 DEF ConfigSound
    <3>4. table = aux.table
      BY <1>1, <3>3 DEF StartTable, VirtualMemoryFollows, TableFollows
    <3>5. TableFollows'
      BY <2>2, <3>3, <3>4 DEF VirtualMemoryFollows, TableFollows, Loads, ListLoads
    <3>6. (aux.target = SelectTarget(aux.config, aux.table))'
      <4>1. aux'.target = SelectTarget(aux'.config, aux'.table)
        BY <2>1, <2>2
      <4> QED BY <4>1 DEF SelectTarget, EnabledOf, FirstOf, Before
    <3>7. VirtualMemoryFollows'
      BY <2>2, <3>5, <3>6 DEF VirtualMemoryFollows
    <3>8. \A c \in Clients : ConfigFollows(c)'
      BY <1>4 DEF ConfigFollows
    <3> QED BY <3>7, <3>8 DEF ConfigSound
  <2> QED BY <1>2, <1>4, <1>5, <2>3, <2>4, <2>5 DEF VirtualInv
<1>7. CASE aux' = [aux EXCEPT !.up = FALSE]
  <2>1. VirtualShape(aux') /\ aux'.up = FALSE /\ aux'.config = aux.config /\ aux'.table = aux.table
        /\ aux'.live = aux.live /\ aux'.target = aux.target /\ aux'.exists = aux.exists
        /\ aux'.writer = aux.writer /\ aux'.whole = aux.whole
    BY <1>2, <1>7 DEF VirtualTables, VirtualShape
  <2>2. VirtualTables'
    BY <1>2, <1>3, <2>1 DEF VirtualTables
  <2>3. TargetSound'
    BY <1>4, <2>1 DEF VirtualInv, TargetSound, ValidTarget, EnabledOf
  <2>4. Spoilt'
    BY <2>1 DEF Spoilt
  <2> QED BY <1>2, <1>4, <1>5, <2>2, <2>3, <2>4 DEF VirtualInv
<1> QED BY <1>1, <1>6, <1>7 DEF VirtualRestart

-----------------------------------------------------------------------------
(* The reads.                                                              *)

\* The first of some members comes before the others.
LEMMA FirstIsFirst ==
  ASSUME NEW list, ListShape(list), NEW S, S \subseteq DOMAIN list, S # {}
  PROVE  FirstOf(list, S) \in S /\ \A n \in S \ {FirstOf(list, S)} : Before(list, FirstOf(list, S), n)
<1>1. Repositories = {"hosted", "proxy", "other"} /\ MemberRank["hosted"] = 1
      /\ MemberRank["proxy"] = 2 /\ MemberRank["other"] = 3
  BY ListsShaped DEF MemberRank
<1>2. \A m \in S : m \in {"hosted", "proxy", "other"} /\ list[m].rank \in Nat
  BY <1>1 DEF ListShape
<1>3. ASSUME NEW m \in S, NEW n \in S, m # n PROVE Before(list, m, n) \/ Before(list, n, m)
  BY <1>1, <1>2, <1>3 DEF Before
<1>4. ASSUME NEW l \in S, NEW m \in S, NEW n \in S, Before(list, l, m), Before(list, m, n)
      PROVE  Before(list, l, n)
  BY <1>1, <1>2, <1>4 DEF Before
<1>5. \E m \in S : \A n \in S \ {m} : Before(list, m, n)
  BY <1>2, <1>3, <1>4
<1> QED BY <1>5 DEF FirstOf

\* What is left of the members once one has been asked.
Without(mem, m) == [mem EXCEPT !.list = Drop(@, {m})]

\* The rest of what the reader remembers stays.
LEMMA MembersLeft ==
  ASSUME NEW mem, ReaderMem(mem), NEW m, NEW left, left = Without(mem, m)
  PROVE  /\ ReaderMem(left) /\ left.denied = mem.denied /\ left.held = mem.held /\ left.found = mem.found
         /\ left.failed = mem.failed /\ left.all = mem.all /\ DOMAIN left.list = DOMAIN mem.list \ {m}
         /\ \A n \in DOMAIN left.list : left.list[n] = mem.list[n]
<1>1. PICK list : list = Drop(mem.list, {m})
  OBVIOUS
<1>2. DOMAIN list = DOMAIN mem.list \ {m} /\ \A n \in DOMAIN list : list[n] = mem.list[n]
  BY <1>1 DEF Drop
<1>3. ListShape(list)
  BY <1>2 DEF ListShape, ReaderMem
<1>4. left = [mem EXCEPT !.list = list]
  BY <1>1 DEF Without
<1> QED BY <1>2, <1>3, <1>4 DEF ReaderMem

\* What a reader's step leaves alone: all but the caches.
CachesOnly ==
    /\ kind' = kind /\ store' = store /\ raced' = raced /\ broken' = broken
    /\ SameConfig /\ aux'.loaded = aux.loaded /\ VirtualShape(aux') /\ UsedShape(used') /\ Versions' = Versions

\* A reader goes on: what is left to show is what it knows by then.
LEMMA ReaderGoesOn ==
  ASSUME VirtualInv, kind \in VirtualKinds, NEW c \in Clients, CachesOnly,
         \A m, p : Lists(m, p)' = Lists(m, p),
         NEW x \in GetSteps \cup ListSteps, At(c, x),
         NEW k, job' = [job EXCEPT ![c] = k], RequestShape(k), k.plan \in ReaderPlans,
         NEW y, y = Head(k.plan), y # "virtualForward", ReaderJob(k, y, Versions),
         y \in {"virtualHit", "virtualNext"} => GetKnows(k),
         y = "virtualMerge" => ListKnows(k)
  PROVE  VirtualInv'
<1>1. VirtualJobs
  BY DEF VirtualInv
<1>2. k.plan \in VirtualPlans /\ k.plan # <<>>
  <2>1. k.plan \in VirtualPlans
    BY DEF VirtualPlans
  <2> QED BY <2>1, VirtualPlanHeads
<1>3. y \notin StoreSteps \cup {"virtualRead"}
  BY DEF ReaderPlans, StoreSteps
<1>4. ConfigJob(k, y)
  BY <1>3, ConfigHeads DEF ConfigJob, StoreSteps
<1>5. VirtualJob(k, Versions)
  BY <1>2, <1>4 DEF VirtualJob
<1>6. /\ VirtualJobs' /\ \A d \in Clients \ {c} : job'[d] = job[d]
      /\ \A z : At(c, z)' <=> z = y
      /\ job'[c] = k
  BY <1>1, <1>2, <1>5, VirtualGoesOn DEF CachesOnly
<1>7. \A z \in StoreSteps : ~At(c, z) /\ ~(At(c, z)')
  BY <1>3, <1>6 DEF At, StoreSteps, GetSteps, ListSteps
<1>8. \A m, v : (Available(m, k, v)' <=> Available(m, k, v)) /\ (OnList(m, k, v)' <=> OnList(m, k, v))
  BY DEF Available, OnList, CachesOnly
<1>9. (GetKnows(k)' <=> GetKnows(k)) /\ (ListKnows(k)' <=> ListKnows(k))
  BY <1>8 DEF GetKnows, ListKnows, Copy, CachesOnly
<1>10. GetFollows(c)'
  <2>1. At(c, "virtualHit")' \/ At(c, "virtualNext")' => GetKnows(k)'
    BY <1>6, <1>9
  <2> QED BY <1>6, <2>1 DEF GetFollows, GetKnows, Copy, Available
<1>11. ListFollows(c)'
  <2>1. At(c, "virtualMerge")' => ListKnows(k)'
    BY <1>6, <1>9
  <2> QED BY <1>6, <2>1 DEF ListFollows, ListKnows, Copy, OnList
<1>12. \A d \in Clients : FilesStay(d)
  BY DEF FilesStay, CachesOnly
<1> QED BY <1>6, <1>7, <1>10, <1>11, <1>12, VirtualQuiet DEF CachesOnly

\* A fault is counted.
LEMMA FaultCounted == ASSUME UsedShape(used), CleanFault PROVE UsedShape(used') /\ Versions' = Versions
<1>1. PICK n : n = used.faults + 1
  OBVIOUS
<1>2. used' = [used EXCEPT !.faults = n]
  BY <1>1 DEF CleanFault
<1>3. /\ used'.requests = used.requests /\ used'.faults = n /\ used'.clock = used.clock
      /\ used'.changes = used.changes /\ used'.bound = used.bound
      /\ used' = [requests |-> used.requests, faults |-> n, clock |-> used.clock,
                  changes |-> used.changes, bound |-> used.bound]
  BY <1>2 DEF UsedShape
<1>4. n \in Nat
  <2>1. PICK f : f = used.faults
    OBVIOUS
  <2>2. f \in Nat
    BY <2>1 DEF UsedShape
  <2>3. f + 1 \in Nat
    BY <2>2
  <2> QED BY <1>1, <2>1, <2>3
<1> QED BY <1>3, <1>4 DEF UsedShape, Versions

\* The steps of a reader: only the caches and the fault of an upstream change.
LEMMA CachesChange ==
  ASSUME VirtualTables, kind' = kind, store' = store, raced' = raced, broken' = broken,
         used' = used \/ CleanFault,
         \/ aux' = aux
         \/ \E kept : aux' = [aux EXCEPT !.kept = kept]
         \/ \E caches : aux' = [aux EXCEPT !.cache = caches]
         \/ \E caches, kept : aux' = [aux EXCEPT !.cache = caches, !.kept = kept]
         \/ \E caches : aux' = [aux EXCEPT !.index = caches]
         \/ \E lists : aux' = [aux EXCEPT !.lists = lists]
  PROVE  /\ CachesOnly
         /\ (\A lists : aux' # [aux EXCEPT !.lists = lists]) \/ aux' = aux => aux'.lists = aux.lists
         /\ aux'.lists = aux.lists => \A m, p : Lists(m, p)' = Lists(m, p)
<1>1. UsedShape(used') /\ Versions' = Versions
  <2>1. UsedShape(used)
    BY DEF VirtualTables
  <2>2. CASE used' = used
    BY <2>1, <2>2 DEF Versions
  <2>3. CASE CleanFault
    BY <2>1, <2>3, FaultCounted
  <2> QED BY <2>2, <2>3
<1>2. VirtualShape(aux)
  BY DEF VirtualTables
<1>3. /\ SameConfig /\ aux'.loaded = aux.loaded /\ VirtualShape(aux')
      /\ (\A lists : aux' # [aux EXCEPT !.lists = lists]) \/ aux' = aux => aux'.lists = aux.lists
  <2>1. CASE aux' = aux
    BY <1>2, <2>1 DEF SameConfig
  <2>2. ASSUME NEW kept, aux' = [aux EXCEPT !.kept = kept]
        PROVE  SameConfig /\ aux'.loaded = aux.loaded /\ VirtualShape(aux') /\ aux'.lists = aux.lists
    BY <1>2, <2>2 DEF SameConfig, VirtualShape
  <2>3. ASSUME NEW caches, aux' = [aux EXCEPT !.cache = caches]
        PROVE  SameConfig /\ aux'.loaded = aux.loaded /\ VirtualShape(aux') /\ aux'.lists = aux.lists
    BY <1>2, <2>3 DEF SameConfig, VirtualShape
  <2>4. ASSUME NEW caches, NEW kept, aux' = [aux EXCEPT !.cache = caches, !.kept = kept]
        PROVE  SameConfig /\ aux'.loaded = aux.loaded /\ VirtualShape(aux') /\ aux'.lists = aux.lists
    BY <1>2, <2>4 DEF SameConfig, VirtualShape
  <2>5. ASSUME NEW caches, aux' = [aux EXCEPT !.index = caches]
        PROVE  SameConfig /\ aux'.loaded = aux.loaded /\ VirtualShape(aux') /\ aux'.lists = aux.lists
    BY <1>2, <2>5 DEF SameConfig, VirtualShape
  <2>6. ASSUME NEW lists, aux' = [aux EXCEPT !.lists = lists]
        PROVE  SameConfig /\ aux'.loaded = aux.loaded /\ VirtualShape(aux')
    BY <1>2, <2>6 DEF SameConfig, VirtualShape
  <2> QED BY <2>1, <2>2, <2>3, <2>4, <2>5, <2>6
<1>4. ASSUME aux'.lists = aux.lists PROVE \A m, p : Lists(m, p)' = Lists(m, p)
  BY <1>1, <1>4 DEF Lists, HasMember
<1> QED BY <1>1, <1>3, <1>4 DEF CachesOnly

\* A reader that answers.
LEMMA ReaderAnswers ==
  ASSUME VirtualInv, kind \in VirtualKinds, NEW c \in Clients, CachesOnly, aux'.lists = aux.lists,
         NEW x \in GetSteps \cup ListSteps, At(c, x), \E code, got : Reply(c, code, got)
  PROVE  VirtualInv'
<1>1. x \notin StoreSteps
  BY DEF StoreSteps, GetSteps, ListSteps
<1> QED BY <1>1, VirtualAnswered DEF CachesOnly

\* What may be assumed of a reader at one of its steps.
LEMMA ReaderAt ==
  ASSUME VirtualInv, kind \in VirtualKinds, NEW c \in Clients, NEW x \in GetSteps \cup ListSteps, At(c, x)
  PROVE  /\ VirtualJobs /\ VirtualTables /\ RequestShape(job[c]) /\ job = [d \in Clients |-> job[d]]
         /\ ReaderMem(job[c].mem) /\ job[c].p \in Packages /\ ReaderJob(job[c], x, Versions)
         /\ x = "virtualHit" => Rest(c) = <<"virtualNext">>
         /\ x = "virtualPage" => Rest(c) = <<"virtualMerge">>
         /\ x = "virtualNext" => job[c].plan = <<"virtualNext">>
         /\ x = "virtualMerge" => job[c].plan = <<"virtualMerge">>
         /\ GetFollows(c) /\ ListFollows(c)
<1>1. VirtualJobs /\ VirtualTables /\ GetFollows(c) /\ ListFollows(c)
  BY DEF VirtualInv
<1>2. /\ RequestShape(job[c]) /\ job = [d \in Clients |-> job[d]] /\ ReaderJob(job[c], x, Versions)
      /\ VirtualOnward(job[c].plan) /\ Head(job[c].plan) = x /\ Rest(c) = Tail(job[c].plan)
  BY <1>1, VirtualAt
<1>3. /\ x = "virtualHit" => Rest(c) = <<"virtualNext">>
      /\ x = "virtualPage" => Rest(c) = <<"virtualMerge">>
      /\ x = "virtualNext" => job[c].plan = <<"virtualNext">>
      /\ x = "virtualMerge" => job[c].plan = <<"virtualMerge">>
  BY <1>2 DEF VirtualOnward
<1>4. ReaderMem(job[c].mem) /\ job[c].p \in Packages
  BY <1>2 DEF ReaderJob
<1> QED BY <1>1, <1>2, <1>3, <1>4

\* The plans of the readers.
LEMMA ReaderHeads ==
  /\ <<"virtualHit", "virtualNext">> \in ReaderPlans /\ Head(<<"virtualHit", "virtualNext">>) = "virtualHit"
  /\ <<"virtualNext">> \in ReaderPlans /\ Head(<<"virtualNext">>) = "virtualNext"
  /\ <<"virtualMerge">> \in ReaderPlans /\ Head(<<"virtualMerge">>) = "virtualMerge"
  BY DEF ReaderPlans

\* The members that are enabled.
LEMMA EnabledShaped ==
  ASSUME VirtualTables
  PROVE  ListShape(Keep(aux.live, LAMBDA m : aux.live[m].on))
  BY DEF VirtualTables, ListShape, Keep

\* The cache names the member that served the path last.
LEMMA CachedMemberKeeps ==
  ASSUME VirtualInv, kind \in VirtualKinds, NEW c \in Clients, CachedMember(c) PROVE VirtualInv'
<1>1. PICK j, list : j = job[c] /\ list = Keep(aux.live, LAMBDA m : aux.live[m].on)
  OBVIOUS
<1> DEFINE k == <<j.p, j.v>>
<1>2. PICK plan, held, found :
        /\ plan = IF k \in DOMAIN aux.cache /\ aux.cache[k] \in DOMAIN list
                  THEN <<"virtualHit", "virtualNext">> ELSE <<"virtualNext">>
        /\ held = {m \in DOMAIN list : Serves(m, j) /\ ~Denies(m, j)}
        /\ found = IF k \in DOMAIN aux.cache THEN {aux.cache[k]} ELSE {}
  OBVIOUS
<1>3. /\ At(c, "virtualCached") /\ kind' = kind /\ store' = store /\ aux' = aux /\ used' = used
      /\ raced' = raced /\ broken' = broken
  BY DEF CachedMember, worldVars, historyVars
<1>4. /\ VirtualJobs /\ VirtualTables /\ RequestShape(job[c]) /\ job = [d \in Clients |-> job[d]]
      /\ ReaderMem(j.mem) /\ j.p \in Packages /\ j.op = "virtualGet" /\ j.v \in Versions
  <2>1. /\ VirtualJobs /\ VirtualTables /\ RequestShape(job[c]) /\ job = [d \in Clients |-> job[d]]
        /\ ReaderMem(job[c].mem) /\ job[c].p \in Packages /\ ReaderJob(job[c], "virtualCached", Versions)
    BY <1>3, ReaderAt DEF GetSteps
  <2> QED BY <1>1, <2>1 DEF ReaderJob, GetSteps
<1>5. PICK mem : mem = [j.mem EXCEPT !.list = list, !.all = list, !.held = held, !.found = found]
  OBVIOUS
<1>6. PICK reads : reads = {<<"file", MemberFile(m, j.p, j.v)>> : m \in held}
  OBVIOUS
<1>7. PICK new : /\ job' = [job EXCEPT ![c] = new] /\ RequestShape(new)
                 /\ new.plan = plan /\ new.mem = mem /\ new.reads = reads
                 /\ new.op = j.op /\ new.p = j.p /\ new.v = j.v
  <2>1. Recall(c, plan, mem, reads)
    <3>1. Recall(c, plan, [j.mem EXCEPT !.list = list, !.all = list, !.held = held, !.found = found],
                 {<<"file", MemberFile(m, j.p, j.v)>> : m \in held})
      BY <1>1, <1>2 DEF CachedMember
    <3> QED BY <1>5, <1>6, <3>1
  <2> QED BY <1>1, <1>4, <2>1, Recalled
<1>8. ReaderMem(mem) /\ mem.list = list /\ mem.all = list /\ mem.held = held /\ mem.denied = j.mem.denied
  <2>1. ListShape(list)
    BY <1>1, <1>4, EnabledShaped
  <2> QED BY <1>4, <1>5, <2>1 DEF ReaderMem
<1>9. PICK y : y = Head(plan)
  OBVIOUS
<1>10. plan \in ReaderPlans /\ y \in {"virtualHit", "virtualNext"}
  BY <1>2, <1>9, ReaderHeads
<1>11. ReaderJob(new, y, Versions)
  BY <1>4, <1>7, <1>8, <1>10 DEF ReaderJob, GetSteps, ListSteps
<1>12. ASSUME NEW m \in new.mem.held PROVE Available(m, new, new.v)
  <2>1. m \in held /\ m \in DOMAIN list /\ Serves(m, j) /\ ~Denies(m, j)
    BY <1>2, <1>7, <1>8, <1>12
  <2>2. Copy(m, new, new.v) \in new.reads
    BY <1>6, <1>7, <2>1 DEF Copy
  <2> QED BY <1>7, <1>8, <2>1, <2>2 DEF Available, Serves, Denies
<1>13. GetKnows(new)
  BY <1>12 DEF GetKnows
<1>14. CachesOnly /\ \A m, p : Lists(m, p)' = Lists(m, p)
  BY <1>3, <1>4, CachesChange
<1> QED BY <1>3, <1>7, <1>9, <1>10, <1>11, <1>13, <1>14, ReaderGoesOn DEF GetSteps

\* The cached member is passed over.
LEMMA HitPassed ==
  ASSUME VirtualInv, kind \in VirtualKinds, NEW c \in Clients, At(c, "virtualHit"), Advance(c), CachesOnly,
         \A m, p : Lists(m, p)' = Lists(m, p)
  PROVE  VirtualInv'
<1>1. PICK j : j = job[c]
  OBVIOUS
<1>2. /\ VirtualJobs /\ RequestShape(job[c]) /\ job = [d \in Clients |-> job[d]]
      /\ ReaderJob(j, "virtualHit", Versions) /\ Rest(c) = <<"virtualNext">> /\ GetFollows(c)
  BY <1>1, ReaderAt DEF GetSteps
<1>3. PICK plan : plan = <<"virtualNext">>
  OBVIOUS
<1>4. PICK k : /\ job' = [job EXCEPT ![c] = k] /\ RequestShape(k)
               /\ k.plan = plan /\ k.mem = j.mem /\ k.reads = j.reads
               /\ k.op = j.op /\ k.p = j.p /\ k.v = j.v
  <2>1. Goto(c, plan)
    BY <1>2, <1>3 DEF Advance
  <2> QED BY <1>1, <1>2, <2>1, WentOn
<1>5. plan \in ReaderPlans /\ Head(plan) = "virtualNext"
  BY <1>3, ReaderHeads
<1>6. ReaderJob(k, "virtualNext", Versions)
  BY <1>2, <1>4 DEF ReaderJob, GetSteps, ListSteps
<1>7. GetKnows(k)
  <2>1. GetKnows(j)
    BY <1>1, <1>2 DEF GetFollows
  <2> QED BY <1>4, <2>1 DEF GetKnows, Copy, Available
<1> QED BY <1>4, <1>5, <1>6, <1>7, ReaderGoesOn DEF GetSteps

\* The cached member answers, or is passed over.
LEMMA CachedHitKeeps ==
  ASSUME VirtualInv, kind \in VirtualKinds, NEW c \in Clients, CachedHit(c) PROVE VirtualInv'
<1>1. /\ At(c, "virtualHit") /\ kind' = kind /\ store' = store /\ used' = used
      /\ raced' = raced /\ broken' = broken /\ VirtualTables
  BY DEF CachedHit, worldVars, historyVars, VirtualInv
<1>2. \/ aux' = aux /\ (Advance(c) \/ \E code, got : Reply(c, code, got))
      \/ (\E kept : aux' = [aux EXCEPT !.kept = kept]) /\ \E code, got : Reply(c, code, got)
  BY DEF CachedHit
<1>3. CASE aux' = aux
  <2>1. CachesOnly /\ aux'.lists = aux.lists /\ \A m, p : Lists(m, p)' = Lists(m, p)
    BY <1>1, <1>3, CachesChange
  <2>2. CASE Advance(c)
    BY <1>1, <2>1, <2>2, HitPassed
  <2>3. CASE \E code, got : Reply(c, code, got)
    BY <1>1, <2>1, <2>3, ReaderAnswers DEF GetSteps
  <2> QED BY <1>2, <1>3, <2>2, <2>3
<1>4. ASSUME NEW kept, aux' = [aux EXCEPT !.kept = kept], \E code, got : Reply(c, code, got) PROVE VirtualInv'
  <2>1. CachesOnly
    BY <1>1, <1>4, CachesChange
  <2>2. aux'.lists = aux.lists
    BY <1>1, <1>4 DEF VirtualTables, VirtualShape
  <2> QED BY <1>1, <1>4, <2>1, <2>2, ReaderAnswers DEF GetSteps
<1> QED BY <1>2, <1>3, <1>4

\* Its upstream fails: the answer is final, or the member is passed over.
LEMMA HitUpstreamFailsKeeps ==
  ASSUME VirtualInv, kind \in VirtualKinds, NEW c \in Clients, HitUpstreamFails(c) PROVE VirtualInv'
<1>1. /\ At(c, "virtualHit") /\ kind' = kind /\ store' = store /\ CleanFault /\ aux' = aux
      /\ raced' = raced /\ broken' = broken /\ VirtualTables
  BY DEF HitUpstreamFails, worldVars, historyVars, VirtualInv
<1>2. Advance(c) \/ \E code, got : Reply(c, code, got)
  BY DEF HitUpstreamFails
<1>3. CachesOnly /\ aux'.lists = aux.lists /\ \A m, p : Lists(m, p)' = Lists(m, p)
  BY <1>1, CachesChange
<1>4. CASE Advance(c)
  BY <1>1, <1>3, <1>4, HitPassed
<1>5. CASE \E code, got : Reply(c, code, got)
  BY <1>1, <1>3, <1>5, ReaderAnswers DEF GetSteps
<1> QED BY <1>2, <1>4, <1>5

\* The next member is passed over: it does not serve the file, or its upstream fails.
LEMMA MemberPassed ==
  ASSUME VirtualInv, kind \in VirtualKinds, NEW c \in Clients, At(c, "virtualNext"), CachesOnly,
         \A n, p : Lists(n, p)' = Lists(n, p),
         NEW j, j = job[c], NEW m, NEW mem, Recall(c, j.plan, mem, j.reads),
         ReaderMem(mem), mem.denied = j.mem.denied, mem.held = j.mem.held, mem.all = j.mem.all,
         DOMAIN mem.list = DOMAIN j.mem.list \ {m}, \A n \in DOMAIN mem.list : mem.list[n] = j.mem.list[n],
         j.mem.failed \subseteq mem.failed, ~Available(m, j, j.v) \/ m \in mem.failed
  PROVE  VirtualInv'
<1>1. /\ VirtualJobs /\ RequestShape(job[c]) /\ job = [d \in Clients |-> job[d]]
      /\ ReaderJob(j, "virtualNext", Versions) /\ j.plan = <<"virtualNext">> /\ GetFollows(c)
  BY ReaderAt DEF GetSteps
<1>2. PICK plan, reads : plan = j.plan /\ reads = j.reads
  OBVIOUS
<1>3. PICK k : /\ job' = [job EXCEPT ![c] = k] /\ RequestShape(k)
               /\ k.plan = plan /\ k.mem = mem /\ k.reads = reads
               /\ k.op = j.op /\ k.p = j.p /\ k.v = j.v
  <2>1. Recall(c, plan, mem, reads)
    BY <1>2
  <2> QED BY <1>1, <2>1, Recalled
<1>4. plan \in ReaderPlans /\ Head(plan) = "virtualNext"
  BY <1>1, <1>2, ReaderHeads
<1>5. ReaderJob(k, "virtualNext", Versions)
  BY <1>1, <1>3 DEF ReaderJob, GetSteps, ListSteps
<1>6. ASSUME NEW n \in k.mem.held
      PROVE  n \in k.mem.failed \/ Copy(n, k, k.v) \in raced \/ Available(n, k, k.v)
  <2>1. n \in j.mem.failed \/ Copy(n, j, j.v) \in raced \/ Available(n, j, j.v)
    BY <1>1, <1>3, <1>6 DEF GetFollows, GetKnows
  <2>2. CASE n = m
    BY <1>3, <2>1, <2>2 DEF Copy
  <2>3. CASE n # m
    BY <1>2, <1>3, <2>1, <2>3 DEF Copy, Available
  <2> QED BY <2>2, <2>3
<1>7. GetKnows(k)
  BY <1>6 DEF GetKnows
<1> QED BY <1>3, <1>4, <1>5, <1>7, ReaderGoesOn DEF GetSteps

\* The next member answers, or is passed over.
LEMMA AskMemberKeeps ==
  ASSUME VirtualInv, kind \in VirtualKinds, NEW c \in Clients, AskMember(c) PROVE VirtualInv'
<1>1. PICK j, m, left : /\ j = job[c] /\ m = FirstOf(j.mem.list, DOMAIN j.mem.list)
                        /\ left = [j.mem EXCEPT !.list = Drop(@, {m})]
  OBVIOUS
<1>2. /\ At(c, "virtualNext") /\ kind' = kind /\ store' = store /\ used' = used
      /\ raced' = raced /\ broken' = broken
  BY DEF AskMember, worldVars, historyVars
<1>3. VirtualTables /\ ReaderMem(j.mem)
  BY <1>1, <1>2, ReaderAt DEF GetSteps
<1>4. ASSUME aux' = aux \/ \E caches, kept : aux' = [aux EXCEPT !.cache = caches, !.kept = kept],
             \E code, got : Reply(c, code, got)
      PROVE  VirtualInv'
  <2>1. CachesOnly
    BY <1>2, <1>3, <1>4, CachesChange
  <2>2. aux'.lists = aux.lists
    BY <1>3, <1>4 DEF VirtualTables, VirtualShape
  <2> QED BY <1>2, <1>4, <2>1, <2>2, ReaderAnswers DEF GetSteps
<1>5. ASSUME NEW mem, Recall(c, j.plan, mem, j.reads), aux' = aux, Denies(m, j) \/ ~Serves(m, j),
             mem = left \/ mem = [left EXCEPT !.refused = TRUE]
      PROVE  VirtualInv'
  <2>1. /\ ReaderMem(left) /\ left.denied = j.mem.denied /\ left.held = j.mem.held /\ left.failed = j.mem.failed
        /\ left.all = j.mem.all /\ DOMAIN left.list = DOMAIN j.mem.list \ {m}
        /\ \A n \in DOMAIN left.list : left.list[n] = j.mem.list[n]
    <3>1. left = Without(j.mem, m)
      BY <1>1 DEF Without
    <3> QED BY <1>3, <3>1, MembersLeft
  <2>2. /\ ReaderMem(mem) /\ mem.denied = j.mem.denied /\ mem.held = j.mem.held /\ mem.failed = j.mem.failed
        /\ mem.all = j.mem.all /\ DOMAIN mem.list = DOMAIN j.mem.list \ {m}
        /\ \A n \in DOMAIN mem.list : mem.list[n] = j.mem.list[n]
    BY <1>5, <2>1 DEF ReaderMem
  <2>3. ~Available(m, j, j.v)
    BY <1>5 DEF Available, Denies, Serves
  <2>4. CachesOnly /\ \A n, p : Lists(n, p)' = Lists(n, p)
    BY <1>2, <1>3, <1>5, CachesChange
  <2> QED BY <1>1, <1>2, <1>5, <2>2, <2>3, <2>4, MemberPassed
<1>6. CASE DOMAIN j.mem.list = {}
  BY <1>1, <1>4, <1>6 DEF AskMember
<1>7. CASE DOMAIN j.mem.list # {}
  <2>1. \/ /\ Denies(m, j) /\ aux' = aux
           /\ Recall(c, j.plan, [left EXCEPT !.refused = TRUE], j.reads)
        \/ /\ aux' = [aux EXCEPT !.cache = Put(@, <<j.p, j.v>>, m), !.kept = Keeping(m, MemberFile(m, j.p, j.v))]
           /\ Reply(c, 200, [from |-> m, body |-> store[MemberFile(m, j.p, j.v)]])
        \/ ~Serves(m, j) /\ aux' = aux /\ Recall(c, j.plan, left, j.reads)
    BY <1>1, <1>7 DEF AskMember
  <2> QED BY <1>4, <1>5, <2>1
<1> QED BY <1>6, <1>7

\* A member whose upstream fails is noted as such.
Failing(mem, m) == [mem EXCEPT !.list = Drop(@, {m}), !.failed = @ \cup {m}]
LEMMA MemberFailed ==
  ASSUME NEW mem, ReaderMem(mem), NEW m, NEW new, new = Failing(mem, m)
  PROVE  /\ ReaderMem(new) /\ new.denied = mem.denied /\ new.held = mem.held /\ new.found = mem.found
         /\ new.failed = mem.failed \cup {m} /\ new.all = mem.all /\ DOMAIN new.list = DOMAIN mem.list \ {m}
         /\ \A n \in DOMAIN new.list : new.list[n] = mem.list[n]
<1>1. PICK left : left = Without(mem, m)
  OBVIOUS
<1>2. /\ ReaderMem(left) /\ left.denied = mem.denied /\ left.held = mem.held /\ left.found = mem.found
      /\ left.failed = mem.failed /\ left.all = mem.all /\ DOMAIN left.list = DOMAIN mem.list \ {m}
      /\ \A n \in DOMAIN left.list : left.list[n] = mem.list[n]
  BY <1>1, MembersLeft
<1>3. new = [left EXCEPT !.failed = mem.failed \cup {m}]
  BY <1>1 DEF Without, Failing, ReaderMem
<1> QED BY <1>2, <1>3 DEF ReaderMem

\* Its upstream fails: the error is the answer, or the member is passed over.
LEMMA AskUpstreamFailsKeeps ==
  ASSUME VirtualInv, kind \in VirtualKinds, NEW c \in Clients, AskUpstreamFails(c) PROVE VirtualInv'
<1>1. PICK j, m, new : /\ j = job[c] /\ m = FirstOf(j.mem.list, DOMAIN j.mem.list)
                       /\ new = [j.mem EXCEPT !.list = Drop(@, {m}), !.failed = @ \cup {m}]
  OBVIOUS
<1>2. /\ At(c, "virtualNext") /\ kind' = kind /\ store' = store /\ CleanFault
      /\ raced' = raced /\ broken' = broken
      /\ \/ (\E caches : aux' = [aux EXCEPT !.cache = caches]) /\ \E code, got : Reply(c, code, got)
         \/ aux' = aux /\ Recall(c, j.plan, new, j.reads)
  BY <1>1 DEF AskUpstreamFails, worldVars, historyVars
<1>3. VirtualTables /\ ReaderMem(j.mem)
  BY <1>1, <1>2, ReaderAt DEF GetSteps
<1>4. CASE aux' = aux /\ Recall(c, j.plan, new, j.reads)
  <2>1. /\ ReaderMem(new) /\ new.denied = j.mem.denied /\ new.held = j.mem.held
        /\ new.failed = j.mem.failed \cup {m} /\ new.all = j.mem.all /\ DOMAIN new.list = DOMAIN j.mem.list \ {m}
        /\ \A n \in DOMAIN new.list : new.list[n] = j.mem.list[n]
    <3>1. new = Failing(j.mem, m)
      BY <1>1 DEF Failing
    <3> QED BY <1>3, <3>1, MemberFailed
  <2>2. CachesOnly /\ \A n, p : Lists(n, p)' = Lists(n, p)
    BY <1>2, <1>3, <1>4, CachesChange
  <2>3. j.mem.failed \subseteq new.failed /\ m \in new.failed
    BY <2>1
  <2>4. j = job[c] /\ At(c, "virtualNext") /\ Recall(c, j.plan, new, j.reads)
    BY <1>1, <1>2, <1>4
  <2> QED BY <2>1, <2>2, <2>3, <2>4, MemberPassed
<1>5. ASSUME NEW caches, aux' = [aux EXCEPT !.cache = caches], \E code, got : Reply(c, code, got)
      PROVE  VirtualInv'
  <2>1. CachesOnly
    BY <1>2, <1>3, <1>5, CachesChange
  <2>2. aux'.lists = aux.lists
    BY <1>3, <1>5 DEF VirtualTables, VirtualShape
  <2> QED BY <1>2, <1>5, <2>1, <2>2, ReaderAnswers DEF GetSteps
<1> QED BY <1>2, <1>4, <1>5

\* The kept page answers, or the members are to be asked.
LEMMA CachedPageKeeps ==
  ASSUME VirtualInv, kind \in VirtualKinds, NEW c \in Clients, CachedPage(c) PROVE VirtualInv'
<1>1. PICK j, list : j = job[c] /\ list = Keep(aux.live, LAMBDA m : aux.live[m].on)
  OBVIOUS
<1>2. PICK held : held = {h \in (DOMAIN list) \X Versions :
                            h[1] \in aux.loaded /\ RightType(h[1]) /\ ~Denies(h[1], j) /\ h[2] \in Lists(h[1], j.p)}
  OBVIOUS
<1>3. PICK reads : reads = {<<"file", MemberFile(h[1], j.p, h[2])>> : h \in held}
  OBVIOUS
<1>4. /\ At(c, "virtualPage") /\ kind' = kind /\ store' = store /\ aux' = aux /\ used' = used
      /\ raced' = raced /\ broken' = broken
  BY DEF CachedPage, worldVars, historyVars
<1>5. \/ \E code, got : Reply(c, code, got)
      \/ Recall(c, Rest(c), [j.mem EXCEPT !.list = list, !.held = held], reads)
  BY <1>1, <1>2, <1>3 DEF CachedPage
<1>6. /\ VirtualJobs /\ VirtualTables /\ RequestShape(job[c]) /\ job = [d \in Clients |-> job[d]]
      /\ ReaderMem(j.mem) /\ ReaderJob(j, "virtualPage", Versions) /\ Rest(c) = <<"virtualMerge">>
  BY <1>1, <1>4, ReaderAt DEF ListSteps
<1>7. CachesOnly /\ aux'.lists = aux.lists /\ \A m, p : Lists(m, p)' = Lists(m, p)
  BY <1>4, <1>6, CachesChange
<1>8. CASE \E code, got : Reply(c, code, got)
  BY <1>4, <1>7, <1>8, ReaderAnswers DEF ListSteps
<1>9. CASE Recall(c, Rest(c), [j.mem EXCEPT !.list = list, !.held = held], reads)
  <2>1. PICK mem, plan : mem = [j.mem EXCEPT !.list = list, !.held = held] /\ plan = Rest(c)
    OBVIOUS
  <2>2. PICK k : /\ job' = [job EXCEPT ![c] = k] /\ RequestShape(k)
                 /\ k.plan = plan /\ k.mem = mem /\ k.reads = reads
                 /\ k.op = j.op /\ k.p = j.p /\ k.v = j.v
    <3>1. Recall(c, plan, mem, reads)
      BY <1>9, <2>1
    <3> QED BY <1>1, <1>6, <3>1, Recalled
  <2>3. ReaderMem(mem) /\ mem.list = list /\ mem.held = held /\ mem.denied = j.mem.denied /\ ListShape(list)
    <3>1. ListShape(list)
      BY <1>1, <1>6, EnabledShaped
    <3> QED BY <1>6, <2>1, <3>1 DEF ReaderMem
  <2>4. plan \in ReaderPlans /\ Head(plan) = "virtualMerge"
    BY <1>6, <2>1, ReaderHeads
  <2>5. held \subseteq Repositories \X Versions
    <3>1. DOMAIN list \subseteq Repositories
      BY <2>3 DEF ListShape
    <3> QED BY <1>2, <3>1
  <2>6. ReaderJob(k, "virtualMerge", Versions)
    BY <1>6, <2>2, <2>3, <2>5 DEF ReaderJob, GetSteps, ListSteps
  <2>7. ASSUME NEW h \in k.mem.held PROVE OnList(h[1], k, h[2])
    <3>1. /\ h \in held /\ h[1] \in DOMAIN list /\ h[1] \in aux.loaded /\ RightType(h[1])
          /\ ~Denies(h[1], j) /\ h[2] \in Lists(h[1], j.p)
      BY <1>2, <2>2, <2>3, <2>7
    <3>2. Copy(h[1], k, h[2]) \in k.reads
      BY <1>3, <2>2, <3>1 DEF Copy
    <3>3. h[1] \notin k.mem.denied
      BY <2>2, <2>3, <3>1 DEF Denies
    <3> QED BY <2>2, <2>3, <3>1, <3>2, <3>3 DEF OnList
  <2>8. ListKnows(k)
    BY <2>7 DEF ListKnows
  <2> QED BY <1>4, <1>7, <2>2, <2>4, <2>6, <2>8, ReaderGoesOn DEF ListSteps
<1> QED BY <1>5, <1>8, <1>9

\* The next member's list is merged, or the member is passed over.
LEMMA ListPassed ==
  ASSUME VirtualInv, kind \in VirtualKinds, NEW c \in Clients, At(c, "virtualMerge"), CachesOnly,
         \A n, p : Lists(n, p)' = Lists(n, p),
         NEW j, j = job[c], NEW m, NEW mem, Recall(c, j.plan, mem, j.reads),
         ReaderMem(mem), mem.denied = j.mem.denied, mem.held = j.mem.held,
         DOMAIN mem.list = DOMAIN j.mem.list \ {m}, j.mem.found \subseteq mem.found,
         j.mem.failed \subseteq mem.failed,
         \A v \in Versions : OnList(m, j, v) => v \in mem.found \/ m \in mem.failed
  PROVE  VirtualInv'
<1>1. /\ VirtualJobs /\ RequestShape(job[c]) /\ job = [d \in Clients |-> job[d]]
      /\ ReaderJob(j, "virtualMerge", Versions) /\ j.plan = <<"virtualMerge">> /\ ListFollows(c)
  BY ReaderAt DEF ListSteps
<1>2. PICK plan, reads : plan = j.plan /\ reads = j.reads
  OBVIOUS
<1>3. PICK k : /\ job' = [job EXCEPT ![c] = k] /\ RequestShape(k)
               /\ k.plan = plan /\ k.mem = mem /\ k.reads = reads
               /\ k.op = j.op /\ k.p = j.p /\ k.v = j.v
  <2>1. Recall(c, plan, mem, reads)
    BY <1>2
  <2> QED BY <1>1, <2>1, Recalled
<1>4. plan \in ReaderPlans /\ Head(plan) = "virtualMerge"
  BY <1>1, <1>2, ReaderHeads
<1>5. ReaderJob(k, "virtualMerge", Versions)
  BY <1>1, <1>3 DEF ReaderJob, GetSteps, ListSteps
<1>6. ASSUME NEW h \in k.mem.held
      PROVE  \/ h[2] \in k.mem.found \/ h[1] \in k.mem.failed
             \/ Copy(h[1], k, h[2]) \in raced \/ OnList(h[1], k, h[2])
  <2>1. h \in j.mem.held /\ h[2] \in Versions
    <3>1. j.mem.held \subseteq Repositories \X Versions
      BY <1>1 DEF ReaderJob
    <3> QED BY <1>3, <1>6, <3>1
  <2>2. \/ h[2] \in j.mem.found \/ h[1] \in j.mem.failed
        \/ Copy(h[1], j, h[2]) \in raced \/ OnList(h[1], j, h[2])
    BY <1>1, <2>1 DEF ListFollows, ListKnows
  <2>3. CASE h[1] = m
    BY <1>3, <2>1, <2>2, <2>3 DEF Copy
  <2>4. CASE h[1] # m
    BY <1>2, <1>3, <2>2, <2>4 DEF Copy, OnList
  <2> QED BY <2>3, <2>4
<1>7. ListKnows(k)
  BY <1>6 DEF ListKnows
<1> QED BY <1>3, <1>4, <1>5, <1>7, ReaderGoesOn DEF ListSteps

\* The next member's list is merged, or the request ends.
LEMMA MergeMemberKeeps ==
  ASSUME VirtualInv, kind \in VirtualKinds, NEW c \in Clients, MergeMember(c) PROVE VirtualInv'
<1>1. PICK j, m, left : /\ j = job[c] /\ m = FirstOf(j.mem.list, DOMAIN j.mem.list)
                        /\ left = [j.mem EXCEPT !.list = Drop(@, {m})]
  OBVIOUS
<1>2. /\ At(c, "virtualMerge") /\ kind' = kind /\ store' = store /\ used' = used
      /\ raced' = raced /\ broken' = broken
  BY DEF MergeMember, worldVars, historyVars
<1>3. VirtualTables /\ ReaderMem(j.mem)
  BY <1>1, <1>2, ReaderAt DEF ListSteps
<1>4. ASSUME aux' = aux \/ \E caches : aux' = [aux EXCEPT !.index = caches], \E code, got : Reply(c, code, got)
      PROVE  VirtualInv'
  <2>1. CachesOnly
    BY <1>2, <1>3, <1>4, CachesChange
  <2>2. aux'.lists = aux.lists
    BY <1>3, <1>4 DEF VirtualTables, VirtualShape
  <2> QED BY <1>2, <1>4, <2>1, <2>2, ReaderAnswers DEF ListSteps
<1>5. /\ ReaderMem(left) /\ left.denied = j.mem.denied /\ left.held = j.mem.held /\ left.found = j.mem.found
      /\ left.failed = j.mem.failed /\ DOMAIN left.list = DOMAIN j.mem.list \ {m}
  <2>1. left = Without(j.mem, m)
    BY <1>1 DEF Without
  <2> QED BY <1>3, <2>1, MembersLeft
<1>6. aux' = aux => CachesOnly /\ \A n, p : Lists(n, p)' = Lists(n, p)
  BY <1>2, <1>3, CachesChange
<1>7. CASE Denies(m, j) /\ Recall(c, j.plan, [left EXCEPT !.refused = TRUE], j.reads) /\ aux' = aux
  <2>1. PICK mem : mem = [left EXCEPT !.refused = TRUE]
    OBVIOUS
  <2>2. /\ ReaderMem(mem) /\ mem.denied = j.mem.denied /\ mem.held = j.mem.held /\ mem.failed = j.mem.failed
        /\ DOMAIN mem.list = DOMAIN j.mem.list \ {m} /\ j.mem.found \subseteq mem.found
    BY <1>5, <2>1 DEF ReaderMem
  <2>3. ASSUME NEW v \in Versions PROVE ~OnList(m, j, v)
    BY <1>7 DEF OnList, Denies
  <2>4. Recall(c, j.plan, mem, j.reads)
    BY <1>7, <2>1
  <2> QED BY <1>1, <1>2, <1>6, <1>7, <2>2, <2>3, <2>4, ListPassed
<1>8. CASE /\ m \in aux.loaded /\ RightType(m)
           /\ aux' = IF KeepsList(m, j.p) THEN [aux EXCEPT !.lists = Put(@, j.p, Lists(m, j.p))] ELSE aux
           /\ Recall(c, j.plan, [left EXCEPT !.found = MergedList(@, Lists(m, j.p))], j.reads)
  <2>1. PICK found : found = MergedList(left.found, Lists(m, j.p))
    OBVIOUS
  <2>2. PICK mem : mem = [left EXCEPT !.found = found]
    OBVIOUS
  <2>3. Recall(c, j.plan, mem, j.reads)
    BY <1>8, <2>1, <2>2
  <2>4. /\ ReaderMem(mem) /\ mem.denied = j.mem.denied /\ mem.held = j.mem.held /\ mem.found = found
        /\ mem.failed = j.mem.failed /\ DOMAIN mem.list = DOMAIN j.mem.list \ {m} /\ j.mem.found \subseteq mem.found
    BY <1>5, <2>1, <2>2 DEF ReaderMem, MergedList
  <2>5. ASSUME NEW v \in Versions, OnList(m, j, v) PROVE v \in mem.found
    BY <2>1, <2>4, <2>5 DEF MergedList, OnList
  <2>6. CachesOnly /\ \A n, p : Lists(n, p)' = Lists(n, p)
    <3>1. CASE aux' = aux
      BY <1>6, <3>1
    <3>2. CASE KeepsList(m, j.p)
      <4>1. PICK p, versions, lists : p = j.p /\ versions = Lists(m, j.p) /\ lists = Put(aux.lists, p, versions)
        OBVIOUS
      <4>2. aux' = [aux EXCEPT !.lists = lists] /\ m = "proxy"
        BY <1>8, <3>2, <4>1 DEF KeepsList
      <4>3. CachesOnly
        BY <1>2, <1>3, <4>2, CachesChange
      <4>4. aux'.lists = lists
        BY <1>3, <4>2 DEF VirtualTables, VirtualShape
      <4>5. ASSUME NEW n, NEW q PROVE Lists(n, q)' = Lists(n, q)
        <5>1. HasMember(n, q)' = HasMember(n, q)
          BY <4>3 DEF HasMember, CachesOnly
        <5>2. CASE n = "proxy" /\ q = p
          <6>1. q \in DOMAIN lists /\ lists[q] = Lists(n, q)
            BY <4>1, <4>2, <5>2 DEF Put
          <6> QED BY <4>4, <5>2, <6>1 DEF Lists
        <5>3. CASE ~(n = "proxy" /\ q = p)
          <6>1. n = "proxy" => (q \in DOMAIN lists <=> q \in DOMAIN aux.lists)
                               /\ (q \in DOMAIN aux.lists => lists[q] = aux.lists[q])
            BY <4>1, <5>3 DEF Put
          <6> QED BY <4>4, <5>1, <6>1 DEF Lists
        <5> QED BY <5>2, <5>3
      <4> QED BY <4>3, <4>5
    <3> QED BY <1>8, <3>1, <3>2
  <2> QED BY <1>1, <1>2, <2>3, <2>4, <2>5, <2>6, ListPassed
<1>9. CASE ~(m \in aux.loaded /\ RightType(m)) /\ Recall(c, j.plan, left, j.reads) /\ aux' = aux
  <2>1. ASSUME NEW v \in Versions PROVE ~OnList(m, j, v)
    BY <1>9 DEF OnList
  <2> QED BY <1>1, <1>2, <1>5, <1>6, <1>9, <2>1, ListPassed
<1>10. CASE DOMAIN j.mem.list = {}
  BY <1>1, <1>4, <1>10 DEF MergeMember
<1>11. CASE DOMAIN j.mem.list # {}
  <2>1. CASE Denies(m, j)
    BY <1>1, <1>4, <1>7, <1>11, <2>1 DEF MergeMember
  <2>2. CASE ~Denies(m, j)
    BY <1>1, <1>8, <1>9, <1>11, <2>2 DEF MergeMember
  <2> QED BY <2>1, <2>2
<1> QED BY <1>10, <1>11

\* Its upstream fails: the member is passed over, or the request fails.
LEMMA MergeUpstreamFailsKeeps ==
  ASSUME VirtualInv, kind \in VirtualKinds, NEW c \in Clients, MergeUpstreamFails(c) PROVE VirtualInv'
<1>1. PICK j, m, new : /\ j = job[c] /\ m = FirstOf(j.mem.list, DOMAIN j.mem.list)
                       /\ new = [j.mem EXCEPT !.list = Drop(@, {m}), !.failed = @ \cup {m}]
  OBVIOUS
<1>2. /\ At(c, "virtualMerge") /\ kind' = kind /\ store' = store /\ CleanFault /\ aux' = aux
      /\ raced' = raced /\ broken' = broken
      /\ Reply(c, 500, Nothing) \/ Recall(c, j.plan, new, j.reads)
  BY <1>1 DEF MergeUpstreamFails, worldVars, historyVars
<1>3. VirtualTables /\ ReaderMem(j.mem)
  BY <1>1, <1>2, ReaderAt DEF ListSteps
<1>4. CachesOnly /\ aux'.lists = aux.lists /\ \A n, p : Lists(n, p)' = Lists(n, p)
  BY <1>2, <1>3, CachesChange
<1>5. CASE Recall(c, j.plan, new, j.reads)
  <2>1. /\ ReaderMem(new) /\ new.denied = j.mem.denied /\ new.held = j.mem.held /\ new.found = j.mem.found
        /\ new.failed = j.mem.failed \cup {m} /\ DOMAIN new.list = DOMAIN j.mem.list \ {m}
    <3>1. new = Failing(j.mem, m)
      BY <1>1 DEF Failing
    <3> QED BY <1>3, <3>1, MemberFailed
  <2>2. j.mem.failed \subseteq new.failed /\ m \in new.failed
    BY <2>1
  <2>3. j.mem.found \subseteq new.found
    BY <2>1
  <2>4. j = job[c] /\ At(c, "virtualMerge") /\ Recall(c, j.plan, new, j.reads)
    BY <1>1, <1>2, <1>5
  <2> QED BY <1>4, <2>1, <2>2, <2>3, <2>4, ListPassed
<1>6. CASE Reply(c, 500, Nothing)
  BY <1>2, <1>4, <1>6, ReaderAnswers DEF ListSteps
<1> QED BY <1>2, <1>5, <1>6

-----------------------------------------------------------------------------
(* Failures, and the virtual repositories as a whole.                      *)

\* The requests of the virtual repositories take none of the shared steps, but may fail.
LEMMA VirtualSharedFails ==
  ASSUME VirtualInv, kind \in VirtualKinds, NEW c \in Clients, SharedStep(c) PROVE StepFails(c)
<1>1. ASSUME NEW x, At(c, x) PROVE x \in VirtualSteps
  BY <1>1, VirtualAt DEF VirtualInv
<1>2. ASSUME NEW x \in SharedNames PROVE ~At(c, x)
  BY <1>1 DEF SharedNames, VirtualSteps, StoreSteps, GetSteps, ListSteps
<1> QED BY <1>2, SharedNamed

\* A step that fails spoils the configuration its request had read or stored.
LEMMA VirtualFailureKeeps ==
  ASSUME VirtualInv, kind \in VirtualKinds, NEW c \in Clients, StepFails(c) PROVE VirtualInv'
<1>1. PICK x : x = Head(job[c].plan)
  OBVIOUS
<1>2. /\ VirtualJobs /\ VirtualTables /\ At(c, x) /\ job[c].plan # <<>> /\ Abort(c, 500)
      /\ kind' = kind /\ store' = store /\ aux' = aux /\ raced' = raced
      /\ used' = [used EXCEPT !.faults = @ + 1] /\ broken \cup job[c].reads \subseteq broken'
  BY <1>1 DEF VirtualInv, StepFails, Idle, At, Fault, worldVars
<1>3. UsedShape(used') /\ Versions' = Versions
  <2>1. UsedShape(used)
    BY <1>2 DEF VirtualTables
  <2> QED BY <1>2, <2>1 DEF UsedShape, Versions
<1>4. Reply(c, 500, Nothing)
  BY <1>2, VirtualAborts
<1>5. CASE x \notin StoreSteps
  <2>1. SameConfig /\ VirtualShape(aux') /\ aux'.loaded = aux.loaded /\ aux'.lists = aux.lists
    BY <1>2 DEF SameConfig, VirtualTables
  <2> QED BY <1>2, <1>3, <1>4, <1>5, <2>1, VirtualAnswered
<1>6. CASE x \in StoreSteps
  <2>1. /\ VirtualJobs' /\ \A d \in Clients \ {c} : job'[d] = job[d]
        /\ \A y : ~(At(c, y)')
    BY <1>2, <1>3, <1>4, VirtualReplies
  <2>2. VirtualTables'
    BY <1>2, <1>3 DEF VirtualTables
  <2>3. TargetSound'
    BY <1>2, <2>1, TargetRests DEF VirtualInv
  <2>4. ASSUME ~Spoilt, ConfigSound, ~(Spoilt') PROVE ConfigSound'
    <3>1. VConfig \notin job[c].reads
      BY <1>2, <2>4 DEF Spoilt
    <3>2. x = "virtualPersist"
      BY <1>2, <1>6, <3>1, StoringHas
    <3>3. ~Storing(c) /\ ~(Storing(c)')
      BY <1>2, <2>1, <3>2 DEF Storing, At
    <3>4. \A d \in Clients \ {c} : ConfigFollows(d)' /\ (Storing(d)' <=> Storing(d))
      BY <1>2, <2>1, <2>4, OthersFollow
    <3>5. ConfigFollows(c)'
      BY <2>1 DEF ConfigFollows
    <3>6. VirtualMemoryFollows' <=> VirtualMemoryFollows
      BY <1>2, SameTarget DEF VirtualMemoryFollows, TableFollows, Loads, ListLoads
    <3> QED BY <2>4, <3>3, <3>4, <3>5, <3>6 DEF ConfigSound
  <2> QED BY <1>2, <1>3, <2>1, <2>2, <2>3, <2>4, StoreStepKeeps
<1> QED BY <1>5, <1>6

\* Every step of a request keeps the invariant.
LEMMA VirtualStepKeeps ==
  ASSUME VirtualInv, kind \in VirtualKinds, NEW c \in Clients, VirtualStep(c) PROVE VirtualInv'
<1>1. CASE \/ UpdateMembers(c) \/ UpdateResolutionOrder(c) \/ UpdateConfig(c)
           \/ ReadConfig(c) \/ PersistConfig(c) \/ ReplaceMembers(c)
           \/ ReloadConfig(c) \/ SyncMembers(c) \/ SeedMembers(c) \/ AssignMembers(c) \/ AssignTarget(c)
  BY <1>1, AdminStarts, ReadConfigKeeps, PersistConfigKeeps, ReplaceMembersKeeps, ReloadConfigKeeps,
     SyncMembersKeeps, SeedMembersKeeps, AssignMembersKeeps, AssignTargetKeeps
<1>2. CASE DeleteMember(c) \/ MemberRows(c) \/ MemberFiles(c) \/ MemberUnload(c)
  BY <1>2, DeleteMemberStarts, MemberRowsKeeps, MemberFilesKeeps, MemberUnloadKeeps
<1>3. CASE \/ VirtualGet(c) \/ CachedMember(c) \/ CachedHit(c) \/ HitUpstreamFails(c)
           \/ AskMember(c) \/ AskUpstreamFails(c)
           \/ VirtualList(c) \/ CachedPage(c) \/ MergeMember(c) \/ MergeUpstreamFails(c)
           \/ VirtualPublish(c) \/ ForwardPublish(c)
  BY <1>3, ReaderStarts, CachedMemberKeeps, CachedHitKeeps, HitUpstreamFailsKeeps, AskMemberKeeps,
     AskUpstreamFailsKeeps, CachedPageKeeps, MergeMemberKeeps, MergeUpstreamFailsKeeps, ForwardPublishKeeps
<1> QED BY <1>1, <1>2, <1>3 DEF VirtualStep

\* The kinds of repository whose requests take the steps of this module.
LEMMA VirtualNext ==
  ASSUME kind \in VirtualKinds, Next
  PROVE  \/ MemberChanges \/ VirtualTtlPasses \/ VirtualRestart
         \/ \E c \in Clients : VirtualStep(c) \/ SharedStep(c)
<1>1. CASE WorldStep
  BY <1>1 DEF WorldStep, ProxyKinds, VirtualKinds, MetaUpdates, UpdateReads, UpdateSaves, UpdateFails
<1>2. ASSUME NEW c \in Clients, HandlerStep(c) PROVE VirtualStep(c)
  BY <1>2 DEF HandlerStep, VirtualKinds
<1> QED BY <1>1, <1>2 DEF Next

\* The invariant is inductive.
LEMMA VirtualInvNext == ASSUME RowsInv, VirtualInv, [Next]_vars PROVE VirtualInv'
<1>1. kind' = kind
  BY RowsInvNext DEF Fixed
<1>2. CASE kind \notin VirtualKinds
  BY <1>1, <1>2 DEF VirtualInv
<1>3. CASE kind \in VirtualKinds
  <2>1. CASE UNCHANGED vars
    <3>1. /\ store' = store /\ aux' = aux /\ job' = job /\ raced' = raced /\ broken' = broken /\ used' = used
      BY <2>1 DEF vars
    <3>2. VirtualTables
      BY <1>3 DEF VirtualInv
    <3>3. SameConfig /\ VirtualShape(aux') /\ UsedShape(used') /\ Versions' = Versions
      BY <3>1, <3>2 DEF SameConfig, VirtualTables, Versions
    <3>4. \A d \in Clients : FilesStay(d)
      BY <3>1, <3>3, AllStays
    <3> QED BY <1>1, <1>3, <3>1, <3>3, <3>4, VirtualUnmoved
  <2>2. CASE Next
    <3>1. ASSUME NEW c \in Clients, SharedStep(c) PROVE VirtualInv'
      BY <1>3, <3>1, VirtualSharedFails, VirtualFailureKeeps
    <3>2. ASSUME NEW c \in Clients, VirtualStep(c) PROVE VirtualInv'
      BY <1>3, <3>2, VirtualStepKeeps
    <3> QED BY <1>3, <2>2, <3>1, <3>2, VirtualNext, MemberChangesKeeps, VirtualTtlKeeps, VirtualRestartKeeps
  <2> QED BY <2>1, <2>2
<1> QED BY <1>2, <1>3

\* The invariant holds at the start.
LEMMA VirtualInvInit == ASSUME Init PROVE VirtualInv
<1>1. SUFFICES ASSUME kind \in VirtualKinds
               PROVE  /\ VirtualJobs /\ VirtualTables /\ TargetSound
                      /\ ConfigSound
                      /\ \A c \in Clients : GetFollows(c) /\ ListFollows(c)
  BY DEF VirtualInv
<1>2. PICK rank \in {1, 2} : aux = VirtualInit(rank)
  <2>1. aux \in VirtualInits
    BY <1>1 DEF Init, FirstStates, VirtualKinds
  <2> QED BY <2>1 DEF VirtualInits
<1>3. UsedShape(used) /\ job = [c \in Clients |-> NoJob]
  BY DEF Init, RepositoryInit, UsedShape
<1>4. PICK config : config = FirstConfig(rank)
  OBVIOUS
<1>5. /\ VirtualShape(aux) /\ aux.exists = Repositories /\ aux.config = config
      /\ aux.table = config.members /\ aux.live = config.members /\ aux.target = {"hosted"} /\ aux.writer = {}
  BY <1>2, <1>4 DEF VirtualInit, VirtualShape
<1>6. /\ config = [members |-> config.members, publish |-> config.publish]
      /\ config.publish = {} /\ ListShape(config.members)
      /\ DOMAIN config.members = {"hosted", "proxy"}
      /\ \A m \in DOMAIN config.members : config.members[m].on
  BY <1>4, ListsShaped DEF FirstConfig, Member
<1>7. VirtualTables
  BY <1>3, <1>5, <1>6 DEF VirtualTables
<1>8. VirtualJobs /\ \A c \in Clients : \A x : ~At(c, x)
  <2>1. RequestShape(NoJob) /\ NoJob.plan = <<>>
    BY DEF RequestShape, NoJob
  <2>2. \A c \in Clients : job[c] = NoJob
    BY <1>3
  <2>3. job = [c \in Clients |-> job[c]]
    BY <1>3
  <2> QED BY <2>1, <2>2, <2>3 DEF VirtualJobs, VirtualJob, At
<1>9. TargetSound
  <2>1. ValidTarget({"hosted"}, config.members)
    BY <1>6 DEF ValidTarget, EnabledOf, IsHosted
  <2> QED BY <1>5, <1>8, <2>1 DEF TargetSound
<1>10. {"hosted"} = SelectTarget(config, config.members)
  <2>1. PICK hosts : hosts = {m \in EnabledOf(config.members) : IsHosted(m)}
    OBVIOUS
  <2>2. hosts = {"hosted"}
    BY <1>6, <2>1 DEF EnabledOf, IsHosted
  <2>3. FirstOf(config.members, hosts) = "hosted"
    BY <1>6, <2>2, FirstIsFirst
  <2> QED BY <1>6, <2>1, <2>2, <2>3 DEF SelectTarget
<1>11. VirtualMemoryFollows
  <2>1. ListLoads(config.members)
    BY <1>5, <1>6, ListsShaped DEF ListLoads, RightType
  <2>2. ValidTarget(config.publish, config.members)
    BY <1>6 DEF ValidTarget
  <2> QED BY <1>5, <1>10, <2>1, <2>2 DEF VirtualMemoryFollows, TableFollows, Loads
<1>12. ConfigSound
  BY <1>8, <1>11 DEF ConfigSound, ConfigFollows
<1> QED BY <1>7, <1>8, <1>9, <1>12 DEF GetFollows, ListFollows

\* Publications go to an enabled hosted member of the list the memory holds, as long as the
\* members and the target last written are of one reload, however reloads overlap; and the
\* memory holds what the API stored, as long as the requests that store it did not overlap or
\* fail, all members are of the right format, and none is deleted.
THEOREM VirtualIsConfigured == Spec => []VirtualConfigured
<1>1. ASSUME VirtualInv PROVE VirtualConfigured
  <2>1. VirtualTargetValid
    BY <1>1 DEF VirtualInv, TargetSound, VirtualTargetValid
  <2>2. VirtualMemoryCurrent
    <3>1. SUFFICES ASSUME kind \in VirtualKinds, Quiescent, ~Spoilt PROVE VirtualMemoryFollows
      BY DEF VirtualMemoryCurrent, Spoilt, VirtualMemoryFollows, TableFollows
    <3>2. \A c \in Clients : ~Storing(c)
      BY <3>1 DEF Quiescent, Idle, Storing, At
    <3> QED BY <1>1, <3>1, <3>2 DEF VirtualInv, ConfigSound
  <2> QED BY <2>1, <2>2 DEF VirtualConfigured
<1>2. RowsInv /\ VirtualInv /\ [Next]_vars => (RowsInv /\ VirtualInv)'
  BY RowsInvNext, VirtualInvNext
<1>3. Init => RowsInv /\ VirtualInv
  BY RowsInvInit, VirtualInvInit
<1> QED BY <1>1, <1>2, <1>3, PTL DEF Spec

-----------------------------------------------------------------------------
(* What the virtual repositories answer.                                   *)

\* A step of one request leaves the others where they are.
LEMMA OneRequestMoves ==
  ASSUME VirtualInv, kind \in VirtualKinds, NEW c \in Clients, VirtualStep(c) \/ StepFails(c),
         NEW d \in Clients \ {c}
  PROVE  job'[d] = job[d]
<1>1. VirtualJobs /\ job = [e \in Clients |-> job[e]]
  BY DEF VirtualInv, VirtualJobs
<1>2. ASSUME NEW k, job' = [job EXCEPT ![c] = k] PROVE job'[d] = job[d]
  BY <1>1, <1>2
<1>3. ASSUME NEW k, Start(c, k) PROVE job'[d] = job[d]
  BY <1>2, <1>3 DEF Start
<1>4. ASSUME NEW code, NEW got, Reply(c, code, got) PROVE job'[d] = job[d]
  BY <1>2, <1>4 DEF Reply
<1>5. ASSUME NEW plan, NEW mem, NEW reads, Recall(c, plan, mem, reads) PROVE job'[d] = job[d]
  BY <1>1, <1>5 DEF Recall
<1>6. ASSUME Advance(c) PROVE job'[d] = job[d]
  BY <1>1, <1>6 DEF Advance, Goto
<1>7. CASE StepFails(c)
  <2>1. job[c].plan # <<>> /\ Abort(c, 500)
    BY <1>7 DEF StepFails, Idle
  <2> QED BY <1>1, <1>4, <2>1, VirtualAborts
<1>8. CASE UpdateMembers(c) \/ UpdateResolutionOrder(c) \/ UpdateConfig(c) \/ DeleteMember(c)
  BY <1>3, <1>8, Zenon DEF UpdateMembers, UpdateResolutionOrder, UpdateConfig, DeleteMember
<1>9. CASE VirtualGet(c) \/ VirtualList(c) \/ VirtualPublish(c)
  BY <1>3, <1>9, Zenon DEF VirtualGet, VirtualList, VirtualPublish
<1>10. CASE ReadConfig(c)
  BY <1>4, <1>5, <1>10, Zenon DEF ReadConfig
<1>11. CASE PersistConfig(c)
  BY <1>5, <1>11, Zenon DEF PersistConfig
<1>12. CASE ReplaceMembers(c)
  BY <1>4, <1>6, <1>12, Zenon DEF ReplaceMembers
<1>13. CASE ReloadConfig(c)
  BY <1>5, <1>13, Zenon DEF ReloadConfig
<1>14. CASE SyncMembers(c)
  BY <1>5, <1>14, Zenon DEF SyncMembers
<1>15. CASE AssignMembers(c) \/ AssignTarget(c) \/ SeedMembers(c)
  <2>1. AssignMembers(c) => job'[d] = job[d]
    BY <1>4, <1>5, Zenon DEF AssignMembers, ReloadFails
  <2>2. AssignTarget(c) => Reply(c, 200, Nothing)
    BY Zenon DEF AssignTarget
  <2>3. SeedMembers(c) => job'[d] = job[d]
    BY <1>4, <1>6, Zenon DEF SeedMembers, ReloadFails
  <2> QED BY <1>4, <1>15, <2>1, <2>2, <2>3
<1>16. CASE MemberRows(c) \/ MemberFiles(c) \/ MemberUnload(c)
  <2>1. MemberRows(c) => Advance(c)
    BY Zenon DEF MemberRows
  <2>2. MemberFiles(c) => Advance(c)
    BY Zenon DEF MemberFiles
  <2>3. MemberUnload(c) => Reply(c, 204, Nothing)
    BY DEF MemberUnload
  <2> QED BY <1>4, <1>6, <1>16, <2>1, <2>2, <2>3
<1>17. CASE CachedMember(c)
  BY <1>5, <1>17, Zenon DEF CachedMember
<1>18. CASE CachedHit(c)
  BY <1>4, <1>6, <1>18, Zenon DEF CachedHit
<1>19. CASE AskMember(c)
  BY <1>4, <1>5, <1>19, Zenon DEF AskMember
<1>20. CASE CachedPage(c)
  BY <1>4, <1>5, <1>20, Zenon DEF CachedPage
<1>21. CASE MergeMember(c)
  BY <1>4, <1>5, <1>21, Zenon DEF MergeMember
<1>22. CASE ForwardPublish(c)
  BY <1>4, <1>22, Zenon DEF ForwardPublish
<1>23. CASE HitUpstreamFails(c)
  BY <1>4, <1>6, <1>23, Zenon DEF HitUpstreamFails
<1>24. CASE AskUpstreamFails(c)
  BY <1>4, <1>5, <1>24, Zenon DEF AskUpstreamFails
<1>25. CASE MergeUpstreamFails(c)
  BY <1>4, <1>5, <1>25, Zenon DEF MergeUpstreamFails
<1> QED BY <1>7, <1>8, <1>9, <1>10, <1>11, <1>12, <1>13, <1>14, <1>15, <1>16, <1>17, <1>18, <1>19,
           <1>20, <1>21, <1>22, <1>23, <1>24, <1>25 DEF VirtualStep

\* A reader that asks the members moves by that step only.
LEMMA ReaderMoves ==
  ASSUME NEW c \in Clients, VirtualStep(c), NEW x \in {"virtualNext", "virtualMerge"}, At(c, x)
  PROVE  /\ x = "virtualNext" => AskMember(c) \/ AskUpstreamFails(c)
         /\ x = "virtualMerge" => MergeMember(c) \/ MergeUpstreamFails(c)
<1>1. \A y : At(c, y) => y = x
  BY DEF At
<1>2. \A k : ~Start(c, k)
  BY DEF Start, Free, Idle, At
<1>3. ~UpdateMembers(c) /\ ~UpdateResolutionOrder(c) /\ ~UpdateConfig(c) /\ ~DeleteMember(c)
  BY <1>2, Zenon DEF UpdateMembers, UpdateResolutionOrder, UpdateConfig, DeleteMember
<1>4. ~VirtualGet(c) /\ ~VirtualList(c) /\ ~VirtualPublish(c)
  BY <1>2, Zenon DEF VirtualGet, VirtualList, VirtualPublish
<1>5. /\ ReadConfig(c) => At(c, "virtualRead")
      /\ PersistConfig(c) => At(c, "virtualPersist")
      /\ ReplaceMembers(c) => At(c, "virtualReplace")
      /\ ReloadConfig(c) => At(c, "virtualReload")
      /\ SyncMembers(c) => At(c, "virtualSync")
      /\ SeedMembers(c) => At(c, "virtualSeed")
      /\ AssignMembers(c) => At(c, "virtualAssign")
      /\ AssignTarget(c) => At(c, "virtualTarget")
  BY Zenon DEF ReadConfig, PersistConfig, ReplaceMembers, ReloadConfig, SyncMembers, SeedMembers, AssignMembers,
               AssignTarget
<1>6. /\ MemberRows(c) => At(c, "memberRows")
      /\ CachedMember(c) => At(c, "virtualCached")
      /\ CachedHit(c) => At(c, "virtualHit")
      /\ HitUpstreamFails(c) => At(c, "virtualHit")
      /\ CachedPage(c) => At(c, "virtualPage")
      /\ ForwardPublish(c) => At(c, "virtualForward")
      /\ AskMember(c) => At(c, "virtualNext")
      /\ AskUpstreamFails(c) => At(c, "virtualNext")
      /\ MergeUpstreamFails(c) => At(c, "virtualMerge")
      /\ MergeMember(c) => At(c, "virtualMerge")
  BY Zenon DEF MemberRows, CachedMember, CachedHit, HitUpstreamFails, CachedPage, ForwardPublish,
               AskMember, AskUpstreamFails, MergeMember, MergeUpstreamFails
<1>7. (MemberFiles(c) => At(c, "memberFiles")) /\ (MemberUnload(c) => At(c, "memberUnload"))
  BY DEF MemberFiles, MemberUnload
<1> QED BY <1>1, <1>3, <1>4, <1>5, <1>6, <1>7 DEF VirtualStep

\* A request that ends ends by its own step, or fails.
LEMMA ReaderEnds ==
  ASSUME VirtualInv, kind \in VirtualKinds, Next, NEW c \in Clients,
         NEW x \in {"virtualNext", "virtualMerge"}, At(c, x),
         NEW op \in {"virtualGet", "virtualList"}, Ends(c, op)
  PROVE  \/ Reply(c, 500, Nothing)
         \/ x = "virtualNext" /\ (AskMember(c) \/ AskUpstreamFails(c))
         \/ x = "virtualMerge" /\ (MergeMember(c) \/ MergeUpstreamFails(c))
<1>1. job[c].plan # <<>> /\ job'[c].plan = <<>> /\ job'[c].op = op
  BY DEF At, Ends
<1>2. ~MemberChanges /\ ~VirtualTtlPasses
  BY <1>1 DEF MemberChanges, VirtualTtlPasses
<1>3. ~VirtualRestart
  <2>1. VirtualRestart => job' = [d \in Clients |-> NoJob]
    BY Zenon DEF VirtualRestart
  <2>2. NoJob.op = "none"
    BY DEF NoJob
  <2> QED BY <1>1, <2>1, <2>2
<1>4. ASSUME NEW d \in Clients, VirtualStep(d) \/ StepFails(d) PROVE d = c
  BY <1>1, <1>4, OneRequestMoves
<1>5. ASSUME StepFails(c) PROVE Reply(c, 500, Nothing)
  <2>1. Abort(c, 500) /\ VirtualJobs
    BY <1>5 DEF StepFails, VirtualInv
  <2> QED BY <1>1, <2>1, VirtualAborts
<1>6. StepFails(c) \/ VirtualStep(c)
  BY <1>2, <1>3, <1>4, VirtualNext, VirtualSharedFails
<1> QED BY <1>5, <1>6, ReaderMoves

\* A reader that goes on with the same plan has not ended.
LEMMA NotEnded ==
  ASSUME NEW c \in Clients, NEW op, Ends(c, op), VirtualJobs, NEW x \in {"virtualNext", "virtualMerge"}, At(c, x),
         job[c].plan = <<x>>, NEW mem, NEW reads, Recall(c, job[c].plan, mem, reads)
  PROVE  FALSE
<1>1. PICK plan : plan = job[c].plan
  OBVIOUS
<1>2. Recall(c, plan, mem, reads)
  BY <1>1
<1>3. RequestShape(job[c]) /\ job = [d \in Clients |-> job[d]]
  BY VirtualAt
<1>4. PICK k : job' = [job EXCEPT ![c] = k] /\ k.plan = plan
  BY <1>2, <1>3, Recalled
<1>5. job'[c].plan = <<x>>
  BY <1>1, <1>3, <1>4
<1>6. job'[c].plan = <<>>
  BY DEF Ends
<1>7. <<x>> # <<>>
  OBVIOUS
<1> QED BY <1>5, <1>6, <1>7

\* The member asked is the first of those that had the file all along.
LEMMA AskedIsFirst ==
  ASSUME VirtualInv, kind \in VirtualKinds, NEW c \in Clients, At(c, "virtualNext"),
         NEW j, j = job[c], NEW m, m = FirstOf(j.mem.list, DOMAIN j.mem.list)
  PROVE  /\ Reached(c) \subseteq DOMAIN j.mem.list
         /\ DOMAIN j.mem.list # {} => \A n \in Reached(c) \ {m} : ~Before(j.mem.all, n, m)
<1>1. ReaderMem(j.mem) /\ ReaderJob(j, "virtualNext", Versions) /\ GetFollows(c)
  BY ReaderAt DEF GetSteps
<1>2. ASSUME NEW n \in Reached(c) PROVE n \in DOMAIN j.mem.list
  <2>1. n \in j.mem.held /\ n \notin j.mem.failed /\ Copy(n, j, j.v) \notin raced
    BY <1>2 DEF Reached, Stayed, Copy
  <2>2. Available(n, j, j.v)
    BY <1>1, <2>1 DEF GetFollows, GetKnows
  <2> QED BY <2>2 DEF Available
<1>3. ASSUME DOMAIN j.mem.list # {}, NEW n \in Reached(c) \ {m} PROVE ~Before(j.mem.all, n, m)
  <2>1. ListShape(j.mem.list) /\ ListShape(j.mem.all)
    BY <1>1 DEF ReaderMem
  <2>2. m \in DOMAIN j.mem.list /\ \A o \in DOMAIN j.mem.list \ {m} : Before(j.mem.list, m, o)
    BY <1>3, <2>1, FirstIsFirst
  <2>3. \A o \in DOMAIN j.mem.list : o \in DOMAIN j.mem.all /\ j.mem.list[o] = j.mem.all[o]
    BY <1>1 DEF ReaderJob
  <2>4. n \in DOMAIN j.mem.list \ {m}
    BY <1>2, <1>3
  <2>5. Before(j.mem.all, m, n)
    BY <2>2, <2>3, <2>4 DEF Before
  <2>6. /\ j.mem.all[m].rank \in Nat /\ j.mem.all[n].rank \in Nat
        /\ m \in Repositories /\ n \in Repositories
    BY <2>1, <2>2, <2>3, <2>4 DEF ListShape
  <2>7. MemberRank[m] \in Nat /\ MemberRank[n] \in Nat
    BY <2>6, ListsShaped DEF MemberRank
  <2> QED BY <2>5, <2>6, <2>7 DEF Before
<1> QED BY <1>2, <1>3

\* The answer to a read is that of the first member that had the file all along; an error is
\* that of a member whose upstream failed in this step.
LEMMA ReadResolves ==
  ASSUME VirtualInv, kind \in VirtualKinds, Next, NEW c \in Clients, Ends(c, "virtualGet"), At(c, "virtualNext")
  PROVE  /\ job'[c].code \in {200, 502} =>
              \A n \in Reached(c) \ {job'[c].got.from} : ~Before(job[c].mem.all, n, job'[c].got.from)
         /\ job'[c].code = 502 => kind = "nugetVirtual" /\ used'.faults > used.faults
         /\ job'[c].code \in {401, 404} => Reached(c) = {}
         /\ job'[c].code \in {200, 401, 404, 500, 502}
<1>1. PICK j, m : j = job[c] /\ m = FirstOf(j.mem.list, DOMAIN j.mem.list)
  OBVIOUS
<1>2. /\ VirtualJobs /\ VirtualTables /\ job = [d \in Clients |-> job[d]] /\ j.plan = <<"virtualNext">>
  BY <1>1, ReaderAt DEF GetSteps
<1>3. /\ Reached(c) \subseteq DOMAIN j.mem.list
      /\ DOMAIN j.mem.list # {} => \A n \in Reached(c) \ {m} : ~Before(j.mem.all, n, m)
  BY <1>1, AskedIsFirst
<1>4. ASSUME NEW code, NEW got, Reply(c, code, got) PROVE job'[c].code = code /\ job'[c].got = got
  BY <1>2, <1>4 DEF Reply, NoJob
<1>5. ASSUME NEW mem, NEW reads, Recall(c, j.plan, mem, reads) PROVE FALSE
  BY <1>1, <1>2, <1>5, NotEnded
<1>6. CASE Reply(c, 500, Nothing)
  BY <1>4, <1>6
<1>7. CASE AskMember(c)
  <2>1. CASE DOMAIN j.mem.list = {}
    <3>1. Reached(c) = {}
      BY <1>3, <2>1
    <3>2. Reply(c, 401, Nothing) \/ Reply(c, 404, Nothing)
      BY <1>1, <1>7, <2>1 DEF AskMember
    <3>3. job'[c].code = 401 \/ job'[c].code = 404
      BY <1>4, <3>2
    <3> QED BY <3>1, <3>3
  <2>2. CASE DOMAIN j.mem.list # {}
    <3>1. PICK body : Reply(c, 200, [from |-> m, body |-> body])
      <4>1. PICK left : left = [j.mem EXCEPT !.list = Drop(@, {m})]
        OBVIOUS
      <4>2. \/ Recall(c, j.plan, [left EXCEPT !.refused = TRUE], j.reads)
            \/ Reply(c, 200, [from |-> m, body |-> store[MemberFile(m, j.p, j.v)]])
            \/ Recall(c, j.plan, left, j.reads)
        BY <1>1, <1>7, <2>2, <4>1 DEF AskMember
      <4> QED BY <1>5, <4>2
    <3>2. job'[c].code = 200 /\ job'[c].got.from = m
      BY <1>4, <3>1
    <3> QED BY <1>1, <1>3, <2>2, <3>2
  <2> QED BY <2>1, <2>2
<1>8. CASE AskUpstreamFails(c)
  <2>1. PICK new : new = [j.mem EXCEPT !.list = Drop(@, {m}), !.failed = @ \cup {m}]
    OBVIOUS
  <2>2. /\ CleanFault /\ DOMAIN j.mem.list # {}
        /\ \/ kind = "nugetVirtual" /\ Reply(c, 502, [from |-> m])
           \/ Recall(c, j.plan, new, j.reads)
    BY <1>1, <1>8, <2>1 DEF AskUpstreamFails
  <2>3. kind = "nugetVirtual" /\ job'[c].code = 502 /\ job'[c].got.from = m
    BY <1>4, <1>5, <2>2
  <2>4. used'.faults > used.faults
    BY <1>2, <2>2 DEF CleanFault, VirtualTables, UsedShape
  <2> QED BY <1>1, <1>3, <2>2, <2>3, <2>4
<1> QED BY <1>6, <1>7, <1>8, ReaderEnds

\* A list that is complete holds what the members listed all along, but for those whose
\* upstream failed.
LEMMA ListMerges ==
  ASSUME VirtualInv, kind \in VirtualKinds, Next, NEW c \in Clients, Ends(c, "virtualList"), At(c, "virtualMerge"),
         job'[c].code \in {200, 404}, NEW h \in job[c].mem.held
  PROVE  \/ h[2] \in job'[c].got.versions \/ h[1] \in job[c].mem.failed
         \/ <<"file", MemberFile(h[1], job[c].p, h[2])>> \in raced
<1>1. PICK j, m, left : j = job[c] /\ m = FirstOf(j.mem.list, DOMAIN j.mem.list) /\ left = Without(j.mem, m)
  OBVIOUS
<1>2. /\ VirtualJobs /\ job = [d \in Clients |-> job[d]] /\ j.plan = <<"virtualMerge">> /\ ListFollows(c)
  BY <1>1, ReaderAt DEF ListSteps
<1>3. ASSUME NEW code, NEW got, Reply(c, code, got) PROVE job'[c].code = code /\ job'[c].got = got
  BY <1>2, <1>3 DEF Reply, NoJob
<1>4. ASSUME NEW mem, NEW reads, Recall(c, j.plan, mem, reads) PROVE FALSE
  BY <1>1, <1>2, <1>4, NotEnded
<1>5. ~Reply(c, 500, Nothing)
  BY <1>3
<1>6. MergeMember(c)
  <2>1. ~MergeUpstreamFails(c)
    <3>1. MergeUpstreamFails(c) => Reply(c, 500, Nothing) \/ \E mem : Recall(c, j.plan, mem, j.reads)
      BY <1>1 DEF MergeUpstreamFails
    <3> QED BY <1>4, <1>5, <3>1
  <2> QED BY <1>5, <2>1, ReaderEnds
<1>7. DOMAIN j.mem.list = {}
  <2>1. ASSUME DOMAIN j.mem.list # {}
        PROVE  \/ Reply(c, 500, Nothing)
               \/ \E mem : Recall(c, j.plan, mem, j.reads)
    BY <1>1, <1>6, <2>1 DEF MergeMember, Without
  <2> QED BY <1>4, <1>5, <2>1
<1>8. PICK code : Reply(c, code, [versions |-> j.mem.found])
  <2>1. PICK code : code = IF j.mem.found # {} THEN 200 ELSE IF j.mem.refused THEN 401 ELSE 404
    OBVIOUS
  <2>2. Reply(c, code, [versions |-> j.mem.found])
    BY <1>1, <1>6, <1>7, <2>1 DEF MergeMember
  <2> QED BY <2>2
<1>9. job'[c].got.versions = j.mem.found
  BY <1>3, <1>8
<1>10. \/ h[2] \in j.mem.found \/ h[1] \in j.mem.failed
       \/ Copy(h[1], j, h[2]) \in raced \/ OnList(h[1], j, h[2])
  BY <1>1, <1>2 DEF ListFollows, ListKnows
<1>11. ~OnList(h[1], j, h[2])
  BY <1>7 DEF OnList
<1> QED BY <1>1, <1>9, <1>10, <1>11 DEF Copy

\* A read that the cache does not settle is answered by the first of the members that had the
\* file all along and whose upstream did not fail, and by an error only when the upstream of
\* one asked before them fails in this step; a merged list holds every version that a member
\* listed all along, unless the upstream of that member failed while it was asked.
THEOREM VirtualAnswersRight == Spec => VirtualAnswers
<1>1. ASSUME VirtualInv, Next PROVE ResolvesRight /\ MergesAll
  <2>1. ResolvesRight
    BY <1>1, ReadResolves DEF ResolvesRight
  <2>2. MergesAll
    BY <1>1, ListMerges DEF MergesAll
  <2> QED BY <2>1, <2>2
<1>2. VirtualInv /\ [Next]_vars => [ResolvesRight /\ MergesAll]_vars
  BY <1>1
<1>3. RowsInv /\ VirtualInv /\ [Next]_vars => (RowsInv /\ VirtualInv)'
  BY RowsInvNext, VirtualInvNext
<1>4. Init => RowsInv /\ VirtualInv
  BY RowsInvInit, VirtualInvInit
<1> QED BY <1>2, <1>3, <1>4, PTL DEF Spec, VirtualAnswers
=============================================================================
