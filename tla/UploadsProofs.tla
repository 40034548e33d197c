---------------------------- MODULE UploadsProofs ----------------------------
(***************************************************************************)
(* Proofs about BlobUploads: the data of an upload are the bytes that were *)
(* hashed, one request closes it, and every blob has the content its       *)
(* digest names, on each storage, for any number of requests, uploads and  *)
(* bodies and any faults and restarts.                                     *)
(*                                                                         *)
(* The invariant is per upload.  A write that overtakes another request on *)
(* the upload marks it as raced and a fault marks it as broken; of every   *)
(* other upload, each request may assume at each step what it checked when *)
(* it started.                                                             *)
(***************************************************************************)
EXTENDS RepositoriesProofs, SequenceTheorems

------------------------------------------------------------------------------
(* The plans of the requests of an upload.                                 *)

\* What is left to do of a request that runs.
UploadPlans ==
    {<<"uploadBegin">>, <<"uploadErase", "uploadAbandon">>, <<"uploadAbandon">>,
     <<"uploadErase", "uploadMismatch">>, <<"uploadMismatch">>, <<"uploadAccepted">>,
     <<"finalize", "move", "uploadCreated">>, <<"move", "uploadCreated">>, <<"uploadCreated">>}
\* Local storage: the chunk goes straight to the file of the upload.
LocalPlans ==
    {<<"localOpen", "localWrite", "uploadAccepted">>,
     <<"localOpen", "localWrite", "finalize", "move", "uploadCreated">>,
     <<"localWrite", "uploadAccepted">>,
     <<"localWrite", "finalize", "move", "uploadCreated">>}
\* The other storages: it is spooled, appended to the staged data and hashed.
StagedPlans ==
    {<<"spool", "stagedAppend", "hash", "uploadAccepted">>,
     <<"spool", "stagedAppend", "hash", "finalize", "move", "uploadCreated">>,
     <<"stagedAppend", "hash", "uploadAccepted">>,
     <<"stagedAppend", "hash", "finalize", "move", "uploadCreated">>,
     <<"hash", "uploadAccepted">>,
     <<"hash", "finalize", "move", "uploadCreated">>}
PlansOf(backend) == UploadPlans \cup (IF backend = "local" THEN LocalPlans ELSE StagedPlans)

\* The steps of uploads; those of the other requests are none of them.
UploadSteps ==
    {"uploadBegin", "uploadErase", "uploadAbandon", "uploadMismatch", "uploadAccepted", "finalize",
     "move", "uploadCreated", "localOpen", "localWrite", "spool", "stagedAppend", "hash"}
\* What comes after a step.
Onward(backend, s) ==
    /\ Head(s) = "localOpen" => backend = "local" /\ Head(Tail(s)) = "localWrite"
    /\ Head(s) = "localWrite" => backend = "local" /\ Head(Tail(s)) \in {"uploadAccepted", "finalize"}
    /\ Head(s) = "spool" => backend # "local" /\ Head(Tail(s)) = "stagedAppend"
    /\ Head(s) = "stagedAppend" => backend # "local" /\ Head(Tail(s)) = "hash"
    /\ Head(s) = "hash" => backend # "local" /\ Head(Tail(s)) \in {"uploadAccepted", "finalize"}
    /\ Head(s) = "finalize" => Tail(s) = <<"move", "uploadCreated">>
    /\ Head(s) = "move" => Tail(s) = <<"uploadCreated">>
    /\ Head(s) = "uploadErase" => Tail(s) \in {<<"uploadAbandon">>, <<"uploadMismatch">>}
\* The steps that end a request.
Lasts == {"uploadBegin", "uploadAbandon", "uploadMismatch", "uploadAccepted", "uploadCreated"}

\* The tail of a short sequence, written out.
LEMMA Tail2 == ASSUME NEW a, NEW b PROVE Tail(<<a, b>>) = <<b>>
OBVIOUS
\* The tails of short sequences, which the provers compute one at a time.
LEMMA Tail3 == ASSUME NEW a, NEW b, NEW c PROVE Tail(<<a, b, c>>) = <<b, c>>
OBVIOUS
\* The same with four elements.
LEMMA Tail4 == ASSUME NEW a, NEW b, NEW c, NEW d PROVE Tail(<<a, b, c, d>>) = <<b, c, d>>
OBVIOUS
\* The same with five.
LEMMA Tail5 ==
  ASSUME NEW a, NEW b, NEW c, NEW d, NEW e PROVE Tail(<<a, b, c, d, e>>) = <<b, c, d, e>>
OBVIOUS
\* The same with six.
LEMMA Tail6 ==
  ASSUME NEW a, NEW b, NEW c, NEW d, NEW e, NEW f PROVE Tail(<<a, b, c, d, e, f>>) = <<b, c, d, e, f>>
OBVIOUS

\* No step of an upload belongs to another kind of request, and none is logged.
LEMMA UploadPlanHeads ==
  ASSUME NEW b, NEW s \in PlansOf(b)
  PROVE  s # <<>> /\ Head(s) \in UploadSteps /\ \A i \in 1 .. Len(s) : s[i] # "logged"
  BY DEF PlansOf, UploadPlans, LocalPlans, StagedPlans, UploadSteps

\* The rest of a plan is a plan.
LEMMA UploadPlanRest ==
  ASSUME NEW b, NEW s \in PlansOf(b), Head(s) \notin Lasts
  PROVE  Tail(s) \in PlansOf(b) /\ Onward(b, s)
<1>1. CASE s \in UploadPlans
  <2>1. CASE s = <<"uploadErase", "uploadAbandon">>
    BY <2>1, Tail2 DEF PlansOf, UploadPlans, Onward
  <2>2. CASE s = <<"uploadErase", "uploadMismatch">>
    BY <2>2, Tail2 DEF PlansOf, UploadPlans, Onward
  <2>3. CASE s = <<"finalize", "move", "uploadCreated">>
    BY <2>3, Tail3 DEF PlansOf, UploadPlans, Onward
  <2>4. CASE s = <<"move", "uploadCreated">>
    BY <2>4, Tail2 DEF PlansOf, UploadPlans, Onward
  <2> QED BY <1>1, <2>1, <2>2, <2>3, <2>4 DEF UploadPlans, Lasts
<1>2. CASE b = "local" /\ s \in LocalPlans
  <2>1. CASE s = <<"localOpen", "localWrite", "uploadAccepted">>
    BY <1>2, <2>1, Tail3 DEF PlansOf, LocalPlans, Onward
  <2>2. CASE s = <<"localOpen", "localWrite", "finalize", "move", "uploadCreated">>
    BY <1>2, <2>2, Tail5 DEF PlansOf, LocalPlans, Onward
  <2>3. CASE s = <<"localWrite", "uploadAccepted">>
    BY <1>2, <2>3, Tail2 DEF PlansOf, UploadPlans, Onward
  <2>4. CASE s = <<"localWrite", "finalize", "move", "uploadCreated">>
    BY <1>2, <2>4, Tail4 DEF PlansOf, UploadPlans, Onward
  <2> QED BY <1>2, <2>1, <2>2, <2>3, <2>4 DEF LocalPlans
<1>3. CASE b # "local" /\ s \in StagedPlans
  <2>1. CASE s = <<"spool", "stagedAppend", "hash", "uploadAccepted">>
    BY <1>3, <2>1, Tail4 DEF PlansOf, StagedPlans, Onward
  <2>2. CASE s = <<"spool", "stagedAppend", "hash", "finalize", "move", "uploadCreated">>
    BY <1>3, <2>2, Tail6 DEF PlansOf, StagedPlans, Onward
  <2>3. CASE s = <<"stagedAppend", "hash", "uploadAccepted">>
    BY <1>3, <2>3, Tail3 DEF PlansOf, StagedPlans, Onward
  <2>4. CASE s = <<"stagedAppend", "hash", "finalize", "move", "uploadCreated">>
    BY <1>3, <2>4, Tail5 DEF PlansOf, StagedPlans, Onward
  <2>5. CASE s = <<"hash", "uploadAccepted">>
    BY <1>3, <2>5, Tail2 DEF PlansOf, UploadPlans, Onward
  <2>6. CASE s = <<"hash", "finalize", "move", "uploadCreated">>
    BY <1>3, <2>6, Tail4 DEF PlansOf, UploadPlans, Onward
  <2> QED BY <1>3, <2>1, <2>2, <2>3, <2>4, <2>5, <2>6 DEF StagedPlans
<1> QED BY <1>1, <1>2, <1>3 DEF PlansOf

\* The plan of a chunk, and of the closing request with a last chunk.
LEMMA Join0and3 ==
  ASSUME NEW a, NEW b, NEW c
  PROVE  <<>> \o <<a, b, c>> = <<a, b, c>>
<1> DEFINE S == {a, b, c}
           s == <<>> \o <<a, b, c>>
           t == <<a, b, c>>
<1>1. <<>> \in Seq(S) /\ <<a, b, c>> \in Seq(S)
  OBVIOUS
<1>2. s \in Seq(S) /\ t \in Seq(S) /\ Len(s) = 3 /\ Len(t) = 3
  BY <1>1
<1>3. \A i \in 1 .. 3 : s[i] = t[i]
  BY <1>1
<1> HIDE DEF S, s, t
<1>4. s = t
  BY <1>2, <1>3, SeqEqual
<1> QED BY <1>4 DEF s, t
\* A sequence of two and one of one.
LEMMA Join2and1 ==
  ASSUME NEW a, NEW b, NEW c
  PROVE  <<a, b>> \o <<c>> = <<a, b, c>>
<1> DEFINE S == {a, b, c}
           s == <<a, b>> \o <<c>>
           t == <<a, b, c>>
<1>1. <<a, b>> \in Seq(S) /\ <<c>> \in Seq(S)
  OBVIOUS
<1>2. s \in Seq(S) /\ t \in Seq(S) /\ Len(s) = 3 /\ Len(t) = 3
  BY <1>1
<1>3. \A i \in 1 .. 3 : s[i] = t[i]
  BY <1>1
<1> HIDE DEF S, s, t
<1>4. s = t
  BY <1>2, <1>3, SeqEqual
<1> QED BY <1>4 DEF s, t
\* Three and one.
LEMMA Join3and1 ==
  ASSUME NEW a, NEW b, NEW c, NEW d
  PROVE  <<a, b, c>> \o <<d>> = <<a, b, c, d>>
<1> DEFINE S == {a, b, c, d}
           s == <<a, b, c>> \o <<d>>
           t == <<a, b, c, d>>
<1>1. <<a, b, c>> \in Seq(S) /\ <<d>> \in Seq(S)
  OBVIOUS
<1>2. s \in Seq(S) /\ t \in Seq(S) /\ Len(s) = 4 /\ Len(t) = 4
  BY <1>1
<1>3. \A i \in 1 .. 4 : s[i] = t[i]
  BY <1>1
<1> HIDE DEF S, s, t
<1>4. s = t
  BY <1>2, <1>3, SeqEqual
<1> QED BY <1>4 DEF s, t
\* Two and three.
LEMMA Join2and3 ==
  ASSUME NEW a, NEW b, NEW c, NEW d, NEW e
  PROVE  <<a, b>> \o <<c, d, e>> = <<a, b, c, d, e>>
<1> DEFINE S == {a, b, c, d, e}
           s == <<a, b>> \o <<c, d, e>>
           t == <<a, b, c, d, e>>
<1>1. <<a, b>> \in Seq(S) /\ <<c, d, e>> \in Seq(S)
  OBVIOUS
<1>2. s \in Seq(S) /\ t \in Seq(S) /\ Len(s) = 5 /\ Len(t) = 5
  BY <1>1
<1>3. \A i \in 1 .. 5 : s[i] = t[i]
  BY <1>1
<1> HIDE DEF S, s, t
<1>4. s = t
  BY <1>2, <1>3, SeqEqual
<1> QED BY <1>4 DEF s, t
\* Three and three.
LEMMA Join3and3 ==
  ASSUME NEW a, NEW b, NEW c, NEW d, NEW e, NEW f
  PROVE  <<a, b, c>> \o <<d, e, f>> = <<a, b, c, d, e, f>>
<1> DEFINE S == {a, b, c, d, e, f}
           s == <<a, b, c>> \o <<d, e, f>>
           t == <<a, b, c, d, e, f>>
<1>1. <<a, b, c>> \in Seq(S) /\ <<d, e, f>> \in Seq(S)
  OBVIOUS
<1>2. s \in Seq(S) /\ t \in Seq(S) /\ Len(s) = 6 /\ Len(t) = 6
  BY <1>1
<1>3. \A i \in 1 .. 6 : s[i] = t[i]
  BY <1>1
<1> HIDE DEF S, s, t
<1>4. s = t
  BY <1>2, <1>3, SeqEqual
<1> QED BY <1>4 DEF s, t

\* What a request with or without a body is going to do.
LEMMA ReceivePlans ==
  /\ Receive \o <<"uploadAccepted">> \in PlansOf(storage)
  /\ Receive \o <<"finalize", "move", "uploadCreated">> \in PlansOf(storage)
  /\ <<>> \o <<"finalize", "move", "uploadCreated">> \in PlansOf(storage)
  /\ Head(Receive \o <<"uploadAccepted">>) = (IF storage = "local" THEN "localOpen" ELSE "spool")
  /\ Head(Receive \o <<"finalize", "move", "uploadCreated">>)
       = (IF storage = "local" THEN "localOpen" ELSE "spool")
  /\ Head(<<>> \o <<"finalize", "move", "uploadCreated">>) = "finalize"
<1>1. <<>> \o <<"finalize", "move", "uploadCreated">> = <<"finalize", "move", "uploadCreated">>
  BY Join0and3
<1>2. CASE storage = "local"
  BY <1>1, <1>2, Join2and1, Join2and3 DEF Receive, PlansOf, UploadPlans, LocalPlans
<1>3. CASE storage # "local"
  BY <1>1, <1>3, Join3and1, Join3and3 DEF Receive, PlansOf, UploadPlans, StagedPlans
<1> QED BY <1>2, <1>3

------------------------------------------------------------------------------
(* The invariant of the uploads.                                           *)

\* What a request brings: a body, or none.
Chunks == Bodies \cup {Blank}
\* The fields of what a request remembers.
MemShape(m) == m = [chunk |-> m.chunk, digest |-> m.digest, fd |-> m.fd, spool |-> m.spool]
\* The fields of a request.
JobShape(j) ==
    j = [op |-> j.op, plan |-> j.plan, p |-> j.p, v |-> j.v, path |-> j.path, body |-> j.body,
         mem |-> j.mem, row |-> j.row, reads |-> j.reads, code |-> j.code, got |-> j.got]

\* A request that runs works on one upload and relies on it from its start.
UploadJob(j) ==
    /\ JobShape(j)
    /\ j.plan = <<>> => j.reads = {}
    /\ j.plan # <<>> =>
        /\ j.plan \in PlansOf(storage)
        /\ j.p \in UploadIds /\ j.reads = {Upload(j.p)}
        /\ MemShape(j.mem) /\ j.mem.chunk \in Chunks
        /\ j.plan = <<"uploadBegin">> => j.op = "begin"
\* All requests are requests of uploads.
UploadJobs == job = [c \in Clients |-> job[c]] /\ \A c \in Clients : UploadJob(job[c])

\* A staged upload: the chunks received, and the units charged for them.
StagedEntry(e) == e = [data |-> e.data, units |-> e.units] /\ e.data \in Seq(Chunks) /\ e.units \in Nat
\* The fields of the tables of uploads.
AuxShape(a) == a = [open |-> a.open, staged |-> a.staged, blobs |-> a.blobs,
                    seen |-> a.seen, lost |-> a.lost, origin |-> a.origin]
\* What holds of the tables whatever the faults: names, domains and who stages at all.
UploadTables ==
    /\ AuxShape(aux)
    /\ DOMAIN aux.open \subseteq aux.seen /\ aux.seen \subseteq UploadIds
    /\ DOMAIN aux.blobs \subseteq DOMAIN aux.origin
    /\ DOMAIN aux.staged \subseteq UploadIds /\ \A p \in DOMAIN aux.staged : StagedEntry(aux.staged[p])
    /\ IF storage = "local" THEN DOMAIN aux.staged = {}
       ELSE \A p \in UploadIds : UploadFile(p) \notin DOMAIN store

\* Request c works on upload p.
On(c, p) == job[c].plan # <<>> /\ job[c].p = p
\* The next step of request c, which works on p, is step.
Doing(c, p, step) == On(c, p) /\ At(c, step)
\* The data received for p: in its file, or staged.
DataOf(p) == IF storage = "local" THEN LocalData(p)
             ELSE IF p \in DOMAIN aux.staged THEN aux.staged[p].data ELSE <<>>
\* Nothing of p is left on the disk or staged.
NoData(p) == UploadFile(p) \notin DOMAIN store /\ p \notin DOMAIN aux.staged

\* An upload that is not begun has no hash and no data, and one request at most begins it.
Fresh(p) ==
    /\ p \notin aux.seen => NoData(p) /\ \A c \in Clients : On(c, p) => At(c, "uploadBegin")
    /\ \A c \in Clients : Doing(c, p, "uploadBegin") =>
         p \notin aux.seen /\ \A d \in Clients : On(d, p) => d = c

\* The data are what was hashed, except between the two halves of a step.
HashFollows(p) ==
    /\ p \in DOMAIN aux.open /\ (\A c \in Clients : ~Doing(c, p, "hash") /\ ~Doing(c, p, "uploadAbandon"))
         => DataOf(p) = aux.open[p]
    /\ \A c \in Clients : Doing(c, p, "hash") =>
         p \in DOMAIN aux.open /\ DataOf(p) = Append(aux.open[p], job[c].mem.chunk)
    /\ \A c \in Clients : Doing(c, p, "localWrite") =>
         job[c].mem.fd = "upload" /\ UploadFile(p) \in DOMAIN store

\* An upload whose hash is gone is in the hands of the request that closes it.
Closers == {"uploadBegin", "uploadErase", "uploadMismatch", "move", "uploadCreated"}
ClosedOnce(p) ==
    /\ p \notin DOMAIN aux.open => \A c \in Clients : On(c, p) => Head(job[c].plan) \in Closers
    /\ \A c \in Clients : Doing(c, p, "uploadErase") =>
         (p \in DOMAIN aux.open <=> Rest(c) = <<"uploadAbandon">>)
    /\ \A c \in Clients : Doing(c, p, "move") =>
         p \notin DOMAIN aux.open /\ DataOf(p) = job[c].mem.digest
    /\ \A c \in Clients : Doing(c, p, "uploadAbandon") =>
         NoData(p) \/ \E d \in Clients : Doing(d, p, "localWrite")
    /\ p \in aux.seen \ (aux.lost \cup DOMAIN aux.open) =>
         \/ NoData(p) \/ SpoiltDigest(p)
         \/ \E c \in Clients : Doing(c, p, "uploadErase") \/ Doing(c, p, "move")

\* The units recorded for staged data are those that were appended.
UnitsExact(p) == p \in DOMAIN aux.staged => aux.staged[p].units = Len(aux.staged[p].data)

\* An upload nobody disturbed.
Sound(p) == HashFollows(p) /\ ClosedOnce(p) /\ UnitsExact(p)
\* The invariant: an upload is sound or was disturbed by another request or a fault.
UploadInv ==
    kind = "dockerUploads" =>
        /\ UploadJobs /\ UploadTables
        /\ \A p \in UploadIds : Fresh(p) /\ (Disturbed(p) \/ Sound(p))
        /\ BlobsMatchDigest

------------------------------------------------------------------------------
(* What a step does to the requests.                                       *)

\* The request goes on with another plan, remembering mem.
Proceeds(c, plan, mem) ==
    /\ job' = [d \in Clients |-> job'[d]]
    /\ \A d \in Clients \ {c} : job'[d] = job[d]
    /\ JobShape(job'[c]) /\ job'[c].plan = plan
    /\ job'[c].op = job[c].op /\ job'[c].p = job[c].p /\ job'[c].reads = job[c].reads
    /\ job'[c].mem = mem
\* The request is over.
Finishes(c) ==
    /\ job' = [d \in Clients |-> job'[d]]
    /\ \A d \in Clients \ {c} : job'[d] = job[d]
    /\ JobShape(job'[c]) /\ job'[c].plan = <<>> /\ job'[c].reads = {}

\* How the steps of a request change the table of requests.
LEMMA GotoProceeds ==
  ASSUME UploadJobs, NEW c \in Clients, NEW plan, Goto(c, plan)
  PROVE  Proceeds(c, plan, job[c].mem)
<1>1. PICK j : j = job[c]
  OBVIOUS
<1>2. JobShape(j)
  BY <1>1 DEF UploadJobs, UploadJob
<1>3. PICK k : k = [j EXCEPT !.plan = plan]
  OBVIOUS
<1>4. JobShape(k) /\ k.plan = plan /\ k.op = j.op /\ k.p = j.p /\ k.reads = j.reads /\ k.mem = j.mem
  BY <1>2, <1>3 DEF JobShape
<1>5. job' = [job EXCEPT ![c] = k]
  BY <1>1, <1>3 DEF Goto
<1>6. job = [d \in Clients |-> job[d]]
  BY DEF UploadJobs
<1>7. job' = [d \in Clients |-> job'[d]] /\ job'[c] = k /\ \A d \in Clients \ {c} : job'[d] = job[d]
  BY <1>5, <1>6
<1> QED BY <1>1, <1>4, <1>7 DEF Proceeds

\* The request goes on with the rest of its plan.
LEMMA AdvanceProceeds ==
  ASSUME UploadJobs, NEW c \in Clients, Advance(c)
  PROVE  Proceeds(c, Rest(c), job[c].mem)
  BY GotoProceeds DEF Advance

\* A request that answers is over.
LEMMA ReplyFinishes ==
  ASSUME UploadJobs, NEW c \in Clients, NEW code, NEW got, Reply(c, code, got) PROVE Finishes(c)
<1>1. PICK k : k = [NoJob EXCEPT !.op = job[c].op, !.code = code, !.got = got]
  OBVIOUS
<1>2. JobShape(k) /\ k.plan = <<>> /\ k.reads = {}
  BY <1>1 DEF JobShape, NoJob
<1>3. job' = [job EXCEPT ![c] = k]
  BY <1>1 DEF Reply
<1>4. job = [d \in Clients |-> job[d]]
  BY DEF UploadJobs
<1>5. job' = [d \in Clients |-> job'[d]] /\ job'[c] = k /\ \A d \in Clients \ {c} : job'[d] = job[d]
  BY <1>3, <1>4
<1> QED BY <1>2, <1>5 DEF Finishes

\* A failure of an upload logs nothing, so the request is over.
LEMMA AbortFinishes ==
  ASSUME UploadJobs, NEW c \in Clients, job[c].plan # <<>>, NEW code, Abort(c, code) PROVE Finishes(c)
<1>1. job[c].plan \in PlansOf(storage)
  BY DEF UploadJobs, UploadJob
<1>2. Logged(c) = {}
  BY <1>1, UploadPlanHeads DEF Logged
<1>3. Reply(c, code, Nothing)
  BY <1>2 DEF Abort
<1> QED BY <1>3, ReplyFinishes

\* Requests stay requests of uploads when one ends, and when one goes on.
LEMMA FinishedJobs ==
  ASSUME UploadJobs, NEW c \in Clients, Finishes(c), storage' = storage PROVE UploadJobs'
  BY DEF UploadJobs, UploadJob, Finishes

\* They stay requests of uploads when one goes on.
LEMMA ProceededJobs ==
  ASSUME UploadJobs, NEW c \in Clients, job[c].plan # <<>>, Head(job[c].plan) \notin Lasts,
         NEW mem, MemShape(mem), mem.chunk \in Chunks,
         Proceeds(c, Rest(c), mem), storage' = storage
  PROVE  UploadJobs' /\ job'[c].plan \in PlansOf(storage)
<1>1. job[c].plan \in PlansOf(storage)
  BY DEF UploadJobs, UploadJob
<1>2. Rest(c) \in PlansOf(storage) /\ Onward(storage, job[c].plan)
  BY <1>1, UploadPlanRest DEF Rest
<1>3. PICK s : s = Rest(c)
  OBVIOUS
<1>4. s # <<"uploadBegin">>
  <2>1. Head(job[c].plan) \in {"uploadErase", "finalize", "move", "localOpen", "localWrite",
                               "spool", "stagedAppend", "hash"}
    BY <1>1, UploadPlanHeads DEF Lasts, UploadSteps
  <2>2. Head(s) # "uploadBegin"
    <3>1. CASE Head(job[c].plan) = "uploadErase"
      <4>1. s = <<"uploadAbandon">> \/ s = <<"uploadMismatch">>
        BY <1>2, <1>3, <3>1 DEF Onward, Rest
      <4> QED BY <4>1
    <3>2. CASE Head(job[c].plan) = "finalize"
      <4>1. s = <<"move", "uploadCreated">>
        BY <1>2, <1>3, <3>2 DEF Onward, Rest
      <4> QED BY <4>1
    <3>3. CASE Head(job[c].plan) = "move"
      <4>1. s = <<"uploadCreated">>
        BY <1>2, <1>3, <3>3 DEF Onward, Rest
      <4> QED BY <4>1
    <3>4. CASE Head(job[c].plan) \in {"localOpen", "localWrite", "spool", "stagedAppend", "hash"}
      BY <1>2, <1>3, <3>4 DEF Onward, Rest
    <3> QED BY <2>1, <3>1, <3>2, <3>3, <3>4
  <2>3. Head(<<"uploadBegin">>) = "uploadBegin"
    OBVIOUS
  <2> QED BY <2>2, <2>3
<1>5. \A d \in Clients : UploadJob(job[d])
  BY DEF UploadJobs
<1>6. UploadJob(job[c])'
  <2>1. PICK j : j = job'[c]
    OBVIOUS
  <2>2. JobShape(j) /\ j.plan = s /\ j.op = job[c].op /\ j.p = job[c].p
        /\ j.reads = job[c].reads /\ j.mem = mem
    BY <1>3, <2>1 DEF Proceeds
  <2>3. s # <<>>
    BY <1>2, <1>3, UploadPlanHeads
  <2>4. job[c].p \in UploadIds /\ job[c].reads = {Upload(job[c].p)}
    BY <1>5 DEF UploadJob
  <2> QED BY <1>2, <1>3, <1>4, <2>1, <2>2, <2>3, <2>4 DEF UploadJob
<1>7. \A d \in Clients \ {c} : UploadJob(job[d])'
  BY <1>5 DEF UploadJob, Proceeds
<1> QED BY <1>2, <1>3, <1>6, <1>7 DEF UploadJobs, Proceeds

------------------------------------------------------------------------------
(* Steps on one upload leave the others alone.                             *)

\* Upload q has the hash, the data and the marks it had.
Untouched(q) ==
    /\ (q \in DOMAIN aux'.open <=> q \in DOMAIN aux.open)
    /\ q \in DOMAIN aux.open => aux'.open[q] = aux.open[q]
    /\ (q \in DOMAIN aux'.staged <=> q \in DOMAIN aux.staged)
    /\ q \in DOMAIN aux.staged => aux'.staged[q] = aux.staged[q]
    /\ (q \in aux'.seen <=> q \in aux.seen) /\ (q \in aux'.lost <=> q \in aux.lost)
    /\ (UploadFile(q) \in DOMAIN store' <=> UploadFile(q) \in DOMAIN store)
    /\ UploadFile(q) \in DOMAIN store => store'[UploadFile(q)] = store[UploadFile(q)]
\* The blobs of the S3 storage are not replaced.
BlobsStay ==
    storage = "s3" => \A d \in DOMAIN aux.blobs : d \in DOMAIN aux'.blobs /\ aux'.blobs[d] = aux.blobs[d]
\* The requests that run on q are the same and where they were.
SameOn(q) ==
    \A d \in Clients :
        \/ job[d].plan # <<>> /\ job[d].p = q /\ job'[d] = job[d]
        \/ (job[d].plan = <<>> \/ job[d].p # q) /\ (job'[d].plan = <<>> \/ job'[d].p # q)

\* Its requests are where they were.
LEMMA SameDoing ==
  ASSUME NEW q, SameOn(q)
  PROVE  \A d \in Clients : /\ On(d, q)' <=> On(d, q)
                            /\ \A x : Doing(d, q, x)' <=> Doing(d, q, x)
                            /\ On(d, q) => job'[d] = job[d]
  BY DEF SameOn, On, Doing, At

\* What is said of an upload does not change where nothing it is about changes.
LEMMA SameData ==
  ASSUME NEW q, Untouched(q), BlobsStay, storage' = storage
  PROVE  DataOf(q)' = DataOf(q) /\ NoData(q)' = NoData(q) /\ (SpoiltDigest(q) => SpoiltDigest(q)')
  BY DEF Untouched, BlobsStay, DataOf, NoData, SpoiltDigest, LocalData

\* An upload that a step is not about keeps its invariant.
LEMMA Elsewhere ==
  ASSUME NEW q \in UploadIds, Untouched(q), BlobsStay, SameOn(q), storage' = storage,
         Fresh(q), Disturbed(q) \/ Sound(q), raced \subseteq raced', broken \subseteq broken'
  PROVE  Fresh(q)' /\ (Disturbed(q)' \/ Sound(q)')
<1>1. Disturbed(q) => Disturbed(q)'
  BY DEF Disturbed
<1>2. DataOf(q)' = DataOf(q) /\ NoData(q)' = NoData(q) /\ (SpoiltDigest(q) => SpoiltDigest(q)')
  BY SameData
<1>3. \A d \in Clients : /\ On(d, q)' <=> On(d, q)
                         /\ \A x : Doing(d, q, x)' <=> Doing(d, q, x)
                         /\ On(d, q) => job'[d] = job[d]
  BY SameDoing
<1>4. \A d \in Clients : \A x : Doing(d, q, x) => On(d, q)
  BY DEF Doing
<1>5. Fresh(q)'
  BY <1>2, <1>3, <1>4 DEF Fresh, Untouched, At
<1>6. ASSUME HashFollows(q) PROVE HashFollows(q)'
  <2>1. /\ q \in DOMAIN aux'.open
        /\ \A c \in Clients : ~(Doing(c, q, "hash")') /\ ~(Doing(c, q, "uploadAbandon")')
        => DataOf(q)' = aux'.open[q]
    BY <1>2, <1>3, <1>6 DEF HashFollows, Untouched
  <2>2. ASSUME NEW c \in Clients, Doing(c, q, "hash")'
        PROVE  q \in DOMAIN aux'.open /\ DataOf(q)' = Append(aux'.open[q], job'[c].mem.chunk)
    BY <1>2, <1>3, <1>4, <1>6, <2>2 DEF HashFollows, Untouched
  <2>3. ASSUME NEW c \in Clients, Doing(c, q, "localWrite")'
        PROVE  job'[c].mem.fd = "upload" /\ UploadFile(q) \in DOMAIN store'
    BY <1>3, <1>4, <1>6, <2>3 DEF HashFollows, Untouched
  <2> QED BY <2>1, <2>2, <2>3 DEF HashFollows
<1>7. ASSUME ClosedOnce(q) PROVE ClosedOnce(q)'
  <2>1. \A d \in Clients : On(d, q) => Rest(d)' = Rest(d)
    BY <1>3 DEF Rest
  <2> QED BY <1>2, <1>3, <1>4, <1>7, <2>1 DEF ClosedOnce, Untouched
<1>8. ASSUME UnitsExact(q) PROVE UnitsExact(q)'
  BY <1>8 DEF UnitsExact, Untouched
<1> QED BY <1>1, <1>5, <1>6, <1>7, <1>8 DEF Sound

------------------------------------------------------------------------------
(* Every step of an upload keeps the invariant.                            *)

\* A step that changes an upload while another request runs on it marks it as raced.
LEMMA AloneAfterTouch ==
  ASSUME UploadJobs, NEW c \in Clients, NEW p, Touch(c, {Upload(p)})
  PROVE  /\ raced \subseteq raced'
         /\ Upload(p) \notin raced' => \A d \in Clients : On(d, p) => d = c
  BY DEF Touch, Overtaken, UploadJobs, UploadJob, On

\* Blobs that are not written match their digests as before.
LEMMA BlobsKept ==
  ASSUME BlobsMatchDigest, kind' = kind, aux'.blobs = aux.blobs, aux'.origin = aux.origin,
         raced \subseteq raced', broken \subseteq broken'
  PROVE  BlobsMatchDigest' /\ BlobsStay
  BY DEF BlobsMatchDigest, BlobsStay, Disturbed

\* The invariant, from what a step does to each upload.
LEMMA UploadsKept ==
  ASSUME UploadInv, kind = "dockerUploads", storage' = storage,
         raced \subseteq raced', broken \subseteq broken', BlobsStay,
         UploadJobs', UploadTables', BlobsMatchDigest',
         \A q \in UploadIds : \/ Untouched(q) /\ SameOn(q)
                              \/ Fresh(q)' /\ (Disturbed(q)' \/ Sound(q)')
  PROVE  UploadInv'
<1>1. \A q \in UploadIds : Fresh(q) /\ (Disturbed(q) \/ Sound(q))
  BY DEF UploadInv
<1>2. \A q \in UploadIds : Fresh(q)' /\ (Disturbed(q)' \/ Sound(q)')
  BY <1>1, Elsewhere
<1> QED BY <1>2 DEF UploadInv

\* What the client works on is the only upload whose requests change.
LEMMA SameElsewhere ==
  ASSUME NEW c \in Clients, NEW p, job[c].p = p,
         Finishes(c) \/ \E plan, mem : Proceeds(c, plan, mem), NEW q, q # p
  PROVE  SameOn(q)
<1>1. CASE Finishes(c)
  BY <1>1 DEF SameOn, Finishes
<1>2. ASSUME NEW plan, NEW mem, Proceeds(c, plan, mem) PROVE SameOn(q)
  BY <1>2 DEF SameOn, Proceeds
<1> QED BY <1>1, <1>2

\* A step that writes no table touches no upload.
LEMMA NothingTouched ==
  ASSUME aux' = aux, store' = store PROVE \A q : Untouched(q)
  BY DEF Untouched

\* Such a step keeps the tables.
LEMMA TablesSame ==
  ASSUME UploadTables, aux' = aux, store' = store, storage' = storage PROVE UploadTables'
  BY DEF UploadTables, AuxShape, StagedEntry

\* A request that is refused at once.
LEMMA RefusedKeeps ==
  ASSUME UploadInv, kind = "dockerUploads", NEW c \in Clients, NEW r, Start(c, r),
         JobShape(r), r.plan = <<>>, r.reads = {}
  PROVE  UploadInv'
<1>1. /\ kind' = kind /\ storage' = storage /\ store' = store /\ aux' = aux
      /\ raced' = raced /\ broken' = broken /\ job[c].plan = <<>>
      /\ job' = [job EXCEPT ![c] = r]
  BY DEF Start, Free, Idle, worldVars, historyVars
<1>2. UploadJobs /\ UploadTables /\ BlobsMatchDigest
  BY DEF UploadInv
<1>3. Finishes(c)
  BY <1>1, <1>2 DEF UploadJobs, Finishes
<1>4. \A q \in UploadIds : SameOn(q)
  BY <1>1, <1>3 DEF SameOn, Finishes
<1> QED BY <1>1, <1>2, <1>3, <1>4, FinishedJobs, TablesSame, NothingTouched, BlobsKept, UploadsKept

\* The requests after another one started.
LEMMA StartedJobs ==
  ASSUME UploadJobs, NEW c \in Clients, NEW r, Start(c, r), UploadJob(r)
  PROVE  /\ UploadJobs'
         /\ job[c].plan = <<>> /\ job'[c] = r
         /\ \A d \in Clients \ {c} : job'[d] = job[d]
         /\ \A q : q # r.p => SameOn(q)
<1>1. job[c].plan = <<>> /\ job' = [job EXCEPT ![c] = r] /\ storage' = storage
  BY DEF Start, Free, Idle, worldVars
<1>2. job = [d \in Clients |-> job[d]]
  BY DEF UploadJobs
<1>3. job' = [d \in Clients |-> job'[d]] /\ job'[c] = r /\ \A d \in Clients \ {c} : job'[d] = job[d]
  BY <1>1, <1>2
<1>4. \A d \in Clients : UploadJob(job'[d])
  BY <1>3 DEF UploadJobs
<1>5. UploadJobs'
  BY <1>1, <1>3, <1>4 DEF UploadJobs, UploadJob
<1> QED BY <1>1, <1>3, <1>5 DEF SameOn

\* What a request remembers at first.
LEMMA MemoryShape ==
  ASSUME NEW b, NEW digest
  PROVE  MemShape(UploadMemory(b, digest)) /\ UploadMemory(b, digest).chunk = b
  BY DEF MemShape, UploadMemory

\* POST: an upload with a name nobody has used is begun.
LEMMA BeginKeeps ==
  ASSUME UploadInv, kind = "dockerUploads", NEW c \in Clients, UploadBegin(c) PROVE UploadInv'
<1>1. PICK p \in UploadIds \ Named :
        Start(c, UploadRequest("begin", p, <<"uploadBegin">>, UploadMemory(Blank, <<>>)))
  BY DEF UploadBegin
<1>2. PICK r : r = UploadRequest("begin", p, <<"uploadBegin">>, UploadMemory(Blank, <<>>))
  OBVIOUS
<1>3. /\ JobShape(r) /\ r.op = "begin" /\ r.p = p /\ r.plan = <<"uploadBegin">>
      /\ r.reads = {Upload(p)} /\ r.mem = UploadMemory(Blank, <<>>)
  BY <1>2 DEF JobShape, UploadRequest, NoJob
<1>4. UploadJob(r)
  <2>1. <<"uploadBegin">> \in PlansOf(storage)
    BY DEF PlansOf, UploadPlans
  <2>2. <<"uploadBegin">> # <<>>
    OBVIOUS
  <2>3. MemShape(UploadMemory(Blank, <<>>)) /\ UploadMemory(Blank, <<>>).chunk \in Chunks
    BY MemoryShape DEF Chunks
  <2> QED BY <1>1, <1>3, <2>1, <2>2, <2>3 DEF UploadJob
<1>5. /\ kind' = kind /\ storage' = storage /\ store' = store /\ aux' = aux
      /\ raced' = raced /\ broken' = broken
  BY <1>1 DEF Start, worldVars, historyVars
<1>6. UploadJobs /\ UploadTables /\ BlobsMatchDigest /\ Fresh(p)
  BY <1>1 DEF UploadInv
<1>7. /\ UploadJobs' /\ job[c].plan = <<>> /\ job'[c] = r
      /\ \A d \in Clients \ {c} : job'[d] = job[d]
      /\ \A q : q # p => SameOn(q)
  BY <1>1, <1>2, <1>3, <1>4, <1>6, StartedJobs
<1>8. p \notin aux.seen /\ NoData(p)
  BY <1>1, <1>6 DEF Named, Fresh
<1>9. \A d \in Clients : ~On(d, p)
  <2>1. SUFFICES ASSUME NEW d \in Clients, On(d, p) PROVE FALSE
    OBVIOUS
  <2>2. At(d, "uploadBegin")
    BY <1>6, <1>8, <2>1 DEF Fresh
  <2>3. job[d].plan = <<"uploadBegin">>
    <3>1. job[d].plan \in PlansOf(storage)
      BY <1>6, <2>1 DEF UploadJobs, UploadJob, On
    <3> QED BY <2>2, <3>1 DEF At, PlansOf, UploadPlans, LocalPlans, StagedPlans
  <2>4. job[d].op = "begin" /\ job[d].plan # <<>>
    BY <1>6, <2>1, <2>3 DEF UploadJobs, UploadJob, On
  <2>5. job[d].p \in Named
    BY <2>4 DEF Named, Running, Idle
  <2> QED BY <1>1, <2>1, <2>5 DEF On
<1>10. \A d \in Clients : On(d, p)' => d = c
  BY <1>7, <1>9 DEF On
<1>11. Head(job'[c].plan) = "uploadBegin" /\ On(c, p)'
  <2>1. Head(<<"uploadBegin">>) = "uploadBegin" /\ <<"uploadBegin">> # <<>>
    OBVIOUS
  <2> QED BY <1>3, <1>7, <2>1 DEF On
<1>12. Fresh(p)'
  BY <1>5, <1>8, <1>10, <1>11 DEF Fresh, NoData, Doing, At, On
<1>13. p \notin DOMAIN aux.open
  BY <1>6, <1>8 DEF UploadTables
<1>14. Sound(p)'
  BY <1>5, <1>8, <1>10, <1>11, <1>13
  DEF Sound, HashFollows, ClosedOnce, UnitsExact, NoData, Doing, At, Closers
<1>15. \A q : Untouched(q)
  BY <1>5, NothingTouched
<1> QED BY <1>5, <1>6, <1>7, <1>12, <1>14, <1>15, TablesSame, BlobsKept, UploadsKept

\* A request on an upload whose hash is there.
LEMMA StartKeeps ==
  ASSUME UploadInv, kind = "dockerUploads", NEW c \in Clients, NEW r, Start(c, r), UploadJob(r),
         NEW p, p = r.p, p \in UploadIds \cap DOMAIN aux.open, r.plan # <<>>,
         \/ Head(r.plan) \in {"localOpen", "spool", "finalize"}
         \/ r.plan = <<"uploadErase", "uploadAbandon">>
  PROVE  UploadInv'
<1>1. /\ kind' = kind /\ storage' = storage /\ store' = store /\ aux' = aux
      /\ raced' = raced /\ broken' = broken
  BY DEF Start, worldVars, historyVars
<1>2. UploadJobs /\ UploadTables /\ BlobsMatchDigest /\ Fresh(p) /\ (Disturbed(p) \/ Sound(p))
  BY DEF UploadInv
<1>3. /\ UploadJobs' /\ job[c].plan = <<>> /\ job'[c] = r
      /\ \A d \in Clients \ {c} : job'[d] = job[d]
      /\ \A q : q # p => SameOn(q)
  BY <1>2, StartedJobs
<1>4. p \in aux.seen
  BY <1>2 DEF UploadTables
<1>5. Head(r.plan) \in {"localOpen", "spool", "finalize", "uploadErase"}
  OBVIOUS
<1>6. \A d \in Clients : /\ On(d, p)' => d = c \/ On(d, p)
                         /\ On(d, p) => d # c /\ On(d, p)' /\ job'[d] = job[d]
  BY <1>3 DEF On
<1>7. \A d \in Clients : \A x \in UploadSteps \ {"localOpen", "spool", "finalize", "uploadErase"} :
        Doing(d, p, x)' <=> Doing(d, p, x)
  BY <1>3, <1>5, <1>6 DEF Doing, At
<1>8. Fresh(p)'
  BY <1>1, <1>2, <1>4, <1>6, <1>7 DEF Fresh, NoData, Doing, UploadSteps
<1>9. DataOf(p)' = DataOf(p) /\ NoData(p)' = NoData(p)
  BY <1>1 DEF DataOf, NoData, LocalData
<1>10. ASSUME HashFollows(p) PROVE HashFollows(p)'
  <2>1. (\A d \in Clients : ~Doing(d, p, "hash")' /\ ~Doing(d, p, "uploadAbandon")')
          => DataOf(p)' = aux'.open[p]
    BY <1>1, <1>7, <1>9, <1>10 DEF HashFollows, UploadSteps
  <2>2. ASSUME NEW d \in Clients, Doing(d, p, "hash")'
        PROVE  p \in DOMAIN aux'.open /\ DataOf(p)' = Append(aux'.open[p], job'[d].mem.chunk)
    <3>1. Doing(d, p, "hash") /\ On(d, p)
      BY <1>7, <2>2 DEF UploadSteps, Doing
    <3> QED BY <1>1, <1>6, <1>9, <1>10, <3>1 DEF HashFollows
  <2>3. ASSUME NEW d \in Clients, Doing(d, p, "localWrite")'
        PROVE  job'[d].mem.fd = "upload" /\ UploadFile(p) \in DOMAIN store'
    <3>1. Doing(d, p, "localWrite") /\ On(d, p)
      BY <1>7, <2>3 DEF UploadSteps, Doing
    <3> QED BY <1>1, <1>6, <1>10, <3>1 DEF HashFollows
  <2> QED BY <2>1, <2>2, <2>3 DEF HashFollows
<1>11. ASSUME ClosedOnce(p) PROVE ClosedOnce(p)'
  <2>1. ASSUME NEW d \in Clients, Doing(d, p, "uploadErase")'
        PROVE  Rest(d)' = <<"uploadAbandon">>
    <3>1. CASE d = c
      BY <1>3, <2>1, <3>1, Tail2 DEF Rest, Doing, At
    <3>2. CASE d # c
      <4>1. Doing(d, p, "uploadErase") /\ job'[d] = job[d]
        BY <1>3, <2>1, <3>2 DEF Doing, At, On
      <4> QED BY <1>11, <4>1 DEF ClosedOnce, Rest
    <3> QED BY <3>1, <3>2
  <2>2. ASSUME NEW d \in Clients, Doing(d, p, "move")' PROVE FALSE
    BY <1>7, <1>11, <2>2 DEF ClosedOnce, UploadSteps
  <2>3. ASSUME NEW d \in Clients, Doing(d, p, "uploadAbandon")'
        PROVE  NoData(p)' \/ \E e \in Clients : Doing(e, p, "localWrite")'
    BY <1>7, <1>9, <1>11, <2>3 DEF ClosedOnce, UploadSteps
  <2> QED BY <1>1, <2>1, <2>2, <2>3 DEF ClosedOnce
<1>12. Disturbed(p)' \/ Sound(p)'
  BY <1>1, <1>2, <1>10, <1>11 DEF Disturbed, Sound, UnitsExact
<1>13. \A q : Untouched(q)
  BY <1>1, NothingTouched
<1> QED BY <1>1, <1>2, <1>3, <1>8, <1>12, <1>13, TablesSame, BlobsKept, UploadsKept

\* A request that is accepted is a request of an upload.
LEMMA RequestShape ==
  ASSUME NEW op, NEW p \in UploadIds, NEW plan \in PlansOf(storage), NEW b \in Chunks, NEW digest,
         plan # <<"uploadBegin">>
  PROVE  /\ UploadJob(UploadRequest(op, p, plan, UploadMemory(b, digest)))
         /\ UploadRequest(op, p, plan, UploadMemory(b, digest)).p = p
         /\ UploadRequest(op, p, plan, UploadMemory(b, digest)).plan = plan
         /\ plan # <<>>
<1>1. PICK m : m = UploadMemory(b, digest)
  OBVIOUS
<1>2. MemShape(m) /\ m.chunk = b
  BY <1>1, MemoryShape
<1>3. PICK r : r = UploadRequest(op, p, plan, m)
  OBVIOUS
<1>4. JobShape(r) /\ r.p = p /\ r.plan = plan /\ r.reads = {Upload(p)} /\ r.mem = m
  BY <1>3 DEF JobShape, UploadRequest, NoJob
<1>5. plan # <<>>
  BY UploadPlanHeads
<1> QED BY <1>1, <1>2, <1>3, <1>4, <1>5 DEF UploadJob

\* One that is refused has the fields of a request.
LEMMA RefusedShape ==
  ASSUME NEW op, NEW code
  PROVE  JobShape(Refused(op, code)) /\ Refused(op, code).plan = <<>> /\ Refused(op, code).reads = {}
<1>1. PICK r : r = Refused(op, code)
  OBVIOUS
<1>2. r = [NoJob EXCEPT !.op = op, !.code = code]
  BY <1>1 DEF Refused
<1>3. JobShape(r) /\ r.plan = <<>> /\ r.reads = {}
  BY <1>2 DEF JobShape, NoJob
<1> QED BY <1>1, <1>3
\* So has one that is answered at once.
LEMMA AnsweredShape ==
  ASSUME NEW s, NEW r, NEW got, JobShape(s), s.plan = <<>>, s.reads = {}, r = [s EXCEPT !.got = got]
  PROVE  JobShape(r) /\ r.plan = <<>> /\ r.reads = {}
  BY DEF JobShape

\* GET: the length received so far is read in one step.
LEMMA StatusKeeps ==
  ASSUME UploadInv, kind = "dockerUploads", NEW c \in Clients, UploadStatus(c) PROVE UploadInv'
<1>1. PICK p \in aux.seen :
        Start(c, IF p \in DOMAIN aux.open
                 THEN [Refused("status", 204) EXCEPT !.got = [length |-> Len(aux.open[p])]]
                 ELSE NoUpload("status"))
  BY DEF UploadStatus
<1>2. CASE p \in DOMAIN aux.open
  <2>1. PICK r : r = [Refused("status", 204) EXCEPT !.got = [length |-> Len(aux.open[p])]]
    OBVIOUS
  <2>2. PICK s : s = Refused("status", 204)
    OBVIOUS
  <2>3. JobShape(s) /\ s.plan = <<>> /\ s.reads = {}
    BY <2>2, RefusedShape
  <2>4. JobShape(r) /\ r.plan = <<>> /\ r.reads = {}
    <3>1. PICK g : g = [length |-> Len(aux.open[p])]
      OBVIOUS
    <3>2. r = [s EXCEPT !.got = g]
      BY <2>1, <2>2, <3>1
    <3> QED BY <2>3, <3>2, AnsweredShape
  <2> QED BY <1>1, <1>2, <2>1, <2>4, RefusedKeeps
<1>3. CASE p \notin DOMAIN aux.open
  <2>1. PICK r : r = Refused("status", 404)
    OBVIOUS
  <2>2. JobShape(r) /\ r.plan = <<>> /\ r.reads = {}
    BY <2>1, RefusedShape
  <2> QED BY <1>1, <1>3, <2>1, <2>2, RefusedKeeps DEF NoUpload
<1> QED BY <1>2, <1>3

\* DELETE.
LEMMA CancelKeeps ==
  ASSUME UploadInv, kind = "dockerUploads", NEW c \in Clients, UploadCancel(c)
  PROVE  UploadInv'
<1>1. PICK p \in aux.seen :
        Start(c, IF p \in DOMAIN aux.open
                 THEN UploadRequest("cancel", p, <<"uploadErase", "uploadAbandon">>, UploadMemory(Blank, <<>>))
                 ELSE NoUpload("cancel"))
  BY DEF UploadCancel
<1>2. CASE p \in DOMAIN aux.open
  <2>8. p \in UploadIds
    BY DEF UploadInv, UploadTables
  <2>1. PICK r : r = UploadRequest("cancel", p, <<"uploadErase", "uploadAbandon">>, UploadMemory(Blank, <<>>))
    OBVIOUS
  <2>2. /\ <<"uploadErase", "uploadAbandon">> \in PlansOf(storage) /\ Blank \in Chunks
        /\ <<"uploadErase", "uploadAbandon">> # <<"uploadBegin">>
    BY DEF PlansOf, UploadPlans, Chunks
  <2>3. UploadJob(r) /\ r.p = p /\ r.plan = <<"uploadErase", "uploadAbandon">>
    BY <2>1, <2>2, <2>8, RequestShape
  <2> QED BY <1>1, <1>2, <2>1, <2>8, <2>3, StartKeeps
<1>3. CASE p \notin DOMAIN aux.open
  <2>1. PICK r : r = Refused("cancel", 404)
    OBVIOUS
  <2>2. JobShape(r) /\ r.plan = <<>> /\ r.reads = {}
    BY <2>1, RefusedShape
  <2> QED BY <1>1, <1>3, <2>1, <2>2, RefusedKeeps DEF NoUpload
<1> QED BY <1>2, <1>3

\* PATCH.
LEMMA ChunkKeeps ==
  ASSUME UploadInv, kind = "dockerUploads", NEW c \in Clients, UploadChunk(c)
  PROVE  UploadInv'
<1>1. PICK p \in aux.seen, b \in Bodies :
        Start(c, IF p \in DOMAIN aux.open
                 THEN UploadRequest("chunk", p, Receive \o <<"uploadAccepted">>, UploadMemory(b, <<>>))
                 ELSE NoUpload("chunk"))
  BY DEF UploadChunk
<1>2. CASE p \in DOMAIN aux.open
  <2>8. p \in UploadIds
    BY DEF UploadInv, UploadTables
  <2>1. PICK r : r = UploadRequest("chunk", p, Receive \o <<"uploadAccepted">>, UploadMemory(b, <<>>))
    OBVIOUS
  <2>2. PICK s : s = Receive \o <<"uploadAccepted">>
    OBVIOUS
  <2>3. s \in PlansOf(storage) /\ Head(s) \in {"localOpen", "spool"} /\ b \in Chunks
    BY <2>2, ReceivePlans DEF Chunks
  <2>5. s # <<"uploadBegin">>
    <3>1. Head(<<"uploadBegin">>) = "uploadBegin"
      OBVIOUS
    <3> QED BY <2>3, <3>1
  <2>4. UploadJob(r) /\ r.p = p /\ r.plan = s /\ s # <<>>
    <3>1. r = UploadRequest("chunk", p, s, UploadMemory(b, <<>>))
      BY <2>1, <2>2
    <3> QED BY <2>3, <2>5, <2>8, <3>1, RequestShape
  <2> QED BY <1>1, <1>2, <2>1, <2>3, <2>8, <2>4, StartKeeps
<1>3. CASE p \notin DOMAIN aux.open
  <2>1. PICK r : r = Refused("chunk", 404)
    OBVIOUS
  <2>2. JobShape(r) /\ r.plan = <<>> /\ r.reads = {}
    BY <2>1, RefusedShape
  <2> QED BY <1>1, <1>3, <2>1, <2>2, RefusedKeeps DEF NoUpload
<1> QED BY <1>2, <1>3

\* PUT, with or without a last chunk.
LEMMA CompleteKeeps ==
  ASSUME UploadInv, kind = "dockerUploads", NEW c \in Clients, UploadComplete(c)
  PROVE  UploadInv'
<1>1. PICK p \in aux.seen, b \in Bodies \cup {Blank}, digest \in Digests :
        Start(c, IF p \in DOMAIN aux.open
                 THEN UploadRequest("complete", p, (IF b = Blank THEN <<>> ELSE Receive)
                                      \o <<"finalize", "move", "uploadCreated">>, UploadMemory(b, digest))
                 ELSE NoUpload("complete"))
  BY DEF UploadComplete
<1>2. CASE p \in DOMAIN aux.open
  <2>8. p \in UploadIds
    BY DEF UploadInv, UploadTables
  <2>1. PICK s : s = (IF b = Blank THEN <<>> ELSE Receive) \o <<"finalize", "move", "uploadCreated">>
    OBVIOUS
  <2>2. PICK r : r = UploadRequest("complete", p, s, UploadMemory(b, digest))
    OBVIOUS
  <2>3. s \in PlansOf(storage) /\ Head(s) \in {"localOpen", "spool", "finalize"} /\ b \in Chunks
    BY <2>1, ReceivePlans DEF Chunks
  <2>5. s # <<"uploadBegin">>
    <3>1. Head(<<"uploadBegin">>) = "uploadBegin"
      OBVIOUS
    <3> QED BY <2>3, <3>1
  <2>4. UploadJob(r) /\ r.p = p /\ r.plan = s /\ s # <<>>
    BY <2>2, <2>3, <2>5, <2>8, RequestShape
  <2> QED BY <1>1, <1>2, <2>1, <2>2, <2>3, <2>8, <2>4, StartKeeps
<1>3. CASE p \notin DOMAIN aux.open
  <2>1. PICK r : r = Refused("complete", 404)
    OBVIOUS
  <2>2. JobShape(r) /\ r.plan = <<>> /\ r.reads = {}
    BY <2>1, RefusedShape
  <2> QED BY <1>1, <1>3, <2>1, <2>2, RefusedKeeps DEF NoUpload
<1> QED BY <1>2, <1>3

------------------------------------------------------------------------------
(* The steps of a request.                                                 *)

\* What a request may assume of the upload it works on.
LEMMA UploadAt ==
  ASSUME UploadInv, kind = "dockerUploads", NEW c \in Clients, NEW x, At(c, x), NEW p, p = job[c].p
  PROVE  /\ UploadJobs /\ UploadTables /\ BlobsMatchDigest
         /\ job[c].plan # <<>> /\ job[c].plan \in PlansOf(storage) /\ Head(job[c].plan) = x
         /\ p \in UploadIds /\ On(c, p) /\ Doing(c, p, x) /\ job[c].reads = {Upload(p)}
         /\ MemShape(job[c].mem) /\ job[c].mem.chunk \in Chunks
         /\ Fresh(p) /\ (Disturbed(p) \/ Sound(p))
<1>1. UploadJobs /\ UploadTables /\ BlobsMatchDigest
  BY DEF UploadInv
<1>2. UploadJob(job[c]) /\ job[c].plan # <<>> /\ Head(job[c].plan) = x
  BY <1>1 DEF UploadJobs, At
<1>3. p \in UploadIds /\ job[c].plan \in PlansOf(storage) /\ job[c].reads = {Upload(p)}
      /\ MemShape(job[c].mem) /\ job[c].mem.chunk \in Chunks
  BY <1>2 DEF UploadJob
<1>4. Fresh(p) /\ (Disturbed(p) \/ Sound(p))
  BY <1>3 DEF UploadInv
<1> QED BY <1>1, <1>2, <1>3, <1>4 DEF On, Doing

\* The other requests stay where they are.
LEMMA OthersFinished ==
  ASSUME NEW c \in Clients, Finishes(c), NEW p
  PROVE  /\ ~On(c, p)' /\ \A x : ~Doing(c, p, x)'
         /\ \A d \in Clients \ {c} : /\ (On(d, p)' <=> On(d, p)) /\ job'[d] = job[d]
                                     /\ \A x : Doing(d, p, x)' <=> Doing(d, p, x)
  BY DEF Finishes, On, Doing, At
\* The other requests on an upload when one goes on.
LEMMA OthersProceeded ==
  ASSUME NEW c \in Clients, NEW plan, NEW mem, Proceeds(c, plan, mem), NEW p, p = job[c].p, plan # <<>>
  PROVE  /\ On(c, p)' /\ \A x : Doing(c, p, x)' <=> x = Head(plan)
         /\ \A d \in Clients \ {c} : /\ (On(d, p)' <=> On(d, p)) /\ job'[d] = job[d]
                                     /\ \A x : Doing(d, p, x)' <=> Doing(d, p, x)
  BY DEF Proceeds, On, Doing, At

\* An upload that is begun stays so.
LEMMA FreshStays ==
  ASSUME NEW c \in Clients, NEW p, Fresh(p), On(c, p), ~At(c, "uploadBegin"), aux'.seen = aux.seen,
         \A d \in Clients : Doing(d, p, "uploadBegin")' => Doing(d, p, "uploadBegin")
  PROVE  Fresh(p)' /\ p \in aux.seen
  BY DEF Fresh

\* A request that ends with its answer.
LEMMA AnswerFresh ==
  ASSUME NEW c \in Clients, NEW p, Fresh(p), Finishes(c), aux'.seen = aux.seen, NoData(p) => NoData(p)'
  PROVE  Fresh(p)'
<1>1. /\ ~On(c, p)' /\ \A x : ~Doing(c, p, x)'
      /\ \A d \in Clients \ {c} : /\ (On(d, p)' <=> On(d, p)) /\ job'[d] = job[d]
                                  /\ \A x : Doing(d, p, x)' <=> Doing(d, p, x)
  BY OthersFinished
<1>2. \A d \in Clients : On(d, p)' => On(d, p) /\ job'[d] = job[d]
  BY <1>1
<1>3. \A d \in Clients : \A x : Doing(d, p, x)' => Doing(d, p, x)
  BY <1>1
<1> QED BY <1>2, <1>3 DEF Fresh, At

\* An answer that follows no half of a step leaves the upload sound.
LEMMA AnswerSound ==
  ASSUME NEW c \in Clients, NEW p, Sound(p), Finishes(c), aux' = aux, store' = store, storage' = storage,
         \A x \in {"hash", "uploadErase", "move", "localWrite", "uploadAbandon"} : ~Doing(c, p, x)
  PROVE  Sound(p)'
<1>1. /\ ~On(c, p)' /\ \A x : ~Doing(c, p, x)'
      /\ \A d \in Clients \ {c} : /\ (On(d, p)' <=> On(d, p)) /\ job'[d] = job[d]
                                  /\ \A x : Doing(d, p, x)' <=> Doing(d, p, x)
  BY OthersFinished
<1>2. \A d \in Clients : On(d, p)' => On(d, p) /\ job'[d] = job[d] /\ Rest(d)' = Rest(d)
  BY <1>1 DEF Rest
<1>3. \A d \in Clients : \A x \in {"hash", "uploadErase", "move", "localWrite", "uploadAbandon"} :
        Doing(d, p, x)' <=> Doing(d, p, x)
  BY <1>1
<1>4. /\ DataOf(p)' = DataOf(p) /\ NoData(p)' = NoData(p) /\ SpoiltDigest(p)' = SpoiltDigest(p)
      /\ aux' = aux /\ store' = store
  BY DEF DataOf, NoData, LocalData, SpoiltDigest
<1>5. \A d \in Clients : \A x : Doing(d, p, x)' => On(d, p)'
  BY DEF Doing
<1>6. HashFollows(p)'
  <2>1. /\ p \in DOMAIN aux'.open
        /\ \A d \in Clients : ~(Doing(d, p, "hash")') /\ ~(Doing(d, p, "uploadAbandon")')
        => DataOf(p)' = aux'.open[p]
    BY <1>3, <1>4 DEF HashFollows, Sound
  <2>2. ASSUME NEW d \in Clients, Doing(d, p, "hash")'
        PROVE  p \in DOMAIN aux'.open /\ DataOf(p)' = Append(aux'.open[p], job'[d].mem.chunk)
    BY <1>2, <1>3, <1>4, <1>5, <2>2 DEF HashFollows, Sound
  <2>3. ASSUME NEW d \in Clients, Doing(d, p, "localWrite")'
        PROVE  job'[d].mem.fd = "upload" /\ UploadFile(p) \in DOMAIN store'
    BY <1>2, <1>3, <1>4, <1>5, <2>3 DEF HashFollows, Sound
  <2> QED BY <2>1, <2>2, <2>3 DEF HashFollows
<1>7. ClosedOnce(p)'
  BY <1>2, <1>3, <1>4, <1>5 DEF ClosedOnce, Sound
<1>8. UnitsExact(p)'
  BY DEF UnitsExact, Sound
<1> QED BY <1>6, <1>7, <1>8 DEF Sound

\* The open upload is entered in the table.
LEMMA BeginsKeeps ==
  ASSUME UploadInv, kind = "dockerUploads", NEW c \in Clients, UploadBegins(c) PROVE UploadInv'
<1>1. PICK p : p = job[c].p
  OBVIOUS
<1>2. /\ kind' = kind /\ storage' = storage /\ store' = store /\ raced' = raced /\ broken' = broken
      /\ aux' = [aux EXCEPT !.open = Put(@, p, <<>>), !.seen = @ \cup {p}]
      /\ Reply(c, 202, Nothing) /\ At(c, "uploadBegin")
  BY <1>1 DEF UploadBegins, worldVars, historyVars
<1>3. /\ UploadJobs /\ UploadTables /\ BlobsMatchDigest /\ p \in UploadIds
      /\ Doing(c, p, "uploadBegin") /\ Fresh(p)
  BY <1>1, <1>2, UploadAt
<1>4. Finishes(c)
  BY <1>2, <1>3, ReplyFinishes
<1>5. p \notin aux.seen /\ NoData(p) /\ \A d \in Clients : On(d, p) => d = c
  BY <1>3 DEF Fresh
<1>6. /\ AuxShape(aux') /\ aux'.open = Put(aux.open, p, <<>>) /\ aux'.seen = aux.seen \cup {p}
      /\ aux'.staged = aux.staged /\ aux'.blobs = aux.blobs /\ aux'.lost = aux.lost
      /\ aux'.origin = aux.origin
  BY <1>2, <1>3 DEF UploadTables, AuxShape
<1>7. /\ DOMAIN aux'.open = DOMAIN aux.open \cup {p} /\ aux'.open[p] = <<>>
      /\ \A q \in DOMAIN aux.open \ {p} : aux'.open[q] = aux.open[q]
  BY <1>6 DEF Put
<1>8. UploadTables'
  BY <1>2, <1>3, <1>6, <1>7 DEF UploadTables, StagedEntry
<1>9. \A d \in Clients : ~(On(d, p)') /\ \A x : ~(Doing(d, p, x)')
  <2>1. /\ ~On(c, p)' /\ \A d \in Clients \ {c} : On(d, p)' <=> On(d, p)
    BY <1>4, OthersFinished
  <2>2. \A d \in Clients : ~(On(d, p)')
    BY <1>5, <2>1
  <2> QED BY <2>2 DEF Doing
<1>10. NoData(p)' /\ DataOf(p)' = <<>>
  BY <1>2, <1>5, <1>6 DEF NoData, DataOf, LocalData
<1>11. Fresh(p)'
  BY <1>6, <1>9 DEF Fresh
<1>12. Sound(p)'
  BY <1>7, <1>9, <1>10 DEF Sound, HashFollows, ClosedOnce, UnitsExact, NoData
<1>13. ASSUME NEW q \in UploadIds, q # p PROVE Untouched(q) /\ SameOn(q)
  <2>1. Untouched(q)
    BY <1>2, <1>6, <1>7, <1>13 DEF Untouched
  <2>2. SameOn(q)
    BY <1>1, <1>4, <1>13, SameElsewhere
  <2> QED BY <2>1, <2>2
<1>14. BlobsMatchDigest' /\ BlobsStay
  BY <1>2, <1>3, <1>6, BlobsKept
<1>15. UploadJobs'
  BY <1>2, <1>3, <1>4, FinishedJobs
<1> QED BY <1>2, <1>8, <1>11, <1>12, <1>13, <1>14, <1>15, UploadsKept

\* A request that ends and leaves the storage and the tables as they are.
LEMMA EndKeeps ==
  ASSUME UploadInv, kind = "dockerUploads", NEW c \in Clients, NEW x, At(c, x), Finishes(c),
         kind' = kind, storage' = storage, store' = store, aux' = aux,
         raced \subseteq raced', broken \subseteq broken', NEW p, p = job[c].p,
         \/ Disturbed(p)'
         \/ x \notin {"hash", "uploadErase", "move", "localWrite", "uploadAbandon"}
         \/ Sound(p) => Sound(p)'
  PROVE  UploadInv'
<1>2. /\ UploadJobs /\ UploadTables /\ BlobsMatchDigest /\ p \in UploadIds
      /\ Doing(c, p, x) /\ Fresh(p) /\ (Disturbed(p) \/ Sound(p))
  BY UploadAt
<1>3. Fresh(p)'
  <2>1. NoData(p)' = NoData(p)
    BY DEF NoData
  <2> QED BY <1>2, <2>1, AnswerFresh
<1>4. Disturbed(p)' \/ Sound(p)'
  <2>1. CASE Disturbed(p)
    BY <2>1 DEF Disturbed
  <2>2. CASE Sound(p) /\ x \notin {"hash", "uploadErase", "move", "localWrite", "uploadAbandon"}
    <3>1. \A y \in {"hash", "uploadErase", "move", "localWrite", "uploadAbandon"} : ~Doing(c, p, y)
      BY <1>2, <2>2 DEF Doing, At
    <3> QED BY <2>2, <3>1, AnswerSound
  <2> QED BY <1>2, <2>1, <2>2
<1>5. UploadJobs' /\ UploadTables'
  BY <1>2, FinishedJobs, TablesSame
<1>6. BlobsMatchDigest' /\ BlobsStay
  BY <1>2, BlobsKept
<1>7. ASSUME NEW q \in UploadIds, q # p PROVE Untouched(q) /\ SameOn(q)
  BY <1>7, NothingTouched, SameElsewhere
<1> QED BY <1>3, <1>4, <1>5, <1>6, <1>7, UploadsKept

\* The answers.
LEMMA AnswerKeeps ==
  ASSUME UploadInv, kind = "dockerUploads", NEW c \in Clients, UploadAnswer(c) PROVE UploadInv'
<1>1. PICK step \in {<<"uploadAccepted", 202>>, <<"uploadCreated", 201>>, <<"uploadMismatch", 400>>} :
        At(c, step[1]) /\ Reply(c, step[2], Nothing)
  BY DEF UploadAnswer
<1>2. /\ kind' = kind /\ storage' = storage /\ store' = store /\ aux' = aux
      /\ raced' = raced /\ broken' = broken
  BY DEF UploadAnswer, worldVars, historyVars
<1>3. PICK x \in {"uploadAccepted", "uploadCreated", "uploadMismatch"} : x = step[1]
  BY <1>1
<1>4. PICK p : p = job[c].p
  OBVIOUS
<1>5. At(c, x)
  BY <1>1, <1>3
<1>6. UploadJobs
  BY DEF UploadInv
<1>7. Finishes(c)
  BY <1>1, <1>6, ReplyFinishes
<1> QED BY <1>2, <1>3, <1>4, <1>5, <1>7, EndKeeps

------------------------------------------------------------------------------
(* A request that goes on.                                                 *)

\* Two uploads have two files.
LEMMA UploadFiles ==
  ASSUME NEW p, NEW q, UploadFile(p) = UploadFile(q) PROVE p = q
<1>1. Dir(p) = Dir(q)
  BY DEF UploadFile
<1> QED BY <1>1 DEF Dir

\* A disturbed upload stays disturbed.
LEMMA DisturbedStays ==
  ASSUME NEW p, raced \subseteq raced', broken \subseteq broken', Disturbed(p)
  PROVE  Disturbed(p)'
  BY DEF Disturbed

\* A fault disturbs the upload the request works on.
LEMMA FaultDisturbs ==
  ASSUME NEW c \in Clients, NEW p, job[c].reads = {Upload(p)}, Fault(c)
  PROVE  broken \subseteq broken' /\ Disturbed(p)'
  BY DEF Fault, Disturbed

\* Requests stay requests of uploads when one goes on with any plan of uploads.
LEMMA ProceededTo ==
  ASSUME UploadJobs, NEW c \in Clients, job[c].plan # <<>>, NEW plan \in PlansOf(storage),
         plan # <<"uploadBegin">>, NEW mem, MemShape(mem), mem.chunk \in Chunks,
         Proceeds(c, plan, mem), storage' = storage
  PROVE  UploadJobs'
<1>1. \A d \in Clients : UploadJob(job[d])
  BY DEF UploadJobs
<1>2. UploadJob(job[c])'
  <2>1. PICK j : j = job'[c]
    OBVIOUS
  <2>2. JobShape(j) /\ j.plan = plan /\ j.op = job[c].op /\ j.p = job[c].p
        /\ j.reads = job[c].reads /\ j.mem = mem
    BY <2>1 DEF Proceeds
  <2>3. plan # <<>>
    BY UploadPlanHeads
  <2>4. job[c].p \in UploadIds /\ job[c].reads = {Upload(job[c].p)}
    BY <1>1 DEF UploadJob
  <2> QED BY <2>1, <2>2, <2>3, <2>4 DEF UploadJob
<1>3. \A d \in Clients \ {c} : UploadJob(job[d])'
  BY <1>1 DEF UploadJob, Proceeds
<1> QED BY <1>2, <1>3 DEF UploadJobs, Proceeds

\* Where a request goes that has more to do.
LEMMA RestPlan ==
  ASSUME UploadJobs, NEW c \in Clients, job[c].plan # <<>>, Head(job[c].plan) \notin Lasts
  PROVE  /\ Rest(c) \in PlansOf(storage) /\ Rest(c) # <<>> /\ Onward(storage, job[c].plan)
         /\ Head(Rest(c)) \in UploadSteps
<1>1. job[c].plan \in PlansOf(storage)
  BY DEF UploadJobs, UploadJob
<1>2. Tail(job[c].plan) \in PlansOf(storage) /\ Onward(storage, job[c].plan)
  BY <1>1, UploadPlanRest
<1> QED BY <1>2, UploadPlanHeads DEF Rest

\* The request goes on with less to do and other descriptors or permits in memory.
LEMMA MemoryProceeds ==
  ASSUME UploadJobs, NEW c \in Clients, NEW plan, NEW mem,
         job' = [job EXCEPT ![c] = [job[c] EXCEPT !.plan = plan, !.mem = mem]]
  PROVE  Proceeds(c, plan, mem)
<1>1. PICK j : j = job[c]
  OBVIOUS
<1>2. JobShape(j)
  BY <1>1 DEF UploadJobs, UploadJob
<1>3. PICK k : k = [j EXCEPT !.plan = plan, !.mem = mem]
  OBVIOUS
<1>4. JobShape(k) /\ k.plan = plan /\ k.op = j.op /\ k.p = j.p /\ k.reads = j.reads /\ k.mem = mem
  BY <1>2, <1>3 DEF JobShape
<1>5. job' = [job EXCEPT ![c] = k]
  BY <1>1, <1>3
<1>6. job = [d \in Clients |-> job[d]]
  BY DEF UploadJobs
<1>7. job' = [d \in Clients |-> job'[d]] /\ job'[c] = k /\ \A d \in Clients \ {c} : job'[d] = job[d]
  BY <1>5, <1>6
<1> QED BY <1>1, <1>4, <1>7 DEF Proceeds

\* The memory after the file is opened.
LEMMA OpenedMemory ==
  ASSUME UploadJobs, NEW c \in Clients, MemShape(job[c].mem),
         NEW plan, job' = [job EXCEPT ![c].plan = plan, ![c].mem.fd = "upload"]
  PROVE  \E mem : /\ MemShape(mem) /\ mem.chunk = job[c].mem.chunk /\ mem.fd = "upload"
                  /\ Proceeds(c, plan, mem)
<1>1. PICK m : m = [job[c].mem EXCEPT !.fd = "upload"]
  OBVIOUS
<1>2. MemShape(m) /\ m.chunk = job[c].mem.chunk /\ m.fd = "upload"
  BY <1>1 DEF MemShape
<1>3. job' = [job EXCEPT ![c] = [job[c] EXCEPT !.plan = plan, !.mem = m]]
  <2>1. JobShape(job[c]) /\ job = [d \in Clients |-> job[d]]
    BY DEF UploadJobs, UploadJob
  <2> QED BY <1>1, <2>1 DEF JobShape
<1> QED BY <1>2, <1>3, MemoryProceeds

\* The memory after the body is spooled.
LEMMA SpooledMemory ==
  ASSUME UploadJobs, NEW c \in Clients, MemShape(job[c].mem),
         NEW plan, NEW n, job' = [job EXCEPT ![c].plan = plan, ![c].mem.spool = n]
  PROVE  \E mem : MemShape(mem) /\ mem.chunk = job[c].mem.chunk /\ Proceeds(c, plan, mem)
<1>1. PICK m : m = [job[c].mem EXCEPT !.spool = n]
  OBVIOUS
<1>2. MemShape(m) /\ m.chunk = job[c].mem.chunk
  BY <1>1 DEF MemShape
<1>3. job' = [job EXCEPT ![c] = [job[c] EXCEPT !.plan = plan, !.mem = m]]
  <2>1. JobShape(job[c]) /\ job = [d \in Clients |-> job[d]]
    BY DEF UploadJobs, UploadJob
  <2> QED BY <1>1, <2>1 DEF JobShape
<1> QED BY <1>2, <1>3, MemoryProceeds

\* A request alone on its upload.
LEMMA AloneProceeds ==
  ASSUME NEW c \in Clients, NEW plan, NEW mem, Proceeds(c, plan, mem), NEW p, p = job[c].p, plan # <<>>,
         \A d \in Clients : On(d, p) => d = c
  PROVE  \A d \in Clients : /\ On(d, p)' <=> d = c
                            /\ \A x : Doing(d, p, x)' <=> d = c /\ x = Head(plan)
<1>1. /\ On(c, p)' /\ \A x : Doing(c, p, x)' <=> x = Head(plan)
      /\ \A d \in Clients \ {c} : On(d, p)' <=> On(d, p)
  BY OthersProceeded
<1>2. \A d \in Clients : On(d, p)' <=> d = c
  BY <1>1
<1> QED BY <1>1, <1>2 DEF Doing
\* When it ends nobody is left on the upload.
LEMMA AloneFinishes ==
  ASSUME NEW c \in Clients, Finishes(c), NEW p, \A d \in Clients : On(d, p) => d = c
  PROVE  \A d \in Clients : ~(On(d, p)') /\ \A x : ~(Doing(d, p, x)')
<1>1. ~(On(c, p)') /\ \A d \in Clients \ {c} : On(d, p)' <=> On(d, p)
  BY OthersFinished
<1>2. \A d \in Clients : ~(On(d, p)')
  BY <1>1
<1> QED BY <1>2 DEF Doing

\* The rest of what every step of a request that goes on shows.
LEMMA ProceedKeeps ==
  ASSUME UploadInv, kind = "dockerUploads", NEW c \in Clients, NEW x, At(c, x), NEW p, p = job[c].p,
         x \notin Lasts, NEW mem, MemShape(mem), mem.chunk \in Chunks, Proceeds(c, Rest(c), mem),
         kind' = kind, storage' = storage, raced \subseteq raced', broken \subseteq broken',
         BlobsStay, BlobsMatchDigest', UploadTables', aux'.seen = aux.seen,
         \A q \in UploadIds \ {p} : Untouched(q), Sound(p)' \/ Disturbed(p)'
  PROVE  UploadInv'
<1>1. /\ UploadJobs /\ job[c].plan # <<>> /\ Head(job[c].plan) = x
      /\ On(c, p) /\ Doing(c, p, x) /\ Fresh(p)
  BY UploadAt
<1>2. /\ Rest(c) \in PlansOf(storage) /\ Rest(c) # <<>> /\ Onward(storage, job[c].plan)
      /\ Head(Rest(c)) \in UploadSteps
  BY <1>1, RestPlan
<1>3. UploadJobs'
  BY <1>1, ProceededJobs
<1>4. Head(Rest(c)) # "uploadBegin"
  <2>1. CASE x = "uploadErase"
    <3>1. Rest(c) = <<"uploadAbandon">> \/ Rest(c) = <<"uploadMismatch">>
      BY <1>1, <1>2, <2>1 DEF Onward, Rest
    <3> QED BY <3>1
  <2>2. CASE x = "finalize"
    <3>1. Rest(c) = <<"move", "uploadCreated">>
      BY <1>1, <1>2, <2>2 DEF Onward, Rest
    <3> QED BY <3>1
  <2>3. CASE x = "move"
    <3>1. Rest(c) = <<"uploadCreated">>
      BY <1>1, <1>2, <2>3 DEF Onward, Rest
    <3> QED BY <3>1
  <2>4. CASE x \in {"localOpen", "localWrite", "spool", "stagedAppend", "hash"}
    BY <1>1, <1>2, <2>4 DEF Onward, Rest
  <2>5. x \in UploadSteps
    BY <1>1, UploadPlanHeads DEF UploadJobs, UploadJob
  <2> QED BY <2>1, <2>2, <2>3, <2>4, <2>5 DEF UploadSteps, Lasts
<1>5. \A d \in Clients : Doing(d, p, "uploadBegin")' => Doing(d, p, "uploadBegin")
  <2>1. \A y : Doing(c, p, y)' <=> y = Head(Rest(c))
    BY <1>2, OthersProceeded
  <2>2. \A d \in Clients \ {c} : Doing(d, p, "uploadBegin")' <=> Doing(d, p, "uploadBegin")
    BY <1>2 DEF Proceeds, Doing, On, At
  <2> QED BY <1>4, <2>1, <2>2
<1>6. ~At(c, "uploadBegin")
  BY <1>1 DEF At, Lasts
<1>7. Fresh(p)'
  BY <1>1, <1>5, <1>6, FreshStays
<1>8. ASSUME NEW q \in UploadIds, q # p PROVE Untouched(q) /\ SameOn(q)
  BY <1>8, SameElsewhere
<1> QED BY <1>3, <1>7, <1>8, UploadsKept

\* The same for a step that ends its request.
LEMMA FinishKeeps ==
  ASSUME UploadInv, kind = "dockerUploads", NEW c \in Clients, NEW x, At(c, x), NEW p, p = job[c].p,
         Finishes(c), kind' = kind, storage' = storage, raced \subseteq raced', broken \subseteq broken',
         BlobsStay, BlobsMatchDigest', UploadTables', aux'.seen = aux.seen, x # "uploadBegin",
         \A q \in UploadIds \ {p} : Untouched(q), Sound(p)' \/ Disturbed(p)'
  PROVE  UploadInv'
<1>1. UploadJobs /\ On(c, p) /\ Fresh(p) /\ Head(job[c].plan) = x
  BY UploadAt
<1>2. \A d \in Clients : Doing(d, p, "uploadBegin")' => Doing(d, p, "uploadBegin")
  BY OthersFinished
<1>3. Fresh(p)'
  BY <1>1, <1>2, FreshStays DEF At
<1>4. UploadJobs'
  BY <1>1, FinishedJobs
<1>5. ASSUME NEW q \in UploadIds, q # p PROVE Untouched(q) /\ SameOn(q)
  BY <1>5, SameElsewhere
<1> QED BY <1>3, <1>4, <1>5, UploadsKept

------------------------------------------------------------------------------
(* The chunks of an upload.                                                *)

\* What changes an upload without another request on it, and without a fault.
LEMMA Undisturbed ==
  ASSUME UploadJobs, NEW c \in Clients, NEW p, Touch(c, {Upload(p)}), broken' = broken,
         Disturbed(p) \/ Sound(p), ~(Disturbed(p)')
  PROVE  Sound(p) /\ \A d \in Clients : On(d, p) => d = c
<1>1. raced \subseteq raced' /\ Upload(p) \notin raced'
  BY AloneAfterTouch DEF Disturbed
<1>2. ~Disturbed(p)
  BY <1>1 DEF Disturbed
<1>3. \A d \in Clients : On(d, p) => d = c
  BY <1>1, AloneAfterTouch
<1> QED BY <1>2, <1>3

\* A chunk goes into the running hash.
LEMMA HashedTables ==
  ASSUME NEW p, NEW b
  PROVE  /\ DOMAIN Hashed(p, b) = DOMAIN aux.open
         /\ p \in DOMAIN aux.open => Hashed(p, b)[p] = Append(aux.open[p], b)
         /\ \A q \in DOMAIN aux.open \ {p} : Hashed(p, b)[q] = aux.open[q]
  BY DEF Hashed

\* A change of the hashes only.
LEMMA OpenChanged ==
  ASSUME UploadTables, NEW open, DOMAIN open \subseteq DOMAIN aux.open,
         aux' = [aux EXCEPT !.open = open], store' = store, storage' = storage
  PROVE  /\ UploadTables' /\ aux'.open = open /\ aux'.staged = aux.staged /\ aux'.blobs = aux.blobs
         /\ aux'.seen = aux.seen /\ aux'.lost = aux.lost /\ aux'.origin = aux.origin
         /\ \A p : DataOf(p)' = DataOf(p) /\ (NoData(p)' <=> NoData(p))
<1>1. /\ AuxShape(aux') /\ aux'.open = open /\ aux'.staged = aux.staged /\ aux'.blobs = aux.blobs
      /\ aux'.seen = aux.seen /\ aux'.lost = aux.lost /\ aux'.origin = aux.origin
  BY DEF UploadTables, AuxShape
<1>2. UploadTables'
  BY <1>1 DEF UploadTables, StagedEntry
<1> QED BY <1>1, <1>2 DEF DataOf, NoData, LocalData

\* Opening the file of the upload.
LEMMA LocalOpenKeeps ==
  ASSUME UploadInv, kind = "dockerUploads", NEW c \in Clients, LocalOpen(c) PROVE UploadInv'
<1>1. PICK p : p = job[c].p
  OBVIOUS
<1>2. /\ kind' = kind /\ storage' = storage /\ aux' = aux /\ raced' = raced /\ broken' = broken
      /\ store' = Put(store, UploadFile(p), LocalData(p))
      /\ At(c, "localOpen")
      /\ job' = [job EXCEPT ![c].plan = Rest(c), ![c].mem.fd = "upload"]
  BY <1>1 DEF LocalOpen, worldVars, historyVars
<1>3. /\ UploadJobs /\ UploadTables /\ BlobsMatchDigest /\ p \in UploadIds /\ job[c].plan # <<>>
      /\ On(c, p) /\ Doing(c, p, "localOpen") /\ Head(job[c].plan) = "localOpen"
      /\ MemShape(job[c].mem) /\ job[c].mem.chunk \in Chunks /\ Fresh(p) /\ (Disturbed(p) \/ Sound(p))
  BY <1>1, <1>2, UploadAt
<1>4. /\ Rest(c) \in PlansOf(storage) /\ Rest(c) # <<>>
      /\ storage = "local" /\ Head(Rest(c)) = "localWrite"
  BY <1>3, RestPlan DEF Lasts, Onward, Rest
<1>5. PICK mem : MemShape(mem) /\ mem.chunk \in Chunks /\ mem.fd = "upload" /\ Proceeds(c, Rest(c), mem)
  BY <1>2, <1>3, OpenedMemory
<1>6. /\ DOMAIN store' = DOMAIN store \cup {UploadFile(p)} /\ store'[UploadFile(p)] = LocalData(p)
      /\ \A f \in DOMAIN store \ {UploadFile(p)} : store'[f] = store[f]
  BY <1>2 DEF Put
<1>7. ASSUME NEW q \in UploadIds \ {p} PROVE Untouched(q)
  <2>1. UploadFile(q) # UploadFile(p)
    BY <1>7, UploadFiles
  <2> QED BY <1>2, <1>6, <2>1 DEF Untouched
<1>8. DataOf(p)' = DataOf(p) /\ UploadFile(p) \in DOMAIN store'
  BY <1>2, <1>4, <1>6 DEF DataOf, LocalData
<1>9. /\ On(c, p)' /\ \A x : Doing(c, p, x)' <=> x = "localWrite"
      /\ \A d \in Clients \ {c} : /\ (On(d, p)' <=> On(d, p)) /\ job'[d] = job[d]
                                  /\ \A x : Doing(d, p, x)' <=> Doing(d, p, x)
  <2>1. On(c, p)' /\ \A x : Doing(c, p, x)' <=> x = "localWrite"
    <3>1. job'[c].plan = Rest(c) /\ job'[c].p = p
      BY <1>1, <1>5 DEF Proceeds
    <3> QED BY <1>4, <3>1 DEF Doing, On, At
  <2>2. \A d \in Clients \ {c} : (On(d, p)' <=> On(d, p)) /\ job'[d] = job[d]
    BY <1>5 DEF Proceeds, On
  <2>3. ASSUME NEW d \in Clients \ {c}, NEW x PROVE Doing(d, p, x)' <=> Doing(d, p, x)
    BY <2>2 DEF Doing, At
  <2> QED BY <2>1, <2>2, <2>3
<1>10. ASSUME Sound(p) PROVE Sound(p)'
  <2>1. p \in DOMAIN aux.open
    BY <1>3, <1>10 DEF Sound, ClosedOnce, Closers
  <2>2. \A d \in Clients : \A x \in {"hash", "uploadErase", "move", "uploadAbandon"} :
          Doing(d, p, x)' <=> Doing(d, p, x)
    BY <1>3, <1>9 DEF Doing, At
  <2>3. HashFollows(p)'
    <3>1. ASSUME \A d \in Clients : ~(Doing(d, p, "hash")') /\ ~(Doing(d, p, "uploadAbandon")')
          PROVE  DataOf(p)' = aux'.open[p]
      BY <1>2, <1>8, <1>10, <2>1, <2>2, <3>1 DEF Sound, HashFollows
    <3>2. ASSUME NEW d \in Clients, Doing(d, p, "hash")'
          PROVE  p \in DOMAIN aux'.open /\ DataOf(p)' = Append(aux'.open[p], job'[d].mem.chunk)
      <4>1. d # c
        BY <1>9, <3>2
      <4> QED BY <1>2, <1>8, <1>9, <1>10, <2>2, <3>2, <4>1 DEF Sound, HashFollows
    <3>3. ASSUME NEW d \in Clients, Doing(d, p, "localWrite")' PROVE job'[d].mem.fd = "upload"
      <4>1. CASE d = c
        BY <1>5, <4>1 DEF Proceeds
      <4>2. CASE d # c
        BY <1>9, <1>10, <3>3, <4>2 DEF Sound, HashFollows
      <4> QED BY <4>1, <4>2
    <3> QED BY <1>8, <3>1, <3>2, <3>3 DEF HashFollows
  <2>4. ClosedOnce(p)'
    <3>1. ASSUME NEW d \in Clients, Doing(d, p, "uploadErase")' PROVE Rest(d)' = <<"uploadAbandon">>
      <4>1. d # c /\ Doing(d, p, "uploadErase")
        BY <1>9, <2>2, <3>1
      <4> QED BY <1>9, <1>10, <2>1, <4>1 DEF Sound, ClosedOnce, Rest
    <3>2. ASSUME NEW d \in Clients, Doing(d, p, "move")' PROVE FALSE
      BY <1>10, <2>1, <2>2, <3>2 DEF Sound, ClosedOnce
    <3>3. Doing(c, p, "localWrite")'
      BY <1>9
    <3> QED BY <1>2, <2>1, <3>1, <3>2, <3>3 DEF ClosedOnce
  <2>5. UnitsExact(p)'
    BY <1>2, <1>10 DEF Sound, UnitsExact
  <2> QED BY <2>3, <2>4, <2>5 DEF Sound
<1>11. Sound(p)' \/ Disturbed(p)'
  BY <1>2, <1>3, <1>10 DEF Disturbed
<1>12. UploadTables'
  BY <1>2, <1>3, <1>4 DEF UploadTables, AuxShape, StagedEntry
<1>13. BlobsMatchDigest' /\ BlobsStay
  BY <1>2, <1>3, BlobsKept
<1> QED BY <1>1, <1>2, <1>5, <1>7, <1>11, <1>12, <1>13, ProceedKeeps DEF Lasts

\* Between two steps an upload that is open has the data that were hashed.
LEMMA QuietSound ==
  ASSUME NEW p, p \in DOMAIN aux'.open, DataOf(p)' = aux'.open[p], UnitsExact(p)',
         \A d \in Clients : \A x \in {"hash", "uploadErase", "move", "localWrite", "uploadAbandon"} :
            ~(Doing(d, p, x)')
  PROVE  Sound(p)'
<1>1. HashFollows(p)'
  BY DEF HashFollows
<1>2. ClosedOnce(p)'
  BY DEF ClosedOnce
<1> QED BY <1>1, <1>2 DEF Sound

\* Hash, then write: the file has the chunk when the write succeeds.
LEMMA LocalWriteKeeps ==
  ASSUME UploadInv, kind = "dockerUploads", NEW c \in Clients, LocalWrite(c) PROVE UploadInv'
<1>1. PICK p, b : p = job[c].p /\ b = job[c].mem.chunk
  OBVIOUS
<1>2. At(c, "localWrite") /\ kind' = kind /\ storage' = storage
  BY DEF LocalWrite, worldVars
<1>3. /\ UploadJobs /\ UploadTables /\ BlobsMatchDigest /\ p \in UploadIds /\ job[c].plan # <<>>
      /\ On(c, p) /\ Doing(c, p, "localWrite") /\ Head(job[c].plan) = "localWrite"
      /\ MemShape(job[c].mem) /\ job[c].mem.chunk \in Chunks /\ Fresh(p) /\ (Disturbed(p) \/ Sound(p))
      /\ job[c].reads = {Upload(p)}
  BY <1>1, <1>2, UploadAt
<1>4. PICK open : open = Hashed(p, b)
  OBVIOUS
<1>5. /\ DOMAIN open = DOMAIN aux.open
      /\ p \in DOMAIN aux.open => open[p] = Append(aux.open[p], b)
      /\ \A q \in DOMAIN aux.open \ {p} : open[q] = aux.open[q]
  BY <1>4, HashedTables
<1>6. /\ Rest(c) \in PlansOf(storage) /\ Rest(c) # <<>>
      /\ storage = "local" /\ Head(Rest(c)) \in {"uploadAccepted", "finalize"}
  BY <1>3, RestPlan DEF Lasts, Onward, Rest
<1>7. ASSUME LocalAppended(c), Touch(c, {Upload(p)}), Advance(c), broken' = broken PROVE UploadInv'
  <2>1. Proceeds(c, Rest(c), job[c].mem)
    BY <1>3, <1>7, AdvanceProceeds
  <2>2. raced \subseteq raced'
    BY <1>3, <1>7, AloneAfterTouch
  <2>3. /\ AuxShape(aux') /\ aux'.open = open /\ aux'.staged = aux.staged /\ aux'.seen = aux.seen
        /\ aux'.lost = aux.lost /\ aux'.origin = aux.origin
        /\ job[c].mem.fd # "blob" => aux'.blobs = aux.blobs
        /\ DOMAIN aux'.blobs = DOMAIN aux.blobs
        /\ \A d \in DOMAIN aux.blobs : aux.origin[d] # p => aux'.blobs[d] = aux.blobs[d]
    <3>1. AuxShape(aux)
      BY <1>3 DEF UploadTables
    <3>2. CASE job[c].mem.fd = "upload"
      BY <1>1, <1>4, <1>7, <3>1, <3>2 DEF LocalAppended, AuxShape
    <3>3. CASE job[c].mem.fd = "blob"
      <4>1. PICK blobs : blobs = [d \in DOMAIN aux.blobs |->
                          IF aux.origin[d] = p THEN Append(aux.blobs[d], b) ELSE aux.blobs[d]]
        OBVIOUS
      <4>2. aux' = [aux EXCEPT !.open = open, !.blobs = blobs]
        BY <1>1, <1>4, <1>7, <3>3, <4>1 DEF LocalAppended
      <4>3. /\ DOMAIN blobs = DOMAIN aux.blobs
            /\ \A d \in DOMAIN aux.blobs : aux.origin[d] # p => blobs[d] = aux.blobs[d]
        BY <4>1
      <4> QED BY <3>1, <3>3, <4>2, <4>3 DEF AuxShape
    <3>4. CASE job[c].mem.fd \notin {"upload", "blob"}
      BY <1>1, <1>4, <1>7, <3>1, <3>4 DEF LocalAppended, AuxShape
    <3> QED BY <3>2, <3>3, <3>4
  <2>4. /\ DOMAIN store' = DOMAIN store
        /\ \A f \in DOMAIN store \ {UploadFile(p)} : store'[f] = store[f]
        /\ job[c].mem.fd = "upload" /\ UploadFile(p) \in DOMAIN store
             => store'[UploadFile(p)] = Append(store[UploadFile(p)], b)
    <3>2. CASE job[c].mem.fd = "upload"
      BY <1>1, <1>7, <3>2 DEF LocalAppended
    <3>3. CASE job[c].mem.fd # "upload"
      BY <1>1, <1>7, <3>3 DEF LocalAppended
    <3> QED BY <3>2, <3>3
  <2>5. UploadTables'
    BY <1>2, <1>3, <1>5, <1>6, <2>3 DEF UploadTables, StagedEntry
  <2>6. ASSUME NEW q \in UploadIds \ {p} PROVE Untouched(q)
    <3>1. UploadFile(q) # UploadFile(p)
      BY <2>6, UploadFiles
    <3> QED BY <1>5, <2>3, <2>4, <2>6, <3>1 DEF Untouched
  <2>7. ASSUME ~(Disturbed(p)') PROVE Sound(p)' /\ job[c].mem.fd = "upload"
    <3>1. Sound(p) /\ \A d \in Clients : On(d, p) => d = c
      BY <1>3, <1>7, <2>7, Undisturbed
    <3>2. /\ p \in DOMAIN aux.open /\ DataOf(p) = aux.open[p] /\ job[c].mem.fd = "upload"
          /\ UploadFile(p) \in DOMAIN store
      <4>1. p \in DOMAIN aux.open
        BY <1>3, <3>1 DEF Sound, ClosedOnce, Closers
      <4>2. \A d \in Clients : ~Doing(d, p, "hash") /\ ~Doing(d, p, "uploadAbandon")
        BY <1>3, <3>1 DEF Doing, At
      <4> QED BY <1>3, <3>1, <4>1, <4>2 DEF Sound, HashFollows
    <3>3. DataOf(p)' = Append(DataOf(p), b)
      BY <1>2, <1>6, <2>4, <3>2 DEF DataOf, LocalData
    <3>4. UnitsExact(p)'
      BY <2>3, <3>1 DEF Sound, UnitsExact
    <3>5. ASSUME NEW d \in Clients,
                 NEW x \in {"hash", "uploadErase", "move", "localWrite", "uploadAbandon"}
          PROVE  ~(Doing(d, p, x)')
      <4>1. On(d, p)' => d = c
        BY <2>1, <3>1 DEF Proceeds, On
      <4>2. job'[c].plan = Rest(c)
        BY <2>1 DEF Proceeds
      <4> QED BY <1>6, <4>1, <4>2 DEF Doing, At
    <3> QED BY <1>5, <2>3, <3>2, <3>3, <3>4, <3>5, QuietSound
  <2>8. BlobsMatchDigest' /\ BlobsStay
    <3>1. BlobsStay
      BY <1>6 DEF BlobsStay
    <3>2. ASSUME NEW d \in DOMAIN aux'.blobs
          PROVE  Upload(aux'.origin[d]) \in raced' \cup broken' \/ aux'.blobs[d] = d
      <4>1. Disturbed(aux.origin[d]) \/ aux.blobs[d] = d
        BY <1>3, <2>3, <3>2 DEF BlobsMatchDigest
      <4>2. PICK o : o = aux.origin[d]
        OBVIOUS
      <4>3. Disturbed(o) => Disturbed(o)'
        BY <1>7, <2>2 DEF Disturbed
      <4>4. aux'.origin[d] = o
        BY <2>3, <4>2
      <4>5. CASE o = p /\ job[c].mem.fd = "blob"
        <5>1. Disturbed(p)'
          BY <2>7, <4>5
        <5> QED BY <4>4, <4>5, <5>1 DEF Disturbed
      <4>6. CASE o # p \/ job[c].mem.fd # "blob"
        <5>1. aux'.blobs[d] = aux.blobs[d]
          BY <2>3, <3>2, <4>2, <4>6
        <5> QED BY <4>1, <4>2, <4>3, <4>4, <5>1 DEF Disturbed
      <4> QED BY <4>5, <4>6
    <3> QED BY <3>1, <3>2 DEF BlobsMatchDigest, Disturbed
  <2> QED BY <1>1, <1>2, <1>3, <1>7, <2>1, <2>2, <2>3, <2>5, <2>6, <2>7, <2>8, ProceedKeeps DEF Lasts
<1>8. ASSUME Fault(c), Abort(c, 500), aux' = [aux EXCEPT !.open = open], store' = store, raced' = raced
      PROVE  UploadInv'
  <2>1. Finishes(c)
    BY <1>3, <1>8, AbortFinishes
  <2>2. broken \subseteq broken' /\ Disturbed(p)'
    BY <1>3, <1>8, FaultDisturbs
  <2>3. /\ UploadTables' /\ aux'.open = open /\ aux'.staged = aux.staged /\ aux'.blobs = aux.blobs
        /\ aux'.seen = aux.seen /\ aux'.lost = aux.lost /\ aux'.origin = aux.origin
    BY <1>2, <1>3, <1>5, <1>8, OpenChanged
  <2>4. ASSUME NEW q \in UploadIds \ {p} PROVE Untouched(q)
    BY <1>5, <1>8, <2>3, <2>4 DEF Untouched
  <2>5. BlobsMatchDigest' /\ BlobsStay
    BY <1>2, <1>3, <1>8, <2>2, <2>3, BlobsKept
  <2> QED BY <1>1, <1>2, <1>8, <2>1, <2>2, <2>3, <2>4, <2>5, FinishKeeps
<1>9. \/ LocalAppended(c) /\ Touch(c, {Upload(p)}) /\ Advance(c) /\ broken' = broken
      \/ /\ Fault(c) /\ Abort(c, 500) /\ aux' = [aux EXCEPT !.open = open]
         /\ store' = store /\ raced' = raced
  BY <1>1, <1>4 DEF LocalWrite
<1> QED BY <1>7, <1>8, <1>9

\* Spooling the body writes nothing of the upload.
LEMMA SpoolKeeps ==
  ASSUME UploadInv, kind = "dockerUploads", NEW c \in Clients, SpoolBody(c) PROVE UploadInv'
<1>1. PICK p : p = job[c].p
  OBVIOUS
<1>2. /\ At(c, "spool") /\ kind' = kind /\ storage' = storage /\ store' = store /\ aux' = aux
      /\ raced' = raced /\ broken' = broken
      /\ \/ job' = [job EXCEPT ![c].plan = Rest(c), ![c].mem.spool = 1]
         \/ Abort(c, 400)
  BY DEF SpoolBody, worldVars, historyVars
<1>3. /\ UploadJobs /\ UploadTables /\ BlobsMatchDigest /\ p \in UploadIds /\ job[c].plan # <<>>
      /\ On(c, p) /\ Doing(c, p, "spool") /\ Head(job[c].plan) = "spool"
      /\ MemShape(job[c].mem) /\ job[c].mem.chunk \in Chunks /\ (Disturbed(p) \/ Sound(p))
  BY <1>1, <1>2, UploadAt
<1>4. CASE Abort(c, 400)
  <2>1. Finishes(c)
    BY <1>3, <1>4, AbortFinishes
  <2> QED BY <1>1, <1>2, <2>1, EndKeeps
<1>5. CASE job' = [job EXCEPT ![c].plan = Rest(c), ![c].mem.spool = 1]
  <2>1. PICK mem : MemShape(mem) /\ mem.chunk \in Chunks /\ Proceeds(c, Rest(c), mem)
    BY <1>3, <1>5, SpooledMemory
  <2>2. Rest(c) # <<>> /\ Head(Rest(c)) = "stagedAppend"
    BY <1>3, RestPlan DEF Lasts, Onward, Rest
  <2>3. /\ \A d \in Clients \ {c} : (On(d, p)' <=> On(d, p)) /\ job'[d] = job[d]
        /\ job'[c].plan = Rest(c) /\ job'[c].p = p
    BY <1>1, <2>1 DEF Proceeds, On
  <2>4. \A d \in Clients :
          \A x \in {"hash", "uploadErase", "move", "localWrite", "uploadAbandon"} :
            /\ Doing(d, p, x)' <=> Doing(d, p, x)
            /\ Doing(d, p, x) => d # c
    BY <1>3, <2>2, <2>3 DEF Doing, At, On
  <2>5. ASSUME Sound(p) PROVE Sound(p)'
    <3>1. p \in DOMAIN aux.open
      BY <1>3, <2>5 DEF Sound, ClosedOnce, Closers
    <3>2. DataOf(p)' = DataOf(p) /\ (NoData(p)' <=> NoData(p))
      BY <1>2 DEF DataOf, NoData, LocalData
    <3>3. HashFollows(p)'
      <4>1. (\A d \in Clients : ~(Doing(d, p, "hash")') /\ ~(Doing(d, p, "uploadAbandon")'))
               => DataOf(p)' = aux'.open[p]
        BY <1>2, <2>4, <2>5, <3>1, <3>2 DEF Sound, HashFollows
      <4>2. ASSUME NEW d \in Clients, Doing(d, p, "hash")'
            PROVE  p \in DOMAIN aux'.open /\ DataOf(p)' = Append(aux'.open[p], job'[d].mem.chunk)
        BY <1>2, <2>3, <2>4, <2>5, <3>2, <4>2 DEF Sound, HashFollows
      <4>3. ASSUME NEW d \in Clients, Doing(d, p, "localWrite")'
            PROVE  job'[d].mem.fd = "upload" /\ UploadFile(p) \in DOMAIN store'
        BY <1>2, <2>3, <2>4, <2>5, <4>3 DEF Sound, HashFollows
      <4> QED BY <4>1, <4>2, <4>3 DEF HashFollows
    <3>4. ClosedOnce(p)'
      <4>1. ASSUME NEW d \in Clients, Doing(d, p, "uploadErase")' PROVE Rest(d)' = <<"uploadAbandon">>
        BY <2>3, <2>4, <2>5, <3>1, <4>1 DEF Sound, ClosedOnce, Rest
      <4>2. ASSUME NEW d \in Clients, Doing(d, p, "move")' PROVE FALSE
        BY <2>4, <2>5, <3>1, <4>2 DEF Sound, ClosedOnce
      <4>3. ASSUME NEW d \in Clients, Doing(d, p, "uploadAbandon")'
            PROVE  NoData(p)' \/ \E e \in Clients : Doing(e, p, "localWrite")'
        BY <2>4, <2>5, <3>2, <4>3 DEF Sound, ClosedOnce
      <4> QED BY <1>2, <3>1, <4>1, <4>2, <4>3 DEF ClosedOnce
    <3>5. UnitsExact(p)'
      BY <1>2, <2>5 DEF Sound, UnitsExact
    <3> QED BY <3>3, <3>4, <3>5 DEF Sound
  <2>6. Sound(p)' \/ Disturbed(p)'
    BY <1>2, <1>3, <2>5 DEF Disturbed
  <2>7. UploadTables' /\ BlobsMatchDigest' /\ BlobsStay /\ \A q \in UploadIds \ {p} : Untouched(q)
    BY <1>2, <1>3, TablesSame, BlobsKept, NothingTouched
  <2> QED BY <1>1, <1>2, <2>1, <2>6, <2>7, ProceedKeeps DEF Lasts
<1> QED BY <1>2, <1>4, <1>5

\* The staging entry of an upload, made where there is none, and what an append makes of it.
LEMMA EnsuredTables ==
  ASSUME UploadTables, storage # "local", NEW p \in UploadIds
  PROVE  /\ DOMAIN Ensured(p) = DOMAIN aux.staged \cup {p}
         /\ StagedEntry(Ensured(p)[p]) /\ Ensured(p)[p].data = DataOf(p)
         /\ UnitsExact(p) => Ensured(p)[p].units = Len(Ensured(p)[p].data)
         /\ \A q \in DOMAIN aux.staged \ {p} : Ensured(p)[q] = aux.staged[q]
<1>1. CASE p \in DOMAIN aux.staged
  BY <1>1 DEF Ensured, UploadTables, DataOf, UnitsExact
<1>2. CASE p \notin DOMAIN aux.staged
  <2>1. PICK e : e = [data |-> <<>>, units |-> 0]
    OBVIOUS
  <2>2. e.data = <<>> /\ e.units = 0 /\ StagedEntry(e)
    BY <2>1 DEF StagedEntry
  <2>3. Ensured(p) = Put(aux.staged, p, e)
    BY <1>2, <2>1 DEF Ensured
  <2>4. /\ DOMAIN Ensured(p) = DOMAIN aux.staged \cup {p} /\ Ensured(p)[p] = e
        /\ \A q \in DOMAIN aux.staged \ {p} : Ensured(p)[q] = aux.staged[q]
    BY <2>3 DEF Put
  <2> QED BY <1>2, <2>2, <2>4 DEF DataOf
<1> QED BY <1>1, <1>2

\* Only the staged data of p change.
LEMMA StagedChanged ==
  ASSUME UploadTables, storage # "local", NEW p \in UploadIds, NEW s,
         DOMAIN s = DOMAIN aux.staged \cup {p}, StagedEntry(s[p]),
         \A q \in DOMAIN aux.staged \ {p} : s[q] = aux.staged[q],
         aux' = [aux EXCEPT !.staged = s], store' = store, storage' = storage
  PROVE  /\ UploadTables' /\ aux'.open = aux.open /\ aux'.staged = s /\ aux'.blobs = aux.blobs
         /\ aux'.seen = aux.seen /\ aux'.lost = aux.lost /\ aux'.origin = aux.origin
         /\ DataOf(p)' = s[p].data /\ \A q \in UploadIds \ {p} : Untouched(q)
<1>1. /\ AuxShape(aux') /\ aux'.open = aux.open /\ aux'.staged = s /\ aux'.blobs = aux.blobs
      /\ aux'.seen = aux.seen /\ aux'.lost = aux.lost /\ aux'.origin = aux.origin
  BY DEF UploadTables, AuxShape
<1>2. UploadTables'
  BY <1>1 DEF UploadTables, StagedEntry
<1>3. DataOf(p)' = s[p].data
  BY <1>1 DEF DataOf
<1>4. \A q \in UploadIds \ {p} : Untouched(q)
  BY <1>1 DEF Untouched
<1> QED BY <1>1, <1>2, <1>3, <1>4

\* A chunk and its unit are appended.
LEMMA Appended ==
  ASSUME NEW e, StagedEntry(e), NEW b \in Chunks
  PROVE  /\ StagedEntry([data |-> Append(e.data, b), units |-> e.units + 1])
         /\ e.units = Len(e.data) => e.units + 1 = Len(Append(e.data, b))
<1>1. PICK d, u : d = e.data /\ u = e.units
  OBVIOUS
<1>2. d \in Seq(Chunks) /\ u \in Nat
  BY <1>1 DEF StagedEntry
<1>3. Append(d, b) \in Seq(Chunks) /\ Len(Append(d, b)) = Len(d) + 1 /\ u + 1 \in Nat
  BY <1>2
<1>4. StagedEntry([data |-> Append(d, b), units |-> u + 1])
  BY <1>3 DEF StagedEntry
<1> QED BY <1>1, <1>3, <1>4

\* A unit is charged and its chunk is cut off.
LEMMA OneMoreUnit ==
  ASSUME NEW e, StagedEntry(e) PROVE StagedEntry([e EXCEPT !.units = @ + 1])
<1>1. PICK d, u : d = e.data /\ u = e.units /\ e = [data |-> d, units |-> u]
  BY DEF StagedEntry
<1>2. d \in Seq(Chunks) /\ u \in Nat
  BY <1>1 DEF StagedEntry
<1>3. [e EXCEPT !.units = @ + 1] = [data |-> d, units |-> u + 1]
  BY <1>1
<1>4. StagedEntry([data |-> d, units |-> u + 1])
  BY <1>2 DEF StagedEntry
<1> QED BY <1>3, <1>4

\* An append that is refused leaves the entry.
LEMMA EnsuredKeeps ==
  ASSUME UploadInv, kind = "dockerUploads", NEW c \in Clients, At(c, "stagedAppend"),
         NEW p, p = job[c].p, aux' = [aux EXCEPT !.staged = Ensured(p)], store' = store,
         kind' = kind, storage' = storage, Touch(c, {Upload(p)}), broken' = broken, Abort(c, 500)
  PROVE  UploadInv'
<1>1. /\ UploadJobs /\ UploadTables /\ BlobsMatchDigest /\ p \in UploadIds /\ job[c].plan # <<>>
      /\ On(c, p) /\ Doing(c, p, "stagedAppend") /\ Head(job[c].plan) = "stagedAppend"
      /\ (Disturbed(p) \/ Sound(p))
  BY UploadAt
<1>2. storage # "local"
  BY <1>1, RestPlan DEF Lasts, Onward
<1>3. Finishes(c)
  BY <1>1, AbortFinishes
<1>4. raced \subseteq raced'
  BY <1>1, AloneAfterTouch
<1>5. PICK s : s = Ensured(p)
  OBVIOUS
<1>6. /\ DOMAIN s = DOMAIN aux.staged \cup {p} /\ StagedEntry(s[p]) /\ s[p].data = DataOf(p)
      /\ UnitsExact(p) => s[p].units = Len(s[p].data)
      /\ \A q \in DOMAIN aux.staged \ {p} : s[q] = aux.staged[q]
  BY <1>1, <1>2, <1>5, EnsuredTables
<1>7. /\ UploadTables' /\ aux'.open = aux.open /\ aux'.staged = s /\ aux'.blobs = aux.blobs
      /\ aux'.seen = aux.seen /\ aux'.lost = aux.lost /\ aux'.origin = aux.origin
      /\ DataOf(p)' = s[p].data /\ \A q \in UploadIds \ {p} : Untouched(q)
  BY <1>1, <1>2, <1>5, <1>6, StagedChanged
<1>8. ASSUME ~(Disturbed(p)') PROVE Sound(p)'
  <2>1. Sound(p) /\ \A d \in Clients : On(d, p) => d = c
    BY <1>1, <1>8, Undisturbed
  <2>2. p \in DOMAIN aux.open
    BY <1>1, <2>1 DEF Sound, ClosedOnce, Closers
  <2>3. DataOf(p) = aux.open[p]
    <3>1. \A d \in Clients : ~Doing(d, p, "hash") /\ ~Doing(d, p, "uploadAbandon")
      BY <1>1, <2>1 DEF Doing, At
    <3> QED BY <2>1, <2>2, <3>1 DEF Sound, HashFollows
  <2>4. UnitsExact(p)'
    BY <1>6, <1>7, <2>1 DEF Sound, UnitsExact
  <2>5. \A d \in Clients : \A x \in {"hash", "uploadErase", "move", "localWrite", "uploadAbandon"} :
          ~(Doing(d, p, x)')
    BY <1>3, <2>1, AloneFinishes
  <2> QED BY <1>6, <1>7, <2>2, <2>3, <2>4, <2>5, QuietSound
<1>9. BlobsMatchDigest' /\ BlobsStay
  BY <1>1, <1>4, <1>7, BlobsKept
<1> QED BY <1>3, <1>4, <1>7, <1>8, <1>9, FinishKeeps

\* The chunk is appended.
LEMMA AppendedKeeps ==
  ASSUME UploadInv, kind = "dockerUploads", NEW c \in Clients, At(c, "stagedAppend"),
         NEW p, p = job[c].p, NEW b, b = job[c].mem.chunk,
         aux' = [aux EXCEPT !.staged =
                   [Ensured(p) EXCEPT ![p] = [data |-> Append(@.data, b), units |-> @.units + 1]]],
         store' = store, kind' = kind, storage' = storage,
         Touch(c, {Upload(p)}), broken' = broken, Advance(c)
  PROVE  UploadInv'
<1>1. /\ UploadJobs /\ UploadTables /\ BlobsMatchDigest /\ p \in UploadIds /\ job[c].plan # <<>>
      /\ On(c, p) /\ Doing(c, p, "stagedAppend") /\ Head(job[c].plan) = "stagedAppend"
      /\ (Disturbed(p) \/ Sound(p)) /\ MemShape(job[c].mem) /\ b \in Chunks
  BY UploadAt
<1>2. storage # "local" /\ Rest(c) # <<>> /\ Head(Rest(c)) = "hash"
  BY <1>1, RestPlan DEF Lasts, Onward, Rest
<1>3. Proceeds(c, Rest(c), job[c].mem)
  BY <1>1, AdvanceProceeds
<1>4. raced \subseteq raced'
  BY <1>1, AloneAfterTouch
<1>5. PICK t : t = Ensured(p)
  OBVIOUS
<1>6. /\ DOMAIN t = DOMAIN aux.staged \cup {p} /\ StagedEntry(t[p]) /\ t[p].data = DataOf(p)
      /\ UnitsExact(p) => t[p].units = Len(t[p].data)
      /\ \A q \in DOMAIN aux.staged \ {p} : t[q] = aux.staged[q]
  BY <1>1, <1>2, <1>5, EnsuredTables
<1>7. PICK e : e = [data |-> Append(t[p].data, b), units |-> t[p].units + 1]
  OBVIOUS
<1>8. /\ StagedEntry(e) /\ e.data = Append(DataOf(p), b)
      /\ t[p].units = Len(t[p].data) => e.units = Len(e.data)
  BY <1>1, <1>6, <1>7, Appended
<1>9. PICK s : s = [t EXCEPT ![p] = e]
  OBVIOUS
<1>10. /\ DOMAIN s = DOMAIN aux.staged \cup {p} /\ s[p] = e
       /\ \A q \in DOMAIN aux.staged \ {p} : s[q] = aux.staged[q]
  BY <1>6, <1>9
<1>11. aux' = [aux EXCEPT !.staged = s]
  BY <1>5, <1>7, <1>9
<1>12. /\ UploadTables' /\ aux'.open = aux.open /\ aux'.staged = s /\ aux'.blobs = aux.blobs
       /\ aux'.seen = aux.seen /\ aux'.lost = aux.lost /\ aux'.origin = aux.origin
       /\ DataOf(p)' = s[p].data /\ \A q \in UploadIds \ {p} : Untouched(q)
  BY <1>1, <1>2, <1>8, <1>10, <1>11, StagedChanged
<1>13. ASSUME ~(Disturbed(p)') PROVE Sound(p)'
  <2>1. Sound(p) /\ \A d \in Clients : On(d, p) => d = c
    BY <1>1, <1>13, Undisturbed
  <2>2. p \in DOMAIN aux.open
    BY <1>1, <2>1 DEF Sound, ClosedOnce, Closers
  <2>3. DataOf(p) = aux.open[p]
    <3>1. \A d \in Clients : ~Doing(d, p, "hash") /\ ~Doing(d, p, "uploadAbandon")
      BY <1>1, <2>1 DEF Doing, At
    <3> QED BY <2>1, <2>2, <3>1 DEF Sound, HashFollows
  <2>4. UnitsExact(p)'
    BY <1>6, <1>8, <1>10, <1>12, <2>1 DEF Sound, UnitsExact
  <2>5. /\ \A d \in Clients : On(d, p)' => d = c
        /\ job'[c].plan = Rest(c) /\ job'[c].p = p /\ job'[c].mem = job[c].mem
    BY <1>3, <2>1 DEF Proceeds, On
  <2>6. /\ Doing(c, p, "hash")'
        /\ \A d \in Clients : \A x \in {"uploadErase", "move", "localWrite", "uploadAbandon"} :
             ~(Doing(d, p, x)')
    BY <1>2, <2>5 DEF Doing, On, At
  <2>7. HashFollows(p)'
    <3>1. ASSUME NEW d \in Clients, Doing(d, p, "hash")'
          PROVE  p \in DOMAIN aux'.open /\ DataOf(p)' = Append(aux'.open[p], job'[d].mem.chunk)
      <4>1. d = c
        BY <2>5, <3>1 DEF Doing
      <4> QED BY <1>8, <1>10, <1>12, <2>2, <2>3, <2>5, <4>1
    <3> QED BY <2>6, <3>1 DEF HashFollows
  <2>8. ClosedOnce(p)'
    BY <1>12, <2>2, <2>6 DEF ClosedOnce
  <2> QED BY <2>4, <2>7, <2>8 DEF Sound
<1>14. BlobsMatchDigest' /\ BlobsStay
  BY <1>1, <1>4, <1>12, BlobsKept
<1> QED BY <1>1, <1>3, <1>4, <1>12, <1>13, <1>14, ProceedKeeps DEF Lasts

\* A request cut off in the middle of an append.
LEMMA CutOffKeeps ==
  ASSUME UploadInv, kind = "dockerUploads", NEW c \in Clients, At(c, "stagedAppend"),
         NEW p, p = job[c].p,
         aux' = [aux EXCEPT !.staged = [Ensured(p) EXCEPT ![p].units = @ + 1]],
         store' = store, kind' = kind, storage' = storage,
         Fault(c), raced' = raced, Abort(c, 500)
  PROVE  UploadInv'
<1>1. /\ UploadJobs /\ UploadTables /\ BlobsMatchDigest /\ p \in UploadIds /\ job[c].plan # <<>>
      /\ Head(job[c].plan) = "stagedAppend" /\ job[c].reads = {Upload(p)}
  BY UploadAt
<1>2. storage # "local"
  BY <1>1, RestPlan DEF Lasts, Onward
<1>3. Finishes(c)
  BY <1>1, AbortFinishes
<1>4. broken \subseteq broken' /\ Disturbed(p)'
  BY <1>1, FaultDisturbs
<1>5. PICK t : t = Ensured(p)
  OBVIOUS
<1>6. /\ DOMAIN t = DOMAIN aux.staged \cup {p} /\ StagedEntry(t[p])
      /\ \A q \in DOMAIN aux.staged \ {p} : t[q] = aux.staged[q]
  BY <1>1, <1>2, <1>5, EnsuredTables
<1>7. PICK e : e = [t[p] EXCEPT !.units = @ + 1]
  OBVIOUS
<1>8. StagedEntry(e)
  BY <1>6, <1>7, OneMoreUnit
<1>9. PICK s : s = [t EXCEPT ![p] = e]
  OBVIOUS
<1>10. /\ DOMAIN s = DOMAIN aux.staged \cup {p} /\ s[p] = e
       /\ \A q \in DOMAIN aux.staged \ {p} : s[q] = aux.staged[q]
  BY <1>6, <1>9
<1>11. aux' = [aux EXCEPT !.staged = s]
  BY <1>5, <1>7, <1>9
<1>12. /\ UploadTables' /\ aux'.open = aux.open /\ aux'.staged = s /\ aux'.blobs = aux.blobs
       /\ aux'.seen = aux.seen /\ aux'.lost = aux.lost /\ aux'.origin = aux.origin
       /\ \A q \in UploadIds \ {p} : Untouched(q)
  BY <1>1, <1>2, <1>8, <1>10, <1>11, StagedChanged
<1>13. BlobsMatchDigest' /\ BlobsStay
  BY <1>1, <1>4, <1>12, BlobsKept
<1> QED BY <1>3, <1>4, <1>12, <1>13, FinishKeeps

\* Appending to the staged data.
LEMMA StagedAppendKeeps ==
  ASSUME UploadInv, kind = "dockerUploads", NEW c \in Clients, StagedAppend(c) PROVE UploadInv'
<1>1. PICK p, b : p = job[c].p /\ b = job[c].mem.chunk
  OBVIOUS
<1>2. At(c, "stagedAppend") /\ kind' = kind /\ storage' = storage /\ store' = store
  BY DEF StagedAppend, worldVars
<1>3. UploadJobs /\ job[c].plan # <<>> /\ job[c].reads = {Upload(p)}
  BY <1>1, <1>2, UploadAt
<1>4. CASE Abort(c, 500) /\ aux' = aux /\ raced' = raced /\ broken' = broken
  <2>1. Finishes(c)
    BY <1>3, <1>4, AbortFinishes
  <2> QED BY <1>1, <1>2, <1>4, <2>1, EndKeeps
<1>5. CASE aux' = [aux EXCEPT !.staged = Ensured(p)] /\ Touch(c, {Upload(p)}) /\ Abort(c, 500)
           /\ broken' = broken
  BY <1>1, <1>2, <1>5, EnsuredKeeps
<1>6. CASE /\ aux' = [aux EXCEPT !.staged =
                       [Ensured(p) EXCEPT ![p] = [data |-> Append(@.data, b), units |-> @.units + 1]]]
           /\ Touch(c, {Upload(p)}) /\ Advance(c) /\ broken' = broken
  BY <1>1, <1>2, <1>6, AppendedKeeps
<1>7. CASE /\ aux' = [aux EXCEPT !.staged = [Ensured(p) EXCEPT ![p].units = @ + 1]]
           /\ Fault(c) /\ raced' = raced /\ Abort(c, 500)
  BY <1>1, <1>2, <1>7, CutOffKeeps
<1> QED BY <1>1, <1>4, <1>5, <1>6, <1>7 DEF StagedAppend, historyVars

\* The hash follows the staged data.
LEMMA HashKeeps ==
  ASSUME UploadInv, kind = "dockerUploads", NEW c \in Clients, HashSpooled(c) PROVE UploadInv'
<1>1. PICK p, b : p = job[c].p /\ b = job[c].mem.chunk
  OBVIOUS
<1>2. /\ At(c, "hash") /\ kind' = kind /\ storage' = storage /\ store' = store /\ broken' = broken
      /\ job' = [job EXCEPT ![c].plan = Rest(c), ![c].mem.spool = 0]
      /\ Touch(c, {Upload(p)}) /\ aux' = [aux EXCEPT !.open = Hashed(p, b)]
  BY <1>1 DEF HashSpooled, worldVars
<1>3. /\ UploadJobs /\ UploadTables /\ BlobsMatchDigest /\ p \in UploadIds /\ job[c].plan # <<>>
      /\ On(c, p) /\ Doing(c, p, "hash") /\ Head(job[c].plan) = "hash"
      /\ MemShape(job[c].mem) /\ b \in Chunks /\ (Disturbed(p) \/ Sound(p))
  BY <1>1, <1>2, UploadAt
<1>4. PICK open : open = Hashed(p, b)
  OBVIOUS
<1>5. /\ DOMAIN open = DOMAIN aux.open
      /\ p \in DOMAIN aux.open => open[p] = Append(aux.open[p], b)
      /\ \A q \in DOMAIN aux.open \ {p} : open[q] = aux.open[q]
  BY <1>4, HashedTables
<1>6. Rest(c) # <<>> /\ Head(Rest(c)) \in {"uploadAccepted", "finalize"}
  BY <1>3, RestPlan DEF Lasts, Onward, Rest
<1>7. PICK mem : MemShape(mem) /\ mem.chunk \in Chunks /\ Proceeds(c, Rest(c), mem)
  BY <1>1, <1>2, <1>3, SpooledMemory
<1>8. raced \subseteq raced'
  BY <1>2, <1>3, AloneAfterTouch
<1>9. /\ UploadTables' /\ aux'.open = open /\ aux'.staged = aux.staged /\ aux'.blobs = aux.blobs
      /\ aux'.seen = aux.seen /\ aux'.lost = aux.lost /\ aux'.origin = aux.origin
      /\ DataOf(p)' = DataOf(p)
  BY <1>2, <1>3, <1>4, <1>5, OpenChanged
<1>10. ASSUME NEW q \in UploadIds \ {p} PROVE Untouched(q)
  BY <1>2, <1>5, <1>9, <1>10 DEF Untouched
<1>11. ASSUME ~(Disturbed(p)') PROVE Sound(p)'
  <2>1. Sound(p) /\ \A d \in Clients : On(d, p) => d = c
    BY <1>2, <1>3, <1>11, Undisturbed
  <2>2. p \in DOMAIN aux.open /\ DataOf(p) = Append(aux.open[p], b)
    BY <1>1, <1>3, <2>1 DEF Sound, HashFollows
  <2>3. UnitsExact(p)'
    BY <1>9, <2>1 DEF Sound, UnitsExact
  <2>4. ASSUME NEW d \in Clients,
               NEW x \in {"hash", "uploadErase", "move", "localWrite", "uploadAbandon"}
        PROVE  ~(Doing(d, p, x)')
    <3>1. On(d, p)' => d = c
      BY <1>7, <2>1 DEF Proceeds, On
    <3>2. job'[c].plan = Rest(c)
      BY <1>7 DEF Proceeds
    <3> QED BY <1>6, <3>1, <3>2 DEF Doing, At
  <2> QED BY <1>5, <1>9, <2>2, <2>3, <2>4, QuietSound
<1>12. BlobsMatchDigest' /\ BlobsStay
  BY <1>2, <1>3, <1>8, <1>9, BlobsKept
<1> QED BY <1>1, <1>2, <1>7, <1>8, <1>9, <1>10, <1>11, <1>12, ProceedKeeps DEF Lasts

------------------------------------------------------------------------------
(* The end of an upload.                                                   *)

\* The request goes on, and the file the others on its upload have open is gone or renamed.
Redirects(c, p, plan) ==
    /\ job' = [d \in Clients |-> job'[d]]
    /\ \A d \in Clients : /\ JobShape(job'[d]) /\ job'[d].op = job[d].op /\ job'[d].p = job[d].p
                          /\ job'[d].reads = job[d].reads
                          /\ job[d].plan # <<>> =>
                               MemShape(job'[d].mem) /\ job'[d].mem.chunk = job[d].mem.chunk
    /\ \A d \in Clients \ {c} : job'[d].plan = job[d].plan /\ (~On(d, p) => job'[d] = job[d])
    /\ job'[c].plan = plan /\ job'[c].mem = job[c].mem

\* The other descriptors of a file that is removed or moved follow it.
LEMMA DescriptorsRedirect ==
  ASSUME UploadJobs, NEW c \in Clients, NEW p, p = job[c].p, job[c].plan # <<>>, NEW plan, NEW to,
         job' = [Descriptors(c, to) EXCEPT ![c].plan = plan]
  PROVE  Redirects(c, p, plan)
<1>1. PICK D : D = Descriptors(c, to)
  OBVIOUS
<1>2. /\ D = [d \in Clients |-> D[d]] /\ D[c] = job[c]
      /\ \A d \in Clients \ {c} :
           D[d] = job[d] \/ (On(d, p) /\ D[d] = [job[d] EXCEPT !.mem.fd = to])
  BY <1>1 DEF Descriptors, On, Idle
<1>3. \A d \in Clients : JobShape(job[d]) /\ (job[d].plan # <<>> => MemShape(job[d].mem))
  BY DEF UploadJobs, UploadJob
<1>4. PICK k : k = [job[c] EXCEPT !.plan = plan]
  OBVIOUS
<1>5. /\ JobShape(k) /\ k.op = job[c].op /\ k.p = job[c].p /\ k.reads = job[c].reads
      /\ k.plan = plan /\ k.mem = job[c].mem
  <2>1. PICK j : j = job[c]
    OBVIOUS
  <2>2. JobShape(j) /\ k = [j EXCEPT !.plan = plan]
    BY <1>3, <1>4, <2>1
  <2>3. JobShape(k) /\ k.op = j.op /\ k.p = j.p /\ k.reads = j.reads /\ k.plan = plan /\ k.mem = j.mem
    BY <2>2 DEF JobShape
  <2> QED BY <2>1, <2>3
<1>6. job' = [D EXCEPT ![c] = k]
  BY <1>1, <1>2, <1>4
<1>7. job' = [d \in Clients |-> job'[d]] /\ job'[c] = k /\ \A d \in Clients \ {c} : job'[d] = D[d]
  BY <1>2, <1>6
<1>8. ASSUME NEW d \in Clients \ {c}
      PROVE  /\ JobShape(job'[d]) /\ job'[d].op = job[d].op /\ job'[d].p = job[d].p
             /\ job'[d].reads = job[d].reads /\ job'[d].plan = job[d].plan
             /\ job[d].plan # <<>> => MemShape(job'[d].mem) /\ job'[d].mem.chunk = job[d].mem.chunk
             /\ ~On(d, p) => job'[d] = job[d]
  <2>1. CASE D[d] = job[d]
    BY <1>3, <1>7, <1>8, <2>1
  <2>2. CASE On(d, p) /\ D[d] = [job[d] EXCEPT !.mem.fd = to]
    <3>1. PICK j, m, l : j = job[d] /\ m = [j.mem EXCEPT !.fd = to] /\ l = [j EXCEPT !.mem = m]
      OBVIOUS
    <3>2. JobShape(j) /\ MemShape(j.mem)
      BY <1>3, <2>2, <3>1 DEF On
    <3>3. /\ JobShape(l) /\ l.op = j.op /\ l.p = j.p /\ l.reads = j.reads /\ l.plan = j.plan
          /\ MemShape(l.mem) /\ l.mem.chunk = j.mem.chunk
      <4>1. MemShape(m) /\ m.chunk = j.mem.chunk
        BY <3>1, <3>2 DEF MemShape
      <4>2. /\ JobShape(l) /\ l.op = j.op /\ l.p = j.p /\ l.reads = j.reads /\ l.plan = j.plan
            /\ l.mem = m
        BY <3>1, <3>2 DEF JobShape
      <4> QED BY <4>1, <4>2
    <3>4. job'[d] = l
      BY <1>7, <1>8, <2>2, <3>1
    <3> QED BY <2>2, <3>1, <3>3, <3>4
  <2>3. D[d] = job[d] \/ (On(d, p) /\ D[d] = [job[d] EXCEPT !.mem.fd = to])
    BY <1>2, <1>8
  <2> QED BY <2>1, <2>2, <2>3
<1>9. JobShape(job'[c]) /\ job'[c].op = job[c].op /\ job'[c].p = job[c].p
      /\ job'[c].reads = job[c].reads /\ job'[c].plan = plan /\ job'[c].mem = job[c].mem
      /\ MemShape(job'[c].mem)
  BY <1>3, <1>5, <1>7
<1>10. ASSUME NEW d \in Clients
       PROVE  /\ JobShape(job'[d]) /\ job'[d].op = job[d].op /\ job'[d].p = job[d].p
              /\ job'[d].reads = job[d].reads
              /\ job[d].plan # <<>> => MemShape(job'[d].mem) /\ job'[d].mem.chunk = job[d].mem.chunk
  <2>1. CASE d = c
    BY <1>9, <2>1
  <2>2. CASE d # c
    BY <1>8, <2>2
  <2> QED BY <2>1, <2>2
<1> QED BY <1>7, <1>8, <1>9, <1>10 DEF Redirects

\* Requests stay requests of uploads when descriptors change.
LEMMA RedirectedJobs ==
  ASSUME UploadJobs, NEW c \in Clients, job[c].plan # <<>>, NEW p, NEW plan \in PlansOf(storage),
         plan # <<"uploadBegin">>, Redirects(c, p, plan), storage' = storage
  PROVE  UploadJobs'
<1>1. \A d \in Clients : UploadJob(job[d])
  BY DEF UploadJobs
<1>2. plan # <<>>
  BY UploadPlanHeads
<1>3. UploadJob(job[c])'
  <2>1. PICK j : j = job'[c]
    OBVIOUS
  <2>2. JobShape(j) /\ j.plan = plan /\ j.p = job[c].p /\ j.reads = job[c].reads /\ j.mem = job[c].mem
    BY <2>1 DEF Redirects
  <2>3. /\ job[c].p \in UploadIds /\ job[c].reads = {Upload(job[c].p)}
        /\ MemShape(job[c].mem) /\ job[c].mem.chunk \in Chunks
    BY <1>1 DEF UploadJob
  <2> QED BY <1>2, <2>1, <2>2, <2>3 DEF UploadJob
<1>4. ASSUME NEW d \in Clients \ {c} PROVE UploadJob(job[d])'
  <2>1. PICK i, j : i = job[d] /\ j = job'[d]
    OBVIOUS
  <2>2. /\ JobShape(j) /\ j.plan = i.plan /\ j.op = i.op /\ j.p = i.p /\ j.reads = i.reads
        /\ i.plan # <<>> => MemShape(j.mem) /\ j.mem.chunk = i.mem.chunk
    BY <2>1 DEF Redirects
  <2>3. UploadJob(i)
    BY <1>1, <2>1
  <2>4. UploadJob(j)
    BY <2>2, <2>3 DEF UploadJob
  <2> QED BY <2>1, <2>4 DEF UploadJob
<1> QED BY <1>3, <1>4 DEF UploadJobs, Redirects

\* A step that moves or removes the file of an upload.
LEMMA RedirectKeeps ==
  ASSUME UploadInv, kind = "dockerUploads", NEW c \in Clients, NEW x \in {"uploadErase", "move"},
         At(c, x), NEW p, p = job[c].p, Redirects(c, p, Rest(c)),
         kind' = kind, storage' = storage, raced \subseteq raced', broken \subseteq broken',
         BlobsStay, BlobsMatchDigest', UploadTables', aux'.seen = aux.seen,
         \A q \in UploadIds \ {p} : Untouched(q), Sound(p)' \/ Disturbed(p)'
  PROVE  UploadInv'
<1>1. /\ UploadJobs /\ job[c].plan # <<>> /\ Head(job[c].plan) = x
      /\ On(c, p) /\ Doing(c, p, x) /\ Fresh(p)
  BY UploadAt
<1>2. Rest(c) \in PlansOf(storage) /\ Onward(storage, job[c].plan)
  BY <1>1, RestPlan DEF Lasts
<1>3. Head(Rest(c)) \in {"uploadAbandon", "uploadMismatch", "uploadCreated"}
  <2>1. Rest(c) \in {<<"uploadAbandon">>, <<"uploadMismatch">>, <<"uploadCreated">>}
    BY <1>1, <1>2 DEF Onward, Rest
  <2> QED BY <2>1
<1>4. Rest(c) # <<"uploadBegin">>
  <2>1. Head(<<"uploadBegin">>) = "uploadBegin"
    OBVIOUS
  <2> QED BY <1>3, <2>1
<1>5. UploadJobs'
  BY <1>1, <1>2, <1>4, RedirectedJobs
<1>6. \A d \in Clients : Doing(d, p, "uploadBegin")' => Doing(d, p, "uploadBegin")
  BY <1>3 DEF Redirects, Doing, On, At
<1>7. ~At(c, "uploadBegin")
  BY <1>1 DEF At
<1>8. Fresh(p)'
  BY <1>1, <1>6, <1>7, FreshStays
<1>9. ASSUME NEW q \in UploadIds, q # p PROVE Untouched(q) /\ SameOn(q)
  <2>1. Untouched(q)
    BY <1>9
  <2>2. SameOn(q)
    BY <1>9 DEF SameOn, Redirects, On
  <2> QED BY <2>1, <2>2
<1> QED BY <1>5, <1>8, <1>9, UploadsKept

\* An upload whose hash and data are gone.
LEMMA GoneSound ==
  ASSUME NEW p, p \notin DOMAIN aux'.open, NoData(p)', UnitsExact(p)',
         \A d \in Clients : On(d, p)' => Head(job'[d].plan) \in {"uploadCreated", "uploadMismatch"}
  PROVE  Sound(p)'
<1>1. \A d \in Clients : \A x \in {"hash", "uploadErase", "move", "localWrite", "uploadAbandon"} :
        ~(Doing(d, p, x)')
  BY DEF Doing, At
<1>2. HashFollows(p)'
  BY <1>1 DEF HashFollows
<1>3. ClosedOnce(p)'
  BY <1>1 DEF ClosedOnce, Closers
<1> QED BY <1>2, <1>3 DEF Sound

\* The data are erased.
LEMMA EraseKeeps ==
  ASSUME UploadInv, kind = "dockerUploads", NEW c \in Clients, UploadErase(c) PROVE UploadInv'
<1>1. PICK p : p = job[c].p
  OBVIOUS
<1>2. /\ At(c, "uploadErase") /\ kind' = kind /\ storage' = storage /\ broken' = broken
      /\ store' = Drop(store, {UploadFile(p)}) /\ aux' = [aux EXCEPT !.staged = Drop(@, {p})]
      /\ Touch(c, {Upload(p)}) /\ job' = [Descriptors(c, "gone") EXCEPT ![c].plan = Rest(c)]
  BY <1>1 DEF UploadErase, Erased, worldVars
<1>3. /\ UploadJobs /\ UploadTables /\ BlobsMatchDigest /\ p \in UploadIds /\ job[c].plan # <<>>
      /\ On(c, p) /\ Doing(c, p, "uploadErase") /\ Head(job[c].plan) = "uploadErase"
      /\ (Disturbed(p) \/ Sound(p))
  BY <1>1, <1>2, UploadAt
<1>4. Redirects(c, p, Rest(c))
  BY <1>1, <1>2, <1>3, DescriptorsRedirect
<1>5. raced \subseteq raced'
  BY <1>2, <1>3, AloneAfterTouch
<1>6. /\ AuxShape(aux') /\ aux'.open = aux.open /\ aux'.staged = Drop(aux.staged, {p})
      /\ aux'.blobs = aux.blobs /\ aux'.seen = aux.seen /\ aux'.lost = aux.lost
      /\ aux'.origin = aux.origin
  BY <1>2, <1>3 DEF UploadTables, AuxShape
<1>7. /\ DOMAIN aux'.staged = DOMAIN aux.staged \ {p}
      /\ \A q \in DOMAIN aux.staged \ {p} : aux'.staged[q] = aux.staged[q]
      /\ DOMAIN store' = DOMAIN store \ {UploadFile(p)}
      /\ \A f \in DOMAIN store \ {UploadFile(p)} : store'[f] = store[f]
  BY <1>2, <1>6 DEF Drop
<1>8. UploadTables'
  BY <1>2, <1>3, <1>6, <1>7 DEF UploadTables, StagedEntry
<1>9. NoData(p)' /\ UnitsExact(p)'
  BY <1>7 DEF NoData, UnitsExact
<1>10. ASSUME NEW q \in UploadIds \ {p} PROVE Untouched(q)
  <2>1. UploadFile(q) # UploadFile(p)
    BY <1>10, UploadFiles
  <2> QED BY <1>6, <1>7, <1>10, <2>1 DEF Untouched
<1>11. ASSUME ~(Disturbed(p)') PROVE Sound(p)'
  <2>1. Sound(p) /\ \A d \in Clients : On(d, p) => d = c
    BY <1>2, <1>3, <1>11, Undisturbed
  <2>2. job'[c].plan = Rest(c) /\ job'[c].p = p /\ \A d \in Clients : On(d, p)' => d = c
    BY <1>1, <1>4, <2>1 DEF Redirects, On
  <2>3. p \in DOMAIN aux.open <=> Rest(c) = <<"uploadAbandon">>
    BY <1>3, <2>1 DEF Sound, ClosedOnce
  <2>4. Rest(c) = <<"uploadAbandon">> \/ Rest(c) = <<"uploadMismatch">>
    BY <1>3, RestPlan DEF Lasts, Onward, Rest
  <2>5. CASE Rest(c) = <<"uploadMismatch">>
    <3>1. <<"uploadMismatch">> # <<"uploadAbandon">> /\ Head(<<"uploadMismatch">>) = "uploadMismatch"
      OBVIOUS
    <3>2. p \notin DOMAIN aux'.open
      BY <1>6, <2>3, <2>5, <3>1
    <3> QED BY <1>9, <2>2, <2>5, <3>1, <3>2, GoneSound
  <2>6. CASE Rest(c) = <<"uploadAbandon">>
    <3>1. Head(<<"uploadAbandon">>) = "uploadAbandon" /\ <<"uploadAbandon">> # <<>>
      OBVIOUS
    <3>2. /\ p \in DOMAIN aux'.open /\ Doing(c, p, "uploadAbandon")'
          /\ \A d \in Clients : \A x \in {"hash", "uploadErase", "move", "localWrite"} :
               ~(Doing(d, p, x)')
      BY <1>6, <2>2, <2>3, <2>6, <3>1 DEF Doing, On, At
    <3>3. HashFollows(p)'
      BY <3>2 DEF HashFollows
    <3>4. ClosedOnce(p)'
      BY <1>9, <3>2 DEF ClosedOnce
    <3> QED BY <1>9, <3>3, <3>4 DEF Sound
  <2> QED BY <2>4, <2>5, <2>6
<1>12. BlobsMatchDigest' /\ BlobsStay
  BY <1>2, <1>3, <1>5, <1>6, BlobsKept
<1> QED BY <1>1, <1>2, <1>4, <1>5, <1>6, <1>8, <1>10, <1>11, <1>12, RedirectKeeps

\* The hash is dropped after the data.
LEMMA AbandonKeeps ==
  ASSUME UploadInv, kind = "dockerUploads", NEW c \in Clients, UploadAbandon(c) PROVE UploadInv'
<1>1. PICK p : p = job[c].p
  OBVIOUS
<1>2. /\ At(c, "uploadAbandon") /\ kind' = kind /\ storage' = storage /\ broken' = broken
      /\ store' = store /\ aux' = [aux EXCEPT !.open = Drop(@, {p})]
      /\ Touch(c, {Upload(p)}) /\ Reply(c, 204, Nothing)
  BY <1>1 DEF UploadAbandon, worldVars
<1>3. /\ UploadJobs /\ UploadTables /\ BlobsMatchDigest /\ p \in UploadIds /\ job[c].plan # <<>>
      /\ On(c, p) /\ Doing(c, p, "uploadAbandon") /\ Head(job[c].plan) = "uploadAbandon"
      /\ (Disturbed(p) \/ Sound(p))
  BY <1>1, <1>2, UploadAt
<1>4. Finishes(c)
  BY <1>2, <1>3, ReplyFinishes
<1>5. raced \subseteq raced'
  BY <1>2, <1>3, AloneAfterTouch
<1>6. PICK open : open = Drop(aux.open, {p})
  OBVIOUS
<1>7. DOMAIN open = DOMAIN aux.open \ {p} /\ \A q \in DOMAIN open : open[q] = aux.open[q]
  BY <1>6 DEF Drop
<1>8. /\ UploadTables' /\ aux'.open = open /\ aux'.staged = aux.staged /\ aux'.blobs = aux.blobs
      /\ aux'.seen = aux.seen /\ aux'.lost = aux.lost /\ aux'.origin = aux.origin
      /\ (NoData(p)' <=> NoData(p))
  BY <1>2, <1>3, <1>6, <1>7, OpenChanged
<1>9. ASSUME NEW q \in UploadIds \ {p} PROVE Untouched(q)
  BY <1>2, <1>7, <1>8, <1>9 DEF Untouched
<1>10. ASSUME ~(Disturbed(p)') PROVE Sound(p)'
  <2>1. Sound(p) /\ \A d \in Clients : On(d, p) => d = c
    BY <1>2, <1>3, <1>10, Undisturbed
  <2>2. NoData(p)
    <3>1. \A d \in Clients : ~Doing(d, p, "localWrite")
      BY <1>3, <2>1 DEF Doing, At
    <3> QED BY <1>3, <2>1, <3>1 DEF Sound, ClosedOnce
  <2>3. \A d \in Clients : ~(On(d, p)')
    BY <1>4, <2>1, AloneFinishes
  <2>4. UnitsExact(p)'
    BY <1>8, <2>1 DEF Sound, UnitsExact
  <2> QED BY <1>7, <1>8, <2>2, <2>3, <2>4, GoneSound
<1>11. BlobsMatchDigest' /\ BlobsStay
  BY <1>2, <1>3, <1>5, <1>8, BlobsKept
<1> QED BY <1>1, <1>2, <1>4, <1>5, <1>8, <1>9, <1>10, <1>11, FinishKeeps

\* What the last request hashes is what is in the hash table, while it is there.
LEMMA FinalizedKeeps ==
  ASSUME UploadInv, kind = "dockerUploads", NEW c \in Clients, Finalize(c) PROVE UploadInv'
<1>1. PICK p, digest : p = job[c].p /\ digest = job[c].mem.digest
  OBVIOUS
<1>2. /\ At(c, "finalize") /\ kind' = kind /\ storage' = storage /\ broken' = broken
      /\ store' = store /\ aux' = [aux EXCEPT !.open = Drop(@, {p})] /\ Touch(c, {Upload(p)})
      /\ \/ Finalized(p) = {} /\ Reply(c, 404, Nothing)
         \/ digest \in Finalized(p) /\ Advance(c)
         \/ digest \notin Finalized(p) /\ Goto(c, <<"uploadErase", "uploadMismatch">>)
  BY <1>1 DEF Finalize, worldVars
<1>3. /\ UploadJobs /\ UploadTables /\ BlobsMatchDigest /\ p \in UploadIds /\ job[c].plan # <<>>
      /\ On(c, p) /\ Doing(c, p, "finalize") /\ Head(job[c].plan) = "finalize"
      /\ Fresh(p) /\ (Disturbed(p) \/ Sound(p)) /\ MemShape(job[c].mem) /\ job[c].mem.chunk \in Chunks
  BY <1>1, <1>2, UploadAt
<1>4. raced \subseteq raced'
  BY <1>2, <1>3, AloneAfterTouch
<1>5. PICK open : open = Drop(aux.open, {p})
  OBVIOUS
<1>6. DOMAIN open = DOMAIN aux.open \ {p} /\ \A q \in DOMAIN open : open[q] = aux.open[q]
  BY <1>5 DEF Drop
<1>7. /\ UploadTables' /\ aux'.open = open /\ aux'.staged = aux.staged /\ aux'.blobs = aux.blobs
      /\ aux'.seen = aux.seen /\ aux'.lost = aux.lost /\ aux'.origin = aux.origin
      /\ DataOf(p)' = DataOf(p)
  BY <1>2, <1>3, <1>5, <1>6, OpenChanged
<1>8. ASSUME NEW q \in UploadIds \ {p} PROVE Untouched(q)
  BY <1>2, <1>6, <1>7, <1>8 DEF Untouched
<1>9. BlobsMatchDigest' /\ BlobsStay
  BY <1>2, <1>3, <1>4, <1>7, BlobsKept
<1>10. ASSUME ~(Disturbed(p)')
       PROVE  /\ Finalized(p) = {aux.open[p]} /\ DataOf(p) = aux.open[p] /\ UnitsExact(p)'
              /\ \A d \in Clients : On(d, p) => d = c
  <2>1. Sound(p) /\ \A d \in Clients : On(d, p) => d = c
    BY <1>2, <1>3, <1>10, Undisturbed
  <2>2. p \in DOMAIN aux.open
    BY <1>3, <2>1 DEF Sound, ClosedOnce, Closers
  <2>3. DataOf(p) = aux.open[p]
    <3>1. \A d \in Clients : ~Doing(d, p, "hash") /\ ~Doing(d, p, "uploadAbandon")
      BY <1>3, <2>1 DEF Doing, At
    <3> QED BY <2>1, <2>2, <3>1 DEF Sound, HashFollows
  <2>4. UnitsExact(p)'
    BY <1>7, <2>1 DEF Sound, UnitsExact
  <2> QED BY <2>1, <2>2, <2>3, <2>4 DEF Finalized
<1>11. CASE Finalized(p) = {} /\ Reply(c, 404, Nothing)
  <2>1. Finishes(c)
    BY <1>3, <1>11, ReplyFinishes
  <2>2. Disturbed(p)'
    BY <1>10, <1>11
  <2> QED BY <1>1, <1>2, <1>4, <1>7, <1>8, <1>9, <2>1, <2>2, FinishKeeps
<1>12. CASE digest \in Finalized(p) /\ Advance(c)
  <2>1. Proceeds(c, Rest(c), job[c].mem)
    BY <1>3, <1>12, AdvanceProceeds
  <2>2. Rest(c) = <<"move", "uploadCreated">>
    BY <1>3, RestPlan DEF Lasts, Onward, Rest
  <2>3. ASSUME ~(Disturbed(p)') PROVE Sound(p)'
    <3>1. digest = DataOf(p) /\ UnitsExact(p)' /\ \A d \in Clients : On(d, p) => d = c
      BY <1>10, <1>12, <2>3
    <3>2. /\ job'[c].plan = <<"move", "uploadCreated">> /\ job'[c].p = p
          /\ job'[c].mem = job[c].mem /\ \A d \in Clients : On(d, p)' => d = c
      BY <1>1, <2>1, <2>2, <3>1 DEF Proceeds, On
    <3>3. <<"move", "uploadCreated">> # <<>> /\ Head(<<"move", "uploadCreated">>) = "move"
      OBVIOUS
    <3>4. /\ Doing(c, p, "move")'
          /\ \A d \in Clients : \A x \in {"hash", "uploadErase", "localWrite", "uploadAbandon"} :
               ~(Doing(d, p, x)')
      BY <3>2, <3>3 DEF Doing, On, At
    <3>5. p \notin DOMAIN aux'.open
      BY <1>6, <1>7
    <3>6. HashFollows(p)'
      BY <3>4, <3>5 DEF HashFollows
    <3>7. ClosedOnce(p)'
      <4>1. \A d \in Clients : On(d, p)' => Head(job'[d].plan) \in Closers
        BY <3>2, <3>3 DEF Closers
      <4>2. ASSUME NEW d \in Clients, Doing(d, p, "move")' PROVE DataOf(p)' = job'[d].mem.digest
        <5>1. d = c
          BY <3>2, <4>2 DEF Doing
        <5> QED BY <1>1, <1>7, <3>1, <3>2, <5>1
      <4> QED BY <3>4, <3>5, <4>1, <4>2 DEF ClosedOnce
    <3> QED BY <3>1, <3>6, <3>7 DEF Sound
  <2> QED BY <1>1, <1>2, <1>3, <1>4, <1>7, <1>8, <1>9, <2>1, <2>3, ProceedKeeps DEF Lasts
<1>13. CASE digest \notin Finalized(p) /\ Goto(c, <<"uploadErase", "uploadMismatch">>)
  <2>1. Proceeds(c, <<"uploadErase", "uploadMismatch">>, job[c].mem)
    BY <1>3, <1>13, GotoProceeds
  <2>2. /\ <<"uploadErase", "uploadMismatch">> \in PlansOf(storage)
        /\ <<"uploadErase", "uploadMismatch">> # <<"uploadBegin">>
        /\ <<"uploadErase", "uploadMismatch">> # <<>>
        /\ Head(<<"uploadErase", "uploadMismatch">>) = "uploadErase"
    BY DEF PlansOf, UploadPlans
  <2>3. UploadJobs'
    BY <1>2, <1>3, <2>1, <2>2, ProceededTo
  <2>4. job'[c].plan = <<"uploadErase", "uploadMismatch">> /\ job'[c].p = p
        /\ \A d \in Clients \ {c} : job'[d] = job[d]
    BY <1>1, <2>1 DEF Proceeds
  <2>5. Fresh(p)'
    <3>1. \A d \in Clients : Doing(d, p, "uploadBegin")' => Doing(d, p, "uploadBegin")
      BY <2>2, <2>4 DEF Doing, On, At
    <3> QED BY <1>3, <1>7, <3>1, FreshStays DEF At
  <2>6. ASSUME ~(Disturbed(p)') PROVE Sound(p)'
    <3>1. UnitsExact(p)' /\ \A d \in Clients : On(d, p) => d = c
      BY <1>10, <2>6
    <3>2. \A d \in Clients : On(d, p)' => d = c
      BY <2>4, <3>1 DEF On
    <3>3. /\ Doing(c, p, "uploadErase")'
          /\ \A d \in Clients : \A x \in {"hash", "move", "localWrite", "uploadAbandon"} :
               ~(Doing(d, p, x)')
      BY <2>2, <2>4, <3>2 DEF Doing, On, At
    <3>4. p \notin DOMAIN aux'.open
      BY <1>6, <1>7
    <3>5. HashFollows(p)'
      BY <3>3, <3>4 DEF HashFollows
    <3>6. ClosedOnce(p)'
      <4>1. \A d \in Clients : On(d, p)' => Head(job'[d].plan) \in Closers
        BY <2>2, <2>4, <3>2 DEF Closers
      <4>2. ASSUME NEW d \in Clients, Doing(d, p, "uploadErase")'
            PROVE  Rest(d)' # <<"uploadAbandon">>
        <5>1. d = c
          BY <3>2, <4>2 DEF Doing
        <5>2. Tail(<<"uploadErase", "uploadMismatch">>) = <<"uploadMismatch">>
          BY Tail2
        <5>3. <<"uploadMismatch">> # <<"uploadAbandon">>
          OBVIOUS
        <5> QED BY <2>4, <5>1, <5>2, <5>3 DEF Rest
      <4> QED BY <3>3, <3>4, <4>1, <4>2 DEF ClosedOnce
    <3> QED BY <3>1, <3>5, <3>6 DEF Sound
  <2>7. ASSUME NEW q \in UploadIds, q # p PROVE Untouched(q) /\ SameOn(q)
    BY <1>1, <1>8, <2>1, <2>7, SameElsewhere
  <2> QED BY <1>2, <1>4, <1>7, <1>9, <2>3, <2>5, <2>6, <2>7, UploadsKept
<1> QED BY <1>2, <1>11, <1>12, <1>13

\* The staging entry and the file of an upload go, when its blob appears or is there.
LEMMA MovedTables ==
  ASSUME UploadTables, NEW p \in UploadIds, NEW blobs, NEW origin, DOMAIN blobs \subseteq DOMAIN origin,
         aux' = [aux EXCEPT !.staged = Drop(@, {p}), !.blobs = blobs, !.origin = origin],
         store' = Drop(store, {UploadFile(p)}), storage' = storage
  PROVE  /\ UploadTables' /\ NoData(p)' /\ UnitsExact(p)' /\ aux'.open = aux.open
         /\ aux'.seen = aux.seen /\ aux'.lost = aux.lost /\ aux'.blobs = blobs /\ aux'.origin = origin
         /\ \A q \in UploadIds \ {p} : Untouched(q)
<1>1. /\ AuxShape(aux') /\ aux'.open = aux.open /\ aux'.staged = Drop(aux.staged, {p})
      /\ aux'.blobs = blobs /\ aux'.origin = origin
      /\ aux'.seen = aux.seen /\ aux'.lost = aux.lost
  BY DEF UploadTables, AuxShape
<1>2. /\ DOMAIN aux'.staged = DOMAIN aux.staged \ {p}
      /\ \A q \in DOMAIN aux.staged \ {p} : aux'.staged[q] = aux.staged[q]
      /\ DOMAIN store' = DOMAIN store \ {UploadFile(p)}
      /\ \A f \in DOMAIN store \ {UploadFile(p)} : store'[f] = store[f]
  BY <1>1 DEF Drop
<1>3. UploadTables'
  BY <1>1, <1>2 DEF UploadTables, StagedEntry
<1>4. NoData(p)' /\ UnitsExact(p)'
  BY <1>2 DEF NoData, UnitsExact
<1>5. ASSUME NEW q \in UploadIds \ {p} PROVE Untouched(q)
  <2>1. UploadFile(q) # UploadFile(p)
    BY <1>5, UploadFiles
  <2> QED BY <1>1, <1>2, <1>5, <2>1 DEF Untouched
<1> QED BY <1>1, <1>3, <1>4, <1>5

\* The file of an upload is moved to the blob.
LEMMA MovedKeeps ==
  ASSUME UploadInv, kind = "dockerUploads", NEW c \in Clients, At(c, "move"),
         NEW p, p = job[c].p, NEW d, d = job[c].mem.digest, NEW x, x = DataOf(p),
         NEW blobs, NEW origin,
         \/ blobs = aux.blobs /\ origin = aux.origin
         \/ /\ blobs = Put(aux.blobs, d, x) /\ origin = Put(aux.origin, d, p)
            /\ storage # "s3" \/ d \notin DOMAIN aux.blobs,
         aux' = [aux EXCEPT !.staged = Drop(@, {p}), !.blobs = blobs, !.origin = origin],
         store' = Drop(store, {UploadFile(p)}), kind' = kind, storage' = storage,
         Touch(c, {Upload(p)}), broken' = broken, Redirects(c, p, Rest(c))
  PROVE  UploadInv'
<1>1. /\ UploadJobs /\ UploadTables /\ BlobsMatchDigest /\ p \in UploadIds /\ job[c].plan # <<>>
      /\ On(c, p) /\ Doing(c, p, "move") /\ Head(job[c].plan) = "move"
      /\ (Disturbed(p) \/ Sound(p))
  BY UploadAt
<1>2. raced \subseteq raced'
  BY <1>1, AloneAfterTouch
<1>3. \/ blobs = aux.blobs /\ origin = aux.origin
      \/ /\ blobs[d] = x /\ origin[d] = p /\ (storage # "s3" \/ d \notin DOMAIN aux.blobs)
         /\ DOMAIN blobs = DOMAIN aux.blobs \cup {d} /\ DOMAIN origin = DOMAIN aux.origin \cup {d}
         /\ \A e \in DOMAIN aux.blobs \ {d} : blobs[e] = aux.blobs[e]
         /\ \A e \in DOMAIN aux.origin \ {d} : origin[e] = aux.origin[e]
  BY DEF Put
<1>4. DOMAIN aux.blobs \subseteq DOMAIN aux.origin /\ DOMAIN blobs \subseteq DOMAIN origin
  BY <1>1, <1>3 DEF UploadTables
<1>5. /\ UploadTables' /\ NoData(p)' /\ UnitsExact(p)' /\ aux'.open = aux.open
      /\ aux'.seen = aux.seen /\ aux'.lost = aux.lost /\ aux'.blobs = blobs /\ aux'.origin = origin
      /\ \A q \in UploadIds \ {p} : Untouched(q)
  BY <1>1, <1>4, MovedTables
<1>6. ASSUME ~(Disturbed(p)') PROVE Sound(p)' /\ x = d
  <2>1. Sound(p) /\ \A e \in Clients : On(e, p) => e = c
    BY <1>1, <1>6, Undisturbed
  <2>2. p \notin DOMAIN aux.open /\ x = d
    BY <1>1, <2>1 DEF Sound, ClosedOnce
  <2>3. Rest(c) = <<"uploadCreated">>
    BY <1>1, RestPlan DEF Lasts, Onward, Rest
  <2>4. job'[c].plan = <<"uploadCreated">> /\ \A e \in Clients : On(e, p)' => e = c
    BY <2>1, <2>3 DEF Redirects, On
  <2>5. Head(<<"uploadCreated">>) = "uploadCreated"
    OBVIOUS
  <2>6. \A e \in Clients : On(e, p)' => Head(job'[e].plan) \in {"uploadCreated", "uploadMismatch"}
    BY <2>4, <2>5
  <2> QED BY <1>5, <2>2, <2>6, GoneSound
<1>7. BlobsMatchDigest' /\ BlobsStay
  <2>1. CASE blobs = aux.blobs /\ origin = aux.origin
    BY <1>1, <1>2, <1>5, <2>1, BlobsKept
  <2>2. CASE /\ blobs[d] = x /\ origin[d] = p /\ (storage # "s3" \/ d \notin DOMAIN aux.blobs)
             /\ DOMAIN blobs = DOMAIN aux.blobs \cup {d}
             /\ \A e \in DOMAIN aux.blobs \ {d} : blobs[e] = aux.blobs[e]
             /\ \A e \in DOMAIN aux.origin \ {d} : origin[e] = aux.origin[e]
    <3>1. ASSUME NEW e \in DOMAIN aux'.blobs
          PROVE  Upload(aux'.origin[e]) \in raced' \cup broken' \/ aux'.blobs[e] = e
      <4>1. CASE e = d
        BY <1>5, <1>6, <2>2, <4>1 DEF Disturbed
      <4>2. CASE e # d
        <5>1. e \in DOMAIN aux.blobs /\ aux'.blobs[e] = aux.blobs[e] /\ aux'.origin[e] = aux.origin[e]
          BY <1>5, <1>4, <2>2, <3>1, <4>2
        <5> QED BY <1>1, <1>2, <5>1 DEF BlobsMatchDigest, Disturbed
      <4> QED BY <4>1, <4>2
    <3>2. BlobsStay
      <4>1. storage = "s3" => d \notin DOMAIN aux.blobs
        BY <2>2
      <4> QED BY <1>5, <2>2, <4>1 DEF BlobsStay
    <3> QED BY <3>1, <3>2 DEF BlobsMatchDigest, Disturbed
  <2> QED BY <1>3, <2>1, <2>2
<1> QED BY <1>2, <1>5, <1>6, <1>7, RedirectKeeps

\* What a move finds is what the upload has.
LEMMA MoveUploadKeeps ==
  ASSUME UploadInv, kind = "dockerUploads", NEW c \in Clients, MoveUpload(c) PROVE UploadInv'
<1>1. PICK p, d : p = job[c].p /\ d = job[c].mem.digest
  OBVIOUS
<1>2. PICK data : data = IF storage = "local" THEN {store[path] : path \in {UploadFile(p)} \cap DOMAIN store}
                         ELSE {aux.staged[q].data : q \in {p} \cap DOMAIN aux.staged}
  OBVIOUS
<1>3. At(c, "move") /\ kind' = kind /\ storage' = storage /\ broken' = broken
  BY DEF MoveUpload, worldVars
<1>4. /\ UploadJobs /\ UploadTables /\ BlobsMatchDigest /\ p \in UploadIds /\ job[c].plan # <<>>
      /\ On(c, p) /\ Doing(c, p, "move") /\ Head(job[c].plan) = "move"
      /\ (Disturbed(p) \/ Sound(p))
  BY <1>1, <1>3, UploadAt
<1>5. (data = {} => NoData(p)) /\ data \subseteq {DataOf(p)}
  <2>1. CASE storage = "local"
    BY <1>2, <1>4, <2>1 DEF NoData, DataOf, LocalData, UploadTables
  <2>2. CASE storage # "local"
    BY <1>2, <1>4, <2>2 DEF NoData, DataOf, UploadTables
  <2> QED BY <2>1, <2>2
<1>6. ASSUME NEW code, Reply(c, code, Nothing), store' = store, aux' = aux, raced' = raced,
             Sound(p) => NoData(p) \/ SpoiltDigest(p)
      PROVE  UploadInv'
  <2>1. Finishes(c)
    BY <1>4, <1>6, ReplyFinishes
  <2>2. ASSUME Sound(p) PROVE Sound(p)'
    <3>1. p \notin DOMAIN aux.open /\ (NoData(p) \/ SpoiltDigest(p))
      BY <1>4, <1>6, <2>2 DEF Sound, ClosedOnce
    <3>2. /\ ~(On(c, p)')
          /\ \A e \in Clients \ {c} : (On(e, p)' <=> On(e, p)) /\ job'[e] = job[e]
      BY <2>1, OthersFinished
    <3>3. \A e \in Clients : On(e, p)' => On(e, p) /\ job'[e] = job[e] /\ e # c
      BY <3>2
    <3>4. \A e \in Clients : \A y : Doing(e, p, y)' => Doing(e, p, y) /\ job'[e] = job[e]
      BY <3>3 DEF Doing, At
    <3>5. DataOf(p)' = DataOf(p) /\ NoData(p)' = NoData(p) /\ SpoiltDigest(p)' = SpoiltDigest(p)
      BY <1>3, <1>6 DEF DataOf, NoData, LocalData, SpoiltDigest
    <3>6. HashFollows(p)'
      BY <1>6, <2>2, <3>1, <3>4 DEF Sound, HashFollows
    <3>7. ClosedOnce(p)'
      <4>1. \A e \in Clients : On(e, p)' => Head(job'[e].plan) \in Closers
        BY <2>2, <3>1, <3>3 DEF Sound, ClosedOnce
      <4>2. ASSUME NEW e \in Clients, Doing(e, p, "uploadErase")'
            PROVE  Rest(e)' # <<"uploadAbandon">>
        BY <2>2, <3>1, <3>4, <4>2 DEF Sound, ClosedOnce, Rest
      <4>3. ASSUME NEW e \in Clients, Doing(e, p, "move")' PROVE DataOf(p)' = job'[e].mem.digest
        BY <2>2, <3>4, <3>5, <4>3 DEF Sound, ClosedOnce
      <4>4. ASSUME NEW e \in Clients, Doing(e, p, "uploadAbandon")' PROVE FALSE
        BY <2>2, <3>1, <3>3, <4>4 DEF Sound, ClosedOnce, Closers, Doing, At
      <4> QED BY <1>6, <3>1, <3>5, <4>1, <4>2, <4>3, <4>4 DEF ClosedOnce
    <3>8. UnitsExact(p)'
      BY <1>6, <2>2 DEF Sound, UnitsExact
    <3> QED BY <3>6, <3>7, <3>8 DEF Sound
  <2> QED BY <1>1, <1>3, <1>6, <2>1, <2>2, EndKeeps
<1>7. CASE data = {} /\ Reply(c, 404, Nothing) /\ store' = store /\ aux' = aux /\ raced' = raced
  BY <1>5, <1>6, <1>7
<1>8. CASE /\ storage = "s3" /\ ~SizeFits(d, data)
           /\ Reply(c, 500, Nothing) /\ store' = store /\ aux' = aux /\ raced' = raced
  <2>1. PICK x \in data : d \in DOMAIN aux.blobs /\ Len(x) # Len(aux.blobs[d])
    BY <1>8 DEF SizeFits
  <2>2. x = DataOf(p)
    BY <1>5, <2>1
  <2>3. p \in DOMAIN aux.staged /\ x = aux.staged[p].data
    BY <1>2, <1>8, <2>1
  <2>4. Sound(p) => SpoiltDigest(p)
    <3>1. Sound(p) => x = d
      BY <1>1, <1>4, <2>2 DEF Sound, ClosedOnce
    <3> QED BY <1>8, <2>1, <2>3, <3>1 DEF SpoiltDigest
  <2> QED BY <1>6, <1>8, <2>4
<1>9. ASSUME NEW x \in data,
             aux' = [aux EXCEPT !.staged = Drop(@, {p}),
                       !.blobs = IF storage = "s3" /\ d \in DOMAIN @ THEN @ ELSE Put(@, d, x),
                       !.origin = IF storage = "s3" /\ d \in DOMAIN aux.blobs THEN @ ELSE Put(@, d, p)],
             store' = Drop(store, {UploadFile(p)}), Touch(c, {Upload(p)}),
             job' = [Descriptors(c, "blob") EXCEPT ![c].plan = Rest(c)]
      PROVE  UploadInv'
  <2>1. Redirects(c, p, Rest(c))
    BY <1>1, <1>4, <1>9, DescriptorsRedirect
  <2>2. x = DataOf(p)
    BY <1>5, <1>9
  <2>3. CASE storage = "s3" /\ d \in DOMAIN aux.blobs
    <3>1. aux' = [aux EXCEPT !.staged = Drop(@, {p}), !.blobs = aux.blobs, !.origin = aux.origin]
      BY <1>9, <2>3
    <3> QED BY <1>1, <1>3, <1>9, <2>1, <2>2, <3>1, MovedKeeps
  <2>4. CASE ~(storage = "s3" /\ d \in DOMAIN aux.blobs)
    <3>1. PICK blobs, origin : blobs = Put(aux.blobs, d, x) /\ origin = Put(aux.origin, d, p)
      OBVIOUS
    <3>2. aux' = [aux EXCEPT !.staged = Drop(@, {p}), !.blobs = blobs, !.origin = origin]
      BY <1>9, <2>4, <3>1
    <3>3. storage # "s3" \/ d \notin DOMAIN aux.blobs
      BY <2>4
    <3>4. \/ blobs = aux.blobs /\ origin = aux.origin
          \/ /\ blobs = Put(aux.blobs, d, x) /\ origin = Put(aux.origin, d, p)
             /\ storage # "s3" \/ d \notin DOMAIN aux.blobs
      BY <3>1, <3>3
    <3>5. At(c, "move") /\ store' = Drop(store, {UploadFile(p)}) /\ kind' = kind /\ storage' = storage
          /\ Touch(c, {Upload(p)}) /\ broken' = broken /\ Redirects(c, p, Rest(c))
      BY <1>3, <1>9, <2>1
    <3> QED BY <1>1, <2>2, <3>2, <3>4, <3>5, MovedKeeps
  <2> QED BY <2>3, <2>4
<1> QED BY <1>1, <1>2, <1>7, <1>8, <1>9 DEF MoveUpload

------------------------------------------------------------------------------
(* Every step of an uploading repository, and every other step.            *)

\* A step fails.
LEMMA FailureKeeps ==
  ASSUME UploadInv, kind = "dockerUploads", NEW c \in Clients, StepFails(c) PROVE UploadInv'
<1>1. PICK p, x : p = job[c].p /\ x = Head(job[c].plan)
  OBVIOUS
<1>2. /\ kind' = kind /\ storage' = storage /\ store' = store /\ aux' = aux /\ raced' = raced
      /\ job[c].plan # <<>> /\ At(c, x) /\ Fault(c) /\ Abort(c, 500)
  BY <1>1 DEF StepFails, worldVars, Idle, At
<1>3. UploadJobs /\ job[c].reads = {Upload(p)}
  BY <1>1, <1>2, UploadAt
<1>4. Finishes(c)
  BY <1>2, <1>3, AbortFinishes
<1>5. broken \subseteq broken' /\ Disturbed(p)'
  BY <1>2, <1>3, FaultDisturbs
<1> QED BY <1>1, <1>2, <1>4, <1>5, EndKeeps

\* The server forgets the open uploads and the staging area.
LEMMA RestartKeeps ==
  ASSUME UploadInv, kind = "dockerUploads", Restart PROVE UploadInv'
<1>1. /\ kind' = kind /\ storage' = storage /\ store' = store /\ raced' = raced
      /\ job' = [c \in Clients |-> NoJob] /\ aux' = InMemory
      /\ broken' = broken \cup UNION {{<<job[c].p, job[c].v>>} \cup job[c].reads : c \in Clients}
  BY DEF Restart, worldVars
<1>2. /\ UploadJobs /\ UploadTables /\ BlobsMatchDigest
      /\ \A q \in UploadIds : Fresh(q) /\ (Disturbed(q) \/ Sound(q))
  BY DEF UploadInv
<1>3. aux' = [aux EXCEPT !.open = EmptyMap, !.staged = EmptyMap, !.lost = @ \cup DOMAIN aux.open]
  BY <1>1 DEF InMemory
<1>4. /\ AuxShape(aux') /\ aux'.open = EmptyMap /\ aux'.staged = EmptyMap /\ aux'.blobs = aux.blobs
      /\ aux'.seen = aux.seen /\ aux'.lost = aux.lost \cup DOMAIN aux.open /\ aux'.origin = aux.origin
  BY <1>2, <1>3 DEF UploadTables, AuxShape
<1>5. DOMAIN EmptyMap = {}
  BY DEF EmptyMap
<1>6. UploadTables'
  BY <1>1, <1>2, <1>4, <1>5 DEF UploadTables
<1>7. UploadJobs'
  <2>1. JobShape(NoJob) /\ NoJob.plan = <<>> /\ NoJob.reads = {}
    BY DEF NoJob, JobShape
  <2>2. \A c \in Clients : job'[c] = NoJob
    BY <1>1
  <2>3. job' = [c \in Clients |-> job'[c]]
    BY <1>1
  <2> QED BY <2>1, <2>2, <2>3 DEF UploadJobs, UploadJob
<1>8. BlobsMatchDigest' /\ BlobsStay
  BY <1>1, <1>2, <1>4, BlobsKept
<1>9. \A c \in Clients : \A q : ~(On(c, q)')
  <2>1. NoJob.plan = <<>>
    BY DEF NoJob
  <2>2. \A c \in Clients : job'[c] = NoJob
    BY <1>1
  <2> QED BY <2>1, <2>2 DEF On
<1>10. ASSUME NEW q \in UploadIds PROVE Fresh(q)' /\ (Disturbed(q)' \/ Sound(q)')
  <2>1. UploadFile(q) \notin DOMAIN store => NoData(q)'
    BY <1>1, <1>4, <1>5 DEF NoData
  <2>2. Fresh(q)'
    BY <1>2, <1>4, <1>9, <1>10, <2>1 DEF Fresh, NoData, Doing
  <2>3. Disturbed(q) => Disturbed(q)'
    BY <1>1 DEF Disturbed
  <2>4. ASSUME Sound(q), ~(Disturbed(q)') PROVE Sound(q)'
    <3>1. \A c \in Clients : ~On(c, q)
      <4>1. ASSUME NEW c \in Clients, On(c, q) PROVE FALSE
        <5>1. Upload(q) \in job[c].reads
          BY <1>2, <4>1 DEF UploadJobs, UploadJob, On
        <5>2. Upload(q) \in broken'
          BY <1>1, <5>1
        <5> QED BY <2>4, <5>2 DEF Disturbed
      <4> QED BY <4>1
    <3>2. q \in aux.seen \ (aux'.lost \cup DOMAIN aux'.open) => NoData(q)'
      <4>1. SUFFICES ASSUME q \in aux.seen \ (aux.lost \cup DOMAIN aux.open) PROVE NoData(q)'
        BY <1>4
      <4>2. NoData(q) \/ SpoiltDigest(q)
        BY <2>4, <3>1, <4>1 DEF Sound, ClosedOnce, Doing
      <4>3. CASE NoData(q)
        BY <2>1, <4>3 DEF NoData
      <4>4. CASE SpoiltDigest(q)
        <5>1. UploadFile(q) \notin DOMAIN store
          BY <1>2, <4>4 DEF SpoiltDigest, UploadTables
        <5> QED BY <2>1, <5>1
      <4> QED BY <4>2, <4>3, <4>4
    <3>3. HashFollows(q)'
      BY <1>4, <1>5, <1>9 DEF HashFollows, Doing
    <3>4. ClosedOnce(q)'
      BY <1>4, <1>9, <3>2 DEF ClosedOnce, Doing
    <3>5. UnitsExact(q)'
      BY <1>4, <1>5 DEF UnitsExact
    <3> QED BY <3>3, <3>4, <3>5 DEF Sound
  <2> QED BY <1>2, <1>10, <2>2, <2>3, <2>4
<1> QED BY <1>1, <1>6, <1>7, <1>8, <1>10, UploadsKept

\* The requests of uploads take none of the shared steps, but may fail.
LEMMA SharedStepFails ==
  ASSUME UploadInv, kind = "dockerUploads", NEW c \in Clients, SharedStep(c) PROVE StepFails(c)
<1>1. ASSUME NEW x, At(c, x) PROVE x \in UploadSteps
  <2>1. job[c].plan \in PlansOf(storage) /\ Head(job[c].plan) = x
    <3>1. PICK p : p = job[c].p
      OBVIOUS
    <3> QED BY <1>1, <3>1, UploadAt
  <2> QED BY <2>1, UploadPlanHeads
<1>2. ~FindProject(c)
  BY <1>1 DEF FindProject, UploadSteps
<1>3. ~InsertProject(c)
  BY <1>1 DEF InsertProject, UploadSteps
<1>4. ~InsertVersion(c)
  BY <1>1 DEF InsertVersion, UploadSteps
<1>5. ~UpdateVersion(c)
  BY <1>1 DEF UpdateVersion, UploadSteps
<1>6. ~UpsertFileRow(c)
  BY <1>1 DEF UpsertFileRow, UploadSteps
<1>7. ~NextPath(c)
  <2>1. NextPath(c) => At(c, "nextPath")
    BY Zenon DEF NextPath
  <2> QED BY <1>1, <2>1 DEF UploadSteps
<1>8. ~Erase(c)
  BY <1>1 DEF Erase, UploadSteps
<1>19. ~EraseFails(c)
  BY <1>1 DEF EraseFails, UploadSteps
<1>9. ~DeleteTargets(c)
  <2>1. DeleteTargets(c) => At(c, "targets")
    BY Zenon DEF DeleteTargets, DeleteVersions
  <2> QED BY <1>1, <2>1 DEF UploadSteps
<1>10. ~DeleteTrees(c)
  <2>1. DeleteTrees(c) => At(c, "trees")
    BY Zenon DEF DeleteTrees, DeleteVersions
  <2> QED BY <1>1, <2>1 DEF UploadSteps
<1>11. ~SoftDelete(c)
  BY <1>1 DEF SoftDelete, UploadSteps
<1>12. ~ServeStored(c)
  BY <1>1 DEF ServeStored, UploadSteps
<1>13. ~PassThrough(c)
  BY <1>1 DEF PassThrough, UploadSteps
<1>14. ~NotFound(c)
  BY <1>1 DEF NotFound, UploadSteps
<1>15. ~IndexFind(c)
  BY <1>1 DEF IndexFind, UploadSteps
<1>16. ~IndexDelete(c)
  BY <1>1 DEF IndexDelete, UploadSteps
<1>17. ~EvictCached(c)
  BY <1>1 DEF EvictCached, UploadSteps
<1>18. ~Logs(c)
  BY <1>1 DEF Logs, UploadSteps
<1> QED BY <1>2, <1>3, <1>4, <1>5, <1>6, <1>7, <1>8, <1>9, <1>10,
           <1>11, <1>12, <1>13, <1>14, <1>15, <1>16, <1>17, <1>18, <1>19
         DEF SharedStep, CatalogSteps, DeletionSteps, ProxySteps

\* Every step of a request keeps the invariant.
LEMMA UploadStepKeeps ==
  ASSUME UploadInv, kind = "dockerUploads", NEW c \in Clients, BlobUploadStep(c) PROVE UploadInv'
<1>1. CASE UploadBegin(c) \/ UploadStatus(c) \/ UploadCancel(c) \/ UploadChunk(c) \/ UploadComplete(c)
  BY <1>1, BeginKeeps, StatusKeeps, CancelKeeps, ChunkKeeps, CompleteKeeps
<1>2. CASE UploadBegins(c) \/ UploadAnswer(c) \/ LocalOpen(c) \/ LocalWrite(c)
  BY <1>2, BeginsKeeps, AnswerKeeps, LocalOpenKeeps, LocalWriteKeeps
<1>3. CASE SpoolBody(c) \/ StagedAppend(c) \/ HashSpooled(c)
  BY <1>3, SpoolKeeps, StagedAppendKeeps, HashKeeps
<1>4. CASE UploadErase(c) \/ UploadAbandon(c) \/ Finalize(c) \/ MoveUpload(c)
  BY <1>4, EraseKeeps, AbandonKeeps, FinalizedKeeps, MoveUploadKeeps
<1> QED BY <1>1, <1>2, <1>3, <1>4 DEF BlobUploadStep

\* Nothing happens.
LEMMA StutterKeeps == ASSUME UploadInv, kind = "dockerUploads", UNCHANGED vars PROVE UploadInv'
<1>1. /\ kind' = kind /\ storage' = storage /\ store' = store /\ aux' = aux /\ job' = job
      /\ raced' = raced /\ broken' = broken
  BY DEF vars
<1>2. UploadJobs /\ UploadTables /\ BlobsMatchDigest
  BY DEF UploadInv
<1>3. UploadJobs'
  BY <1>1, <1>2 DEF UploadJobs, UploadJob
<1>4. UploadTables' /\ BlobsMatchDigest' /\ BlobsStay /\ \A q : Untouched(q)
  BY <1>1, <1>2, TablesSame, BlobsKept, NothingTouched
<1>5. \A q : SameOn(q)
  BY <1>1 DEF SameOn
<1> QED BY <1>1, <1>3, <1>4, <1>5, UploadsKept

\* The invariant is inductive, and holds at the start.
LEMMA UploadInvNext == ASSUME RowsInv, UploadInv, [Next]_vars PROVE UploadInv'
<1>1. kind' = kind
  BY RowsInvNext DEF Fixed
<1>2. CASE kind # "dockerUploads"
  BY <1>1, <1>2 DEF UploadInv
<1>3. CASE kind = "dockerUploads"
  <2>1. CASE UNCHANGED vars
    BY <1>3, <2>1, StutterKeeps
  <2>2. CASE WorldStep
    <3>1. Restart
      BY <1>3, <2>2 DEF WorldStep, ProxyKinds, VirtualKinds, MetaUpdates
    <3> QED BY <1>3, <3>1, RestartKeeps
  <2>3. ASSUME NEW c \in Clients, HandlerStep(c) PROVE UploadInv'
    <3>1. BlobUploadStep(c)
      BY <1>3, <2>3 DEF HandlerStep, VirtualKinds
    <3> QED BY <1>3, <3>1, UploadStepKeeps
  <2>4. ASSUME NEW c \in Clients, SharedStep(c) PROVE UploadInv'
    BY <1>3, <2>4, SharedStepFails, FailureKeeps
  <2> QED BY <2>1, <2>2, <2>3, <2>4 DEF Next
<1> QED BY <1>2, <1>3

\* The invariant holds at the start.
LEMMA UploadInvInit == ASSUME Init PROVE UploadInv
<1>1. SUFFICES ASSUME kind = "dockerUploads"
               PROVE  /\ UploadJobs /\ UploadTables /\ BlobsMatchDigest
                      /\ \A p \in UploadIds : Fresh(p) /\ Sound(p)
  BY DEF UploadInv
<1>2. aux = UploadsInit /\ store = EmptyMap /\ job = [c \in Clients |-> NoJob]
  BY <1>1 DEF Init, RepositoryInit, FirstStates, VirtualKinds
<1>3. /\ AuxShape(aux) /\ aux.open = EmptyMap /\ aux.staged = EmptyMap /\ aux.blobs = EmptyMap
      /\ aux.seen = {} /\ aux.lost = {} /\ aux.origin = EmptyMap
  BY <1>2 DEF UploadsInit, AuxShape
<1>4. DOMAIN EmptyMap = {}
  BY DEF EmptyMap
<1>5. UploadTables
  BY <1>2, <1>3, <1>4 DEF UploadTables
<1>6. \A c \in Clients : job[c] = NoJob /\ job[c].plan = <<>>
  BY <1>2 DEF NoJob
<1>7. UploadJobs
  <2>1. JobShape(NoJob) /\ NoJob.plan = <<>> /\ NoJob.reads = {}
    BY DEF NoJob, JobShape
  <2> QED BY <1>2, <1>6, <2>1 DEF UploadJobs, UploadJob
<1>8. BlobsMatchDigest
  BY <1>3, <1>4 DEF BlobsMatchDigest
<1>9. ASSUME NEW p \in UploadIds PROVE Fresh(p) /\ Sound(p)
  <2>1. NoData(p) /\ \A c \in Clients : ~On(c, p) /\ \A x : ~Doing(c, p, x)
    BY <1>2, <1>3, <1>4, <1>6 DEF NoData, On, Doing
  <2>2. Fresh(p)
    BY <1>3, <2>1 DEF Fresh
  <2>3. HashFollows(p) /\ ClosedOnce(p) /\ UnitsExact(p)
    BY <1>3, <1>4, <2>1 DEF HashFollows, ClosedOnce, UnitsExact
  <2> QED BY <2>2, <2>3 DEF Sound
<1> QED BY <1>5, <1>7, <1>8, <1>9

\* A blob is stored under the digest of its content, an upload that is over leaves nothing behind,
\* and the staging budget counts exactly the chunks that are staged, unless requests overlapped on
\* the upload or one of them failed half way.
THEOREM UploadsKeepTheirWord == Spec => []UploadsExact
<1>1. ASSUME UploadInv PROVE UploadsExact
  <2>1. BlobsMatchDigest
    BY <1>1 DEF UploadInv, BlobsMatchDigest
  <2>2. UploadsLeaveNothing
    <3>1. SUFFICES ASSUME kind = "dockerUploads", Quiescent,
                          NEW p \in aux.seen \ (aux.lost \cup DOMAIN aux.open), ~Disturbed(p)
                   PROVE  SpoiltDigest(p) \/ NoData(p)
      BY DEF UploadsLeaveNothing, NoData
    <3>2. p \in UploadIds
      BY <1>1, <3>1 DEF UploadInv, UploadTables
    <3>3. ClosedOnce(p)
      BY <1>1, <3>1, <3>2 DEF UploadInv, Sound
    <3>4. \A c \in Clients : ~On(c, p)
      BY <3>1 DEF Quiescent, Idle, On
    <3> QED BY <3>1, <3>3, <3>4 DEF ClosedOnce, Doing
  <2>3. StagedUnitsExact
    <3>1. SUFFICES ASSUME kind = "dockerUploads", NEW p \in DOMAIN aux.staged, ~Disturbed(p)
                   PROVE  aux.staged[p].units = Len(aux.staged[p].data)
      BY DEF StagedUnitsExact
    <3>2. p \in UploadIds
      BY <1>1, <3>1 DEF UploadInv, UploadTables
    <3> QED BY <1>1, <3>1, <3>2 DEF UploadInv, Sound, UnitsExact
  <2> QED BY <2>1, <2>2, <2>3 DEF UploadsExact
<1>2. RowsInv /\ UploadInv /\ [Next]_vars => (RowsInv /\ UploadInv)'
  BY RowsInvNext, UploadInvNext
<1>3. Init => RowsInv /\ UploadInv
  BY RowsInvInit, UploadInvInit
<1> QED BY <1>1, <1>2, <1>3, PTL DEF Spec
==============================================================================
