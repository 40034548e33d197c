------------------------- MODULE S3ObjectCacheProofs -------------------------
(***************************************************************************)
(* S3ObjectCache for any number of keys, requests, files and versions, any *)
(* caps and any number of faults: type correctness, the entry cap, the     *)
(* agreement of sidecars and index, that no served file is deleted, and,   *)
(* with one writing request at a time, that reads are fresh.               *)
(***************************************************************************)
EXTENDS S3ObjectCache, FiniteSetTheorems, SequenceTheorems, WellFoundedInduction, TLAPS

-----------------------------------------------------------------------------
(* Operators *)

\* Min picks the least element of a nonempty set of naturals.
LEMMA LeastElement ==
  ASSUME NEW S \in SUBSET Nat, S # {}
  PROVE  Min(S) \in S /\ \A y \in S : Min(S) <= y
<1> DEFINE R == {pair \in Nat \X Nat : pair[1] < pair[2]}
<1>1. IsWellFoundedOn(R, Nat)
  BY NatLessThanWellFounded DEF OpToRel
<1>2. PICK x \in S : \A y \in S : ~(<<y, x>> \in R)
  BY <1>1, WFMin, Zenon
<1>3. ASSUME NEW y \in S PROVE x <= y
  <2>1. <<y, x>> \in Nat \X Nat /\ <<y, x>>[1] = y /\ <<y, x>>[2] = x
    OBVIOUS
  <2>2. ~(y < x)
    BY <1>2, <2>1
  <2> QED
    BY <2>2
<1> QED
  BY <1>3 DEF Min

\* A generation after a mutation is one that no read in progress has captured.
LEMMA NewGeneration ==
  ASSUME gen \in [Key -> Nat], NEW k \in Key, Bump(k)
  PROVE  /\ gen' \in [Key -> Nat]
         /\ gen'[k] \notin Captured(k)
         /\ \A j \in Key \ {k} : gen'[j] = gen[j]
<1> DEFINE n == Cardinality(Proc)
           open == {q \in Proc : proc[q].op = "open" /\ proc[q].key = k}
           taken == Captured(k) \cup {gen[k]}
           free == (0..n + 1) \ taken
<1>1. n \in Nat /\ IsFiniteSet(open) /\ Cardinality(open) <= n
  BY RequestAssumption, FS_CardinalityType, FS_Subset
<1>2. IsFiniteSet(Captured(k)) /\ Cardinality(Captured(k)) <= Cardinality(open)
  <2> DEFINE f == [q \in open |-> proc[q].gen]
  <2>1. f \in Surjection(open, Captured(k))
    BY DEF Captured, Surjection
  <2> QED
    BY <1>1, <2>1, FS_Surjection
<1>3. IsFiniteSet(taken) /\ Cardinality(taken) <= n + 1
  <2>1. /\ IsFiniteSet(taken)
        /\ Cardinality(taken) = IF gen[k] \in Captured(k) THEN Cardinality(Captured(k))
                                                         ELSE Cardinality(Captured(k)) + 1
    BY <1>2, FS_AddElement
  <2>2. Cardinality(Captured(k)) \in Nat /\ Cardinality(open) \in Nat
    BY <1>1, <1>2, FS_CardinalityType
  <2> QED
    BY <1>1, <1>2, <2>1, <2>2
<1>4. Cardinality(0..n + 1) = n + 2
  BY <1>1, FS_Interval
<1>5. free # {}
  <2> SUFFICES ASSUME 0..n + 1 \subseteq taken PROVE FALSE
    OBVIOUS
  <2>1. Cardinality(0..n + 1) <= Cardinality(taken)
    BY <1>3, FS_Subset
  <2>2. Cardinality(taken) \in Nat
    BY <1>3, FS_CardinalityType
  <2> QED
    BY <1>1, <1>3, <1>4, <2>1, <2>2
<1>6. Min(free) \in free /\ Min(free) \in Nat
  <2>1. free \in SUBSET Nat
    BY <1>1
  <2> HIDE DEF free
  <2> QED
    BY <1>5, <2>1, LeastElement
<1>7. gen' = [gen EXCEPT ![k] = Min(free)]
  BY DEF Bump
<1> QED
  BY <1>6, <1>7

\* Taking a key out of a list without duplicates.
LEMMA KeyRemoved ==
  ASSUME NEW s \in Seq(Key), IsInjective(s), NEW k \in Key
  PROVE  /\ RemoveFirst(s, k) \in Seq(Key) /\ IsInjective(RemoveFirst(s, k))
         /\ Range(RemoveFirst(s, k)) = Range(s) \ {k}
         /\ Len(RemoveFirst(s, k)) <= Len(s)
         /\ k \in Range(s) => Len(RemoveFirst(s, k)) = Len(s) - 1
<1>0. Len(s) \in Nat /\ DOMAIN s = 1..Len(s) /\ Range(s) = {s[i] : i \in 1..Len(s)}
  BY DEF Range
<1>1. CASE \A i \in 1..Len(s) : s[i] # k
  <2>1. RemoveFirst(s, k) = s
    BY <1>1 DEF RemoveFirst
  <2>2. k \notin Range(s)
    BY <1>0, <1>1
  <2>3. Range(s) \ {k} = Range(s)
    BY <2>2
  <2>4. Len(s) <= Len(s)
    BY <1>0
  <2> QED
    BY <2>1, <2>2, <2>3, <2>4, Zenon
<1>2. CASE \E i \in 1..Len(s) : s[i] = k
  <2> DEFINE I == {i \in 1..Len(s) : s[i] = k}
             m == Min(I)
             a == SubSeq(s, 1, m - 1)
             b == SubSeq(s, m + 1, Len(s))
  <2>1. m \in 1..Len(s) /\ s[m] = k
    <3>1. I \in SUBSET Nat /\ I # {}
      BY <1>2
    <3>2. Min(I) \in I
      BY <3>1, LeastElement
    <3> QED
      BY <3>2
  <2>2. RemoveFirst(s, k) = a \o b
    BY <1>2 DEF RemoveFirst, RemoveAt, SelectInSeq
  <2> HIDE DEF m
  <2>3. /\ a \in Seq(Key) /\ Len(a) = m - 1 /\ \A i \in 1..m - 1 : a[i] = s[i]
        /\ b \in Seq(Key) /\ Len(b) = Len(s) - m /\ \A i \in 1..Len(s) - m : b[i] = s[m + i]
    BY <1>0, <2>1
  <2> HIDE DEF a, b
  <2> DEFINE r == a \o b
  <2>4. /\ r \in Seq(Key) /\ Len(r) = Len(s) - 1
        /\ \A i \in 1..Len(s) - 1 : r[i] = IF i < m THEN s[i] ELSE s[i + 1]
    <3>1. /\ r \in Seq(Key) /\ Len(r) = Len(a) + Len(b)
          /\ \A i \in 1..Len(a) + Len(b) : r[i] = IF i <= Len(a) THEN a[i] ELSE b[i - Len(a)]
      BY <2>3, ConcatProperties
    <3> HIDE DEF r
    <3>2. Len(a) + Len(b) = Len(s) - 1
      BY <1>0, <2>1, <2>3
    <3>3. ASSUME NEW i \in 1..Len(s) - 1
          PROVE  r[i] = IF i < m THEN s[i] ELSE s[i + 1]
      <4>1. CASE i < m
        <5>1. i \in 1..m - 1 /\ i <= Len(a) /\ i \in 1..Len(a) + Len(b)
          BY <1>0, <2>1, <2>3, <3>2, <4>1
        <5> QED
          BY <2>3, <3>1, <4>1, <5>1
      <4>2. CASE ~(i < m)
        <5>1. /\ i - (m - 1) \in 1..Len(s) - m /\ m + (i - (m - 1)) = i + 1
              /\ ~(i <= m - 1)
          BY <1>0, <2>1, <4>2
        <5> QED
          BY <1>0, <2>1, <2>3, <3>1, <3>2, <4>2, <5>1
      <4> QED
        BY <4>1, <4>2
    <3> QED
      BY <3>1, <3>2, <3>3
  <2> HIDE DEF r
  <2>5. \A i, j \in 1..Len(s) : s[i] = s[j] => i = j
    BY <1>0 DEF IsInjective
  <2>6. IsInjective(r)
    <3>1. DOMAIN r = 1..Len(s) - 1
      BY <2>4
    <3> SUFFICES ASSUME NEW i \in 1..Len(s) - 1, NEW j \in 1..Len(s) - 1, r[i] = r[j]
                 PROVE  i = j
      BY <3>1 DEF IsInjective
    <3> QED
      BY <1>0, <2>1, <2>4, <2>5
  <2>7. Range(r) = Range(s) \ {k}
    <3>1. Range(r) = {r[i] : i \in 1..Len(s) - 1}
      BY <2>4 DEF Range
    <3>2. ASSUME NEW x \in Range(r) PROVE x \in Range(s) \ {k}
      <4>1. PICK i \in 1..Len(s) - 1 : x = r[i]
        BY <3>1
      <4> QED
        BY <1>0, <2>1, <2>4, <2>5, <4>1
    <3>3. ASSUME NEW x \in Range(s), x # k PROVE x \in Range(r)
      <4>1. PICK i \in 1..Len(s) : x = s[i]
        BY <1>0
      <4>2. CASE i < m
        <5>1. i \in 1..Len(s) - 1 /\ r[i] = x
          BY <1>0, <2>1, <2>4, <4>1, <4>2
        <5> QED
          BY <3>1, <5>1
      <4>3. CASE i > m
        <5>1. i - 1 \in 1..Len(s) - 1 /\ r[i - 1] = x
          BY <1>0, <2>1, <2>4, <4>1, <4>3
        <5> QED
          BY <3>1, <5>1
      <4> QED
        BY <2>1, <3>3, <4>1, <4>2, <4>3
    <3> QED
      BY <3>2, <3>3
  <2> QED
    BY <1>0, <2>2, <2>4, <2>6, <2>7 DEF r
<1> QED
  BY <1>1, <1>2

\* Moving a key to the most recently used end.
LEMMA KeyPromoted ==
  ASSUME NEW s \in Seq(Key), IsInjective(s), NEW k \in Key
  PROVE  LET r == Append(RemoveFirst(s, k), k)
         IN  /\ r \in Seq(Key) /\ IsInjective(r) /\ Range(r) = Range(s) \cup {k}
             /\ k \in Range(s) => Len(r) = Len(s)
<1> DEFINE t == RemoveFirst(s, k)
           r == Append(t, k)
<1>1. /\ t \in Seq(Key) /\ IsInjective(t) /\ Range(t) = Range(s) \ {k}
      /\ k \in Range(s) => Len(t) = Len(s) - 1
  BY KeyRemoved
<1>6. Len(s) \in Nat
  OBVIOUS
<1> HIDE DEF t
<1>2. /\ r \in Seq(Key) /\ Len(r) = Len(t) + 1 /\ Len(t) \in Nat
      /\ r[Len(t) + 1] = k /\ \A i \in 1..Len(t) : r[i] = t[i]
  BY <1>1
<1> HIDE DEF r
<1>3. \A i \in 1..Len(t) : t[i] \in Range(t)
  BY <1>1 DEF Range
<1>4. IsInjective(r)
  BY <1>1, <1>2, <1>3 DEF IsInjective
<1>5. Range(r) = Range(t) \cup {k}
  <2>1. Range(r) = {r[i] : i \in 1..Len(t) + 1} /\ Range(t) = {t[i] : i \in 1..Len(t)}
    BY <1>1, <1>2 DEF Range
  <2>2. \A i \in 1..Len(t) + 1 : i \in 1..Len(t) \/ i = Len(t) + 1
    BY <1>2
  <2>3. ASSUME NEW x \in Range(r) PROVE x \in Range(t) \cup {k}
    <3>1. PICK i \in 1..Len(t) + 1 : x = r[i]
      BY <2>1
    <3> QED
      BY <1>2, <1>3, <2>2, <3>1
  <2>4. ASSUME NEW x \in Range(t) PROVE x \in Range(r)
    <3>1. PICK i \in 1..Len(t) : x = t[i]
      BY <2>1
    <3>2. i \in 1..Len(t) + 1 /\ r[i] = x
      BY <1>2, <3>1
    <3> QED
      BY <2>1, <3>2
  <2>5. k \in Range(r)
    <3>1. Len(t) + 1 \in 1..Len(t) + 1
      BY <1>2
    <3> QED
      BY <1>2, <2>1, <3>1
  <2> QED
    BY <2>3, <2>4, <2>5
<1>7. k \in Range(s) => Len(r) = Len(s)
  BY <1>1, <1>2, <1>6
<1> QED
  BY <1>1, <1>2, <1>4, <1>5, <1>7 DEF r, t

\* The end of a list.
LEMMA EndOfList ==
  ASSUME NEW s \in Seq(Key), NEW n \in 0..Len(s)
  PROVE  LET r == SubSeq(s, n + 1, Len(s))
         IN  r \in Seq(Key) /\ Len(r) = Len(s) - n /\ \A i \in 1..Len(s) - n : r[i] = s[n + i]
  OBVIOUS

\* Eviction keeps an end of the list that is no longer than the entry cap.
LEMMA Trimmed ==
  ASSUME NEW s \in Seq(Key), IsInjective(s), NEW ix
  PROVE  /\ Trim(s, ix) \in Seq(Key) /\ IsInjective(Trim(s, ix))
         /\ Range(Trim(s, ix)) \subseteq Range(s)
         /\ Len(Trim(s, ix)) <= MaxEntries
<1> DEFINE N == {i \in 0..Len(s) : i = Len(s) \/ Fits(SubSeq(s, i + 1, Len(s)), ix)}
           n == Min(N)
           r == SubSeq(s, n + 1, Len(s))
<1>0. Len(s) \in Nat /\ DOMAIN s = 1..Len(s) /\ MaxEntries \in Nat
  BY BoundAssumption
<1>1. n \in N
  <2>1. N \in SUBSET Nat /\ N # {}
    BY <1>0
  <2> HIDE DEF N
  <2> QED
    BY <2>1, LeastElement
<1>2. Trim(s, ix) = r
  BY DEF Trim
<1> HIDE DEF n
<1>9. n \in 0..Len(s) /\ n \in Nat
  <2>1. n \in 0..Len(s)
    BY <1>1, Zenon
  <2> HIDE DEF N
  <2> QED
    BY <1>0, <2>1
<1>10. n = Len(s) \/ Len(r) <= MaxEntries
  BY <1>1 DEF Fits
<1> HIDE DEF N
<1>3. r \in Seq(Key) /\ Len(r) = Len(s) - n /\ \A i \in 1..Len(s) - n : r[i] = s[n + i]
  BY <1>9, EndOfList
<1>4. Len(r) <= MaxEntries
  <2>1. CASE n = Len(s)
    BY <1>0, <1>3, <2>1
  <2> QED
    BY <1>10, <2>1
<1> HIDE DEF r
<1>5. DOMAIN r = 1..Len(s) - n
  BY <1>3
<1>6. \A i \in 1..Len(s) - n : n + i \in 1..Len(s)
  BY <1>0, <1>9
<1>7. IsInjective(r)
  <2> SUFFICES ASSUME NEW i \in 1..Len(s) - n, NEW j \in 1..Len(s) - n, r[i] = r[j]
               PROVE  i = j
    BY <1>5 DEF IsInjective
  <2>1. n + i = n + j
    BY <1>0, <1>3, <1>6 DEF IsInjective
  <2> QED
    BY <1>9, <2>1
<1>8. Range(r) \subseteq Range(s)
  BY <1>0, <1>3, <1>5, <1>6 DEF Range
<1> QED
  BY <1>2, <1>3, <1>4, <1>7, <1>8
-----------------------------------------------------------------------------
(* The inductive invariant *)

Publishing(p) == proc[p].pc \in {"content", "sidecar", "clean"}

\* Which steps a read and a mutation go through, and what they carry there.
WellFormed(r) ==
    /\ r.pc = "idle" => r = Idle
    /\ r.pc # "idle" => r.key \in Key
    /\ r.op = "open" => r.pc \in {"lookup", "found", "mismatch", "load", "miss", "fetch",
                                  "store", "publish", "content", "sidecar", "clean"}
    /\ r.op # "open" => r.pc \in {"idle", "publish", "content", "sidecar", "clean",
                                  "delete", "source", "drop"}
    /\ r.pc \in {"content", "sidecar"} => r.file \in File
    /\ r.op = "open" /\ r.pc = "clean" => r.then \in {"idle", "miss", "load"}
    /\ r.pc = "source" \/ r.then = "source" => r.src \in Key

\* publish_lock excludes: one request at a time renames files, updates the index
\* and deletes what it replaced.
OnePublisher == \A p, q \in Proc : Publishing(p) /\ Publishing(q) => p = q

RequestsOK ==
    /\ proc \in [Proc -> ProcType]
    /\ \A p \in Proc : WellFormed(proc[p])
    /\ OnePublisher

\* An object that exists was written, and a version is left for its deletion.
BucketOK ==
    /\ s3 \in [Key -> [ver : Version, live : BOOLEAN]]
    /\ \A k \in Key : s3[k].live => s3[k].ver \in 1..MaxVersion

FilesOK ==
    /\ disk \in [File -> [key : Key, ver : Version] \cup {Gone}]
    /\ meta \in [Key -> Entry]

EntryCap == Len(lru) <= MaxEntries

CacheOK ==
    /\ index \in [Key -> Entry]
    /\ lru \in Seq(Key) /\ IsInjective(lru)
    /\ Range(lru) = {k \in Key : index[k] # NoEntry}
    /\ EntryCap
    /\ gen \in [Key -> Nat]
    /\ failed \in Seq(File) /\ Len(failed) <= MaxFailed

HistoryOK ==
    /\ known \in [Key -> Version] /\ stale \in BOOLEAN /\ interrupted \in BOOLEAN
    /\ faults \in 0..MaxFaults

TypeInv == RequestsOK /\ BucketOK /\ FilesOK /\ CacheOK /\ HistoryOK

\* The five parts together are the type invariant and more.
LEMMA InvIsTyped == TypeInv => TypeOK
  BY DEF TypeInv, RequestsOK, BucketOK, FilesOK, CacheOK, HistoryOK, TypeOK, WellFormed

-----------------------------------------------------------------------------
(* What a step does to the request that takes it *)

Only(p) == proc' \in [Proc -> ProcType] /\ \A q \in Proc \ {p} : proc'[q] = proc[q]

SameRequest(r, n) == n.op = r.op /\ n.key = r.key /\ n.floor = r.floor /\ n.src = r.src
SameContent(r, n) == n.ver = r.ver /\ n.file = r.file
SameClean(r, n) == n.then = r.then /\ n.trash = r.trash /\ n.sidecars = r.sidecars

\* A request goes on to its next step.
LEMMA GotoEffect ==
  ASSUME proc \in [Proc -> ProcType], NEW p \in Proc, NEW pc \in Pc, Goto(p, pc)
  PROVE  /\ Only(p) /\ proc'[p].pc = pc /\ proc'[p].gen = proc[p].gen
         /\ SameRequest(proc[p], proc'[p]) /\ SameContent(proc[p], proc'[p])
         /\ SameClean(proc[p], proc'[p])
  BY DEF Goto, Only, ProcType, SameRequest, SameContent, SameClean

\* A request that does nothing is well formed.
LEMMA IdleTyped == Idle \in ProcType
  BY BoundAssumption DEF Idle, ProcType, Pc, Op, Version

\* A request returns.
LEMMA IdleEffect ==
  ASSUME proc \in [Proc -> ProcType], NEW p \in Proc, proc' = [proc EXCEPT ![p] = Idle]
  PROVE  Only(p) /\ proc'[p] = Idle
  BY IdleTyped DEF Only

\* A mutation begins, or goes on to its source.
LEMMA BeginEffect ==
  ASSUME proc \in [Proc -> ProcType], NEW p \in Proc, NEW op \in Op, NEW pc \in Pc,
         NEW k \in Key, NEW v \in Version, Begin(p, op, pc, k, v)
  PROVE  /\ Only(p) /\ proc'[p].pc = pc /\ proc'[p].op = op /\ proc'[p].key = k
         /\ proc'[p].ver = v /\ proc'[p].then = "idle" /\ proc'[p].trash = {}
         /\ proc'[p].sidecars = {}
<1> DEFINE r == [Idle EXCEPT !.op = op, !.pc = pc, !.key = k, !.ver = v]
<1>1. /\ r.pc = pc /\ r.op = op /\ r.key = k /\ r.ver = v
      /\ r.then = "idle" /\ r.trash = {} /\ r.sidecars = {}
  BY DEF Idle
<1>2. proc' = [proc EXCEPT ![p] = r]
  BY DEF Begin
<1>3. r \in ProcType
  BY IdleTyped DEF ProcType
<1> HIDE DEF r
<1>4. Only(p) /\ proc'[p] = r
  BY <1>2, <1>3 DEF Only
<1> QED
  BY <1>1, <1>4

\* A read begins: what it returns must not be older than what is known now.
LEMMA OpenEffect ==
  ASSUME proc \in [Proc -> ProcType], NEW p \in Proc, NEW k \in Key,
         known \in [Key -> Version], OpenFile(p, k)
  PROVE  /\ Only(p) /\ proc'[p].pc = "lookup" /\ proc'[p].op = "open" /\ proc'[p].key = k
         /\ proc'[p].floor = known[k] /\ proc'[p].trash = {} /\ proc'[p].sidecars = {}
         /\ proc'[p].then = "idle"
<1> DEFINE r == [Idle EXCEPT !.pc = "lookup", !.op = "open", !.key = k, !.floor = known[k]]
<1>1. /\ r.pc = "lookup" /\ r.op = "open" /\ r.key = k /\ r.floor = known[k]
      /\ r.trash = {} /\ r.sidecars = {} /\ r.then = "idle"
  BY DEF Idle
<1>2. proc' = [proc EXCEPT ![p] = r]
  BY DEF OpenFile
<1>3. r \in ProcType
  BY IdleTyped DEF ProcType, Pc, Op
<1> HIDE DEF r
<1>4. Only(p) /\ proc'[p] = r
  BY <1>2, <1>3 DEF Only
<1> QED
  BY <1>1, <1>4

\* A move begins with the COPY applied: its destination is to be dropped from the
\* cache, then its source deleted.
LEMMA MoveEffect ==
  ASSUME TypeOK, NEW p \in Proc, NEW from \in Key, NEW to \in Key, MoveFile(p, from, to)
  PROVE  /\ Only(p) /\ proc'[p].pc = "drop" /\ proc'[p].op = "move" /\ proc'[p].key = to
         /\ proc'[p].ver = s3[to].ver + 1 /\ proc'[p].src = from /\ proc'[p].then = "source"
         /\ proc'[p].trash = {} /\ proc'[p].sidecars = {}
<1> DEFINE r == [Idle EXCEPT !.op = "move", !.pc = "drop", !.key = to, !.src = from,
                             !.ver = s3[to].ver + 1, !.then = "source", !.gen = s3[from].ver]
<1>1. /\ r.pc = "drop" /\ r.op = "move" /\ r.key = to /\ r.ver = s3[to].ver + 1
      /\ r.src = from /\ r.then = "source" /\ r.trash = {} /\ r.sidecars = {}
  BY DEF Idle
<1>2. proc' = [proc EXCEPT ![p] = r]
  BY DEF MoveFile
<1>3. s3[to].ver + 1 \in Version /\ s3[from].ver \in Nat
  BY BoundAssumption DEF MoveFile, Put, TypeOK, Version
<1>4. r \in ProcType
  BY <1>3, IdleTyped DEF ProcType, Pc, Op
<1> HIDE DEF r
<1>5. Only(p) /\ proc'[p] = r
  BY <1>2, <1>4 DEF Only, TypeOK
<1> QED
  BY <1>1, <1>5

\* A request holds publish_lock and has taken entries out of the index.
LEMMA CleanEffect ==
  ASSUME proc \in [Proc -> ProcType], NEW p \in Proc, NEW then \in Pc,
         NEW trash \in SUBSET File, NEW sidecars \in SUBSET Key,
         ToClean(p, then, trash, sidecars)
  PROVE  /\ Only(p) /\ proc'[p].pc = "clean" /\ proc'[p].gen = proc[p].gen
         /\ proc'[p].then = then /\ proc'[p].trash = trash /\ proc'[p].sidecars = sidecars
         /\ SameRequest(proc[p], proc'[p]) /\ SameContent(proc[p], proc'[p])
<1> DEFINE r == [proc[p] EXCEPT !.pc = "clean", !.then = then, !.trash = trash,
                                !.sidecars = sidecars]
<1>0. proc[p] \in ProcType
  OBVIOUS
<1>1. /\ r.pc = "clean" /\ r.gen = proc[p].gen /\ r.then = then /\ r.trash = trash
      /\ r.sidecars = sidecars /\ SameRequest(proc[p], r) /\ SameContent(proc[p], r)
  BY <1>0 DEF ProcType, SameRequest, SameContent
<1>2. r \in ProcType
  BY <1>0 DEF ProcType, Pc
<1>3. proc' = [proc EXCEPT ![p] = r]
  BY DEF ToClean
<1> HIDE DEF r
<1>4. Only(p) /\ proc'[p] = r
  BY <1>2, <1>3 DEF Only
<1> QED
  BY <1>1, <1>4

\* A lookup hits: the read remembers the entry.
LEMMA HitEffect ==
  ASSUME TypeOK, NEW p \in Proc, NEW k \in Key, index[k] # NoEntry,
         proc' = [proc EXCEPT ![p] = [@ EXCEPT !.pc = "found", !.file = index[k].file,
                                               !.ver = index[k].ver]]
  PROVE  /\ Only(p) /\ proc'[p].pc = "found" /\ proc'[p].ver = index[k].ver
         /\ SameRequest(proc[p], proc'[p]) /\ SameClean(proc[p], proc'[p])
<1> DEFINE r == [proc[p] EXCEPT !.pc = "found", !.file = index[k].file, !.ver = index[k].ver]
<1>0. proc[p] \in ProcType /\ index[k] \in [file : File, ver : Version]
  BY DEF TypeOK, Entry
<1>1. /\ r.pc = "found" /\ r.ver = index[k].ver
      /\ SameRequest(proc[p], r) /\ SameClean(proc[p], r)
  BY <1>0 DEF ProcType, SameRequest, SameClean
<1>2. r \in ProcType
  BY <1>0 DEF ProcType, Pc
<1>3. proc' = [proc EXCEPT ![p] = r]
  OBVIOUS
<1> HIDE DEF r
<1>4. Only(p) /\ proc'[p] = r
  BY <1>2, <1>3 DEF Only, TypeOK
<1> QED
  BY <1>1, <1>4

\* A read takes the load lock and looks again.
LEMMA LockEffect ==
  ASSUME TypeOK, NEW p \in Proc, LoadLock(p)
  PROVE  /\ Only(p) /\ proc'[p].pc = "lookup"
         /\ SameRequest(proc[p], proc'[p]) /\ SameClean(proc[p], proc'[p])
<1> DEFINE r == [proc[p] EXCEPT !.held = TRUE, !.pc = "lookup"]
<1>0. proc[p] \in ProcType
  BY DEF TypeOK
<1>1. r.pc = "lookup" /\ SameRequest(proc[p], r) /\ SameClean(proc[p], r)
  BY <1>0 DEF ProcType, SameRequest, SameClean
<1>2. r \in ProcType
  BY <1>0 DEF ProcType, Pc
<1>3. proc' = [proc EXCEPT ![p] = r]
  BY DEF LoadLock
<1> HIDE DEF r
<1>4. Only(p) /\ proc'[p] = r
  BY <1>2, <1>3 DEF Only, TypeOK
<1> QED
  BY <1>1, <1>4

\* A read captures the generation of its key.
LEMMA CaptureEffect ==
  ASSUME TypeOK, NEW p \in Proc, CaptureGeneration(p)
  PROVE  /\ Only(p) /\ proc'[p].pc = "fetch"
         /\ SameRequest(proc[p], proc'[p]) /\ SameClean(proc[p], proc'[p])
<1> DEFINE r == [proc[p] EXCEPT !.gen = gen[proc[p].key], !.pc = "fetch"]
<1>0. proc[p] \in ProcType /\ gen[proc[p].key] \in Nat
  BY DEF TypeOK, CaptureGeneration, At
<1>1. r.pc = "fetch" /\ SameRequest(proc[p], r) /\ SameClean(proc[p], r)
  BY <1>0 DEF ProcType, SameRequest, SameClean
<1>2. r \in ProcType
  BY <1>0 DEF ProcType, Pc
<1>3. proc' = [proc EXCEPT ![p] = r]
  BY DEF CaptureGeneration
<1> HIDE DEF r
<1>4. Only(p) /\ proc'[p] = r
  BY <1>2, <1>3 DEF Only, TypeOK
<1> QED
  BY <1>1, <1>4

\* A read has the object it fetched in memory.
LEMMA FetchEffect ==
  ASSUME TypeOK, NEW p \in Proc, NEW v \in Version,
         proc' = [proc EXCEPT ![p] = [@ EXCEPT !.ver = v, !.pc = "store", !.then = "idle"]]
  PROVE  /\ Only(p) /\ proc'[p].pc = "store" /\ proc'[p].ver = v /\ proc'[p].then = "idle"
         /\ proc'[p].trash = proc[p].trash
         /\ SameRequest(proc[p], proc'[p])
<1> DEFINE r == [proc[p] EXCEPT !.ver = v, !.pc = "store", !.then = "idle"]
<1>0. proc[p] \in ProcType
  BY DEF TypeOK
<1>1. /\ r.pc = "store" /\ r.ver = v /\ r.then = "idle" /\ r.trash = proc[p].trash
      /\ SameRequest(proc[p], r)
  BY <1>0 DEF ProcType, SameRequest
<1>2. r \in ProcType
  BY <1>0 DEF ProcType, Pc
<1>3. proc' = [proc EXCEPT ![p] = r]
  OBVIOUS
<1> HIDE DEF r
<1>4. Only(p) /\ proc'[p] = r
  BY <1>2, <1>3 DEF Only, TypeOK
<1> QED
  BY <1>1, <1>4

\* The content file has a name that nobody refers to.
LEMMA ContentEffect ==
  ASSUME TypeOK, NEW p \in Proc, PublishContent(p)
  PROVE  \E f \in Fresh :
           /\ disk' = [disk EXCEPT ![f] = [key |-> proc[p].key, ver |-> proc[p].ver]]
           /\ Only(p) /\ proc'[p].pc = "content" /\ proc'[p].file = f
           /\ proc'[p].ver = proc[p].ver /\ proc'[p].gen = proc[p].gen
           /\ SameRequest(proc[p], proc'[p]) /\ SameClean(proc[p], proc'[p])
<1>1. Fresh \in SUBSET Nat /\ Fresh # {}
  BY BoundAssumption DEF Fresh, PublishContent
<1>2. PICK f \in Fresh : /\ disk' = [disk EXCEPT ![f] = [key |-> proc[p].key, ver |-> proc[p].ver]]
                         /\ proc' = [proc EXCEPT ![p] = [@ EXCEPT !.file = f, !.pc = "content"]]
  BY <1>1, LeastElement DEF PublishContent
<1> DEFINE r == [proc[p] EXCEPT !.file = f, !.pc = "content"]
<1>0. proc[p] \in ProcType /\ f \in File
  BY DEF TypeOK, Fresh
<1>3. /\ r.pc = "content" /\ r.file = f /\ r.ver = proc[p].ver /\ r.gen = proc[p].gen
      /\ SameRequest(proc[p], r) /\ SameClean(proc[p], r)
  BY <1>0 DEF ProcType, SameRequest, SameClean
<1>4. r \in ProcType
  BY <1>0 DEF ProcType, Pc
<1>5. proc' = [proc EXCEPT ![p] = r]
  BY <1>2
<1> HIDE DEF r
<1>6. Only(p) /\ proc'[p] = r
  BY <1>4, <1>5 DEF Only, TypeOK
<1> QED
  BY <1>2, <1>3, <1>6

\* What a request does once its cache update is complete.
LEMMA ContinueEffect ==
  ASSUME TypeInv, NEW p \in Proc, At(p, "clean"), Continue(p)
  PROVE  \/ /\ proc[p].op = "open"
            /\ proc' = [proc EXCEPT ![p] = Idle]
            /\ stale' = (stale \/ proc[p].ver < proc[p].floor)
            /\ UNCHANGED <<known, interrupted>>
         \/ /\ proc[p].op = "open" /\ proc[p].then \in {"miss", "load"}
            /\ Goto(p, proc[p].then)
            /\ UNCHANGED history
         \/ /\ proc[p].op # "open"
            /\ \/ proc' = [proc EXCEPT ![p] = Idle]
               \/ proc[p].then = "source" /\ Goto(p, "source")
            /\ known' = [known EXCEPT ![proc[p].key] = Max({@, proc[p].ver})]
            /\ UNCHANGED <<stale, interrupted>>
<1>1. proc[p].op = "open" => proc[p].then \in {"idle", "miss", "load"}
  BY DEF TypeInv, RequestsOK, WellFormed, At
<1>2. CASE proc[p].op = "open" /\ proc[p].then = "idle"
  BY <1>2 DEF Continue, Serve
<1>3. CASE proc[p].op = "open" /\ proc[p].then # "idle"
  BY <1>1, <1>3 DEF Continue
<1>4. CASE proc[p].op # "open"
  BY <1>4 DEF Continue, Goto
<1> QED
  BY <1>2, <1>3, <1>4

\* The greater of two versions.
LEMMA Greater ==
  ASSUME NEW a \in Int, NEW b \in Int
  PROVE  Max({a, b}) \in {a, b} /\ Max({a, b}) >= a /\ Max({a, b}) >= b
  BY DEF Max

-----------------------------------------------------------------------------
(* Type correctness *)

\* The requests stay well formed if the one that moves does, and if it starts to
\* publish only when publish_lock is free.
LEMMA RequestsStep ==
  ASSUME RequestsOK, NEW p \in Proc, Only(p), WellFormed(proc'[p]),
         Publishing(p)' => Publishing(p) \/ PublishLockFree
  PROVE  RequestsOK'
<1>1. proc' \in [Proc -> ProcType] /\ \A q \in Proc \ {p} : proc'[q] = proc[q]
  BY DEF Only
<1>2. \A q \in Proc : WellFormed(proc'[q])
  BY <1>1 DEF RequestsOK
<1>3. OnePublisher'
  <2> SUFFICES ASSUME NEW q \in Proc, NEW r \in Proc, Publishing(q)', Publishing(r)'
               PROVE  q = r
    BY DEF OnePublisher
  <2>1. \A t \in Proc \ {p} : Publishing(t)' <=> Publishing(t)
    BY <1>1 DEF Publishing
  <2>2. CASE Publishing(p)
    BY <2>1, <2>2 DEF RequestsOK, OnePublisher
  <2>3. CASE PublishLockFree
    BY <2>1, <2>3 DEF PublishLockFree, Publishing
  <2>4. CASE ~Publishing(p)'
    BY <2>1, <2>4 DEF RequestsOK, OnePublisher
  <2> QED
    BY <2>2, <2>3, <2>4
<1> QED
  BY <1>1, <1>2, <1>3 DEF RequestsOK

\* A request that returns.
LEMMA ReturnStep ==
  ASSUME RequestsOK, NEW p \in Proc, proc' = [proc EXCEPT ![p] = Idle]
  PROVE  RequestsOK'
<1>1. Only(p) /\ proc'[p] = Idle
  BY IdleEffect DEF RequestsOK
<1>2. WellFormed(Idle) /\ ~Publishing(p)'
  BY <1>1 DEF WellFormed, Idle, Publishing
<1> QED
  BY <1>1, <1>2, RequestsStep

\* A request that goes on without starting to publish.
LEMMA GotoStep ==
  ASSUME RequestsOK, NEW p \in Proc, NEW pc \in Pc, Goto(p, pc), ~At(p, "idle"),
         \/ proc[p].op = "open" /\ pc \in {"mismatch", "load", "miss", "publish"}
         \/ proc[p].op # "open" /\ pc = "source" /\ proc[p].then = "source"
         \/ At(p, "content") /\ pc = "sidecar"
  PROVE  RequestsOK'
<1>1. /\ Only(p) /\ proc'[p].pc = pc /\ SameRequest(proc[p], proc'[p])
      /\ SameContent(proc[p], proc'[p]) /\ SameClean(proc[p], proc'[p])
  BY GotoEffect DEF RequestsOK
<1>2. WellFormed(proc[p])
  BY DEF RequestsOK
<1>3. WellFormed(proc'[p])
  BY <1>1, <1>2 DEF WellFormed, SameRequest, SameContent, SameClean, At
<1>4. Publishing(p)' => Publishing(p)
  BY <1>1 DEF Publishing, At
<1> QED
  BY <1>1, <1>3, <1>4, RequestsStep

\* A mutation that begins, or goes on to its source.
LEMMA BeginStep ==
  ASSUME RequestsOK, NEW p \in Proc, NEW op \in Op \ {"open"},
         NEW pc \in {"publish", "drop", "delete"},
         NEW k \in Key, NEW v \in Version, Begin(p, op, pc, k, v)
  PROVE  RequestsOK'
<1>1. /\ Only(p) /\ proc'[p].pc = pc /\ proc'[p].op = op /\ proc'[p].key = k
      /\ proc'[p].then = "idle"
  BY BeginEffect DEF RequestsOK, Pc
<1>2. WellFormed(proc'[p]) /\ ~Publishing(p)'
  BY <1>1 DEF WellFormed, Publishing
<1> QED
  BY <1>1, <1>2, RequestsStep

\* The recency list follows a hit.
LEMMA PromoteStep ==
  ASSUME CacheOK, NEW k \in Key, index[k] # NoEntry, Promote(k),
         UNCHANGED <<index, gen, failed>>
  PROVE  CacheOK'
<1>1. lru \in Seq(Key) /\ IsInjective(lru) /\ k \in Range(lru)
  BY DEF CacheOK
<1>2. /\ lru' \in Seq(Key) /\ IsInjective(lru') /\ Range(lru') = Range(lru) \cup {k}
      /\ Len(lru') = Len(lru)
  BY <1>1, KeyPromoted DEF Promote
<1> QED
  BY <1>1, <1>2 DEF CacheOK, EntryCap

\* An entry leaves the index and the recency list together.
LEMMA PopStep ==
  ASSUME TypeInv, NEW p \in Proc, NEW k \in Key, NEW then \in Pc, Pop(p, k, then)
  PROVE  /\ CacheOK'
         /\ index' = [index EXCEPT ![k] = NoEntry] /\ failed' = failed
         /\ gen'[k] \notin Captured(k) /\ \A j \in Key \ {k} : gen'[j] = gen[j]
         /\ Only(p) /\ proc'[p].pc = "clean" /\ proc'[p].gen = proc[p].gen
         /\ proc'[p].then = then
         /\ proc'[p].trash = {index[k].file} \ {-1}
         /\ proc'[p].sidecars = IF index[k] = NoEntry THEN {} ELSE {k}
         /\ SameRequest(proc[p], proc'[p]) /\ SameContent(proc[p], proc'[p])
<1>0. /\ index \in [Key -> Entry] /\ lru \in Seq(Key) /\ IsInjective(lru)
      /\ Range(lru) = {j \in Key : index[j] # NoEntry}
      /\ gen \in [Key -> Nat] /\ failed \in Seq(File) /\ Len(failed) <= MaxFailed
      /\ Len(lru) <= MaxEntries /\ proc \in [Proc -> ProcType]
  BY DEF TypeInv, CacheOK, EntryCap, RequestsOK
<1>1. /\ gen' \in [Key -> Nat] /\ gen'[k] \notin Captured(k)
      /\ \A j \in Key \ {k} : gen'[j] = gen[j]
  BY <1>0, NewGeneration DEF Pop
<1>2. index' = [index EXCEPT ![k] = NoEntry] /\ failed' = failed /\ lru' = RemoveFirst(lru, k)
  BY DEF Pop
<1>3. index' \in [Key -> Entry]
  BY <1>0, <1>2 DEF Entry
<1>4. /\ lru' \in Seq(Key) /\ IsInjective(lru') /\ Range(lru') = Range(lru) \ {k}
      /\ Len(lru') <= MaxEntries
  <2>1. /\ lru' \in Seq(Key) /\ IsInjective(lru') /\ Range(lru') = Range(lru) \ {k}
        /\ Len(lru') <= Len(lru)
    BY <1>0, <1>2, KeyRemoved
  <2>2. Len(lru') \in Nat /\ Len(lru) \in Nat /\ MaxEntries \in Nat
    BY <1>0, <2>1, BoundAssumption
  <2> QED
    BY <1>0, <2>1, <2>2
<1>5. Range(lru') = {j \in Key : index'[j] # NoEntry}
  BY <1>0, <1>2, <1>4
<1>6. CacheOK'
  BY <1>0, <1>1, <1>2, <1>3, <1>4, <1>5 DEF CacheOK, EntryCap
<1> DEFINE trash == {index[k].file} \ {-1}
           sidecars == IF index[k] = NoEntry THEN {} ELSE {k}
<1>7. trash \in SUBSET File
  BY <1>0 DEF Entry, NoEntry
<1>8. sidecars \in SUBSET Key
  OBVIOUS
<1>9. ToClean(p, then, trash, sidecars)
  BY DEF Pop
<1> HIDE DEF trash, sidecars
<1>10. /\ Only(p) /\ proc'[p].pc = "clean" /\ proc'[p].gen = proc[p].gen
       /\ proc'[p].then = then /\ proc'[p].trash = trash /\ proc'[p].sidecars = sidecars
       /\ SameRequest(proc[p], proc'[p]) /\ SameContent(proc[p], proc'[p])
  BY <1>0, <1>7, <1>8, <1>9, CleanEffect, Zenon
<1> QED
  BY <1>1, <1>2, <1>6, <1>10 DEF trash, sidecars

\* The request that removes an entry holds publish_lock until it has cleaned up.
LEMMA PopRequests ==
  ASSUME TypeInv, NEW p \in Proc, NEW k \in Key, NEW then \in Pc, Pop(p, k, then),
         PublishLockFree, ~At(p, "idle"),
         proc[p].op = "open" => then \in {"idle", "miss", "load"},
         then = "source" => proc[p].src \in Key
  PROVE  RequestsOK'
<1>1. /\ Only(p) /\ proc'[p].pc = "clean" /\ proc'[p].then = then
      /\ SameRequest(proc[p], proc'[p])
  BY PopStep
<1>2. RequestsOK /\ WellFormed(proc[p])
  BY DEF TypeInv, RequestsOK
<1>3. WellFormed(proc'[p])
  BY <1>1, <1>2 DEF WellFormed, SameRequest, At
<1> QED
  BY <1>1, <1>2, <1>3, RequestsStep

\* An entry replaces the key's old one, and what no longer fits leaves the index
\* and the recency list together.
LEMMA IndexStep ==
  ASSUME TypeInv, NEW p \in Proc, PublishIndex(p)
  PROVE  \E evicted \in SUBSET Key :
           LET k == proc[p].key
               e == [file |-> proc[p].file, ver |-> proc[p].ver]
           IN
           /\ k \in Key /\ e \in Entry /\ e # NoEntry /\ CacheOK' /\ failed' = failed
           /\ index' = [j \in Key |-> IF j \in evicted THEN NoEntry
                                      ELSE IF j = k THEN e ELSE index[j]]
           /\ \/ proc[p].op = "open" /\ gen' = gen
              \/ /\ proc[p].op # "open"
                 /\ gen'[k] \notin Captured(k) /\ \A j \in Key \ {k} : gen'[j] = gen[j]
           /\ Only(p) /\ proc'[p].pc = "clean" /\ proc'[p].gen = proc[p].gen
           /\ proc'[p].then = "idle"
           /\ proc'[p].trash = ({index[k].file} \cup {index[j].file : j \in evicted}) \ {-1}
           /\ proc'[p].sidecars = evicted
           /\ SameRequest(proc[p], proc'[p]) /\ SameContent(proc[p], proc'[p])
<1> DEFINE k == proc[p].key
           e == [file |-> proc[p].file, ver |-> proc[p].ver]
           ix == [index EXCEPT ![k] = e]
           order == Append(RemoveFirst(lru, k), k)
           kept == Trim(order, ix)
           evicted == Range(order) \ Range(kept)
           trash == ({index[k].file} \cup {index[j].file : j \in evicted}) \ {-1}
<1>0. /\ index \in [Key -> Entry] /\ lru \in Seq(Key) /\ IsInjective(lru)
      /\ Range(lru) = {j \in Key : index[j] # NoEntry}
      /\ gen \in [Key -> Nat] /\ failed \in Seq(File) /\ Len(failed) <= MaxFailed
      /\ proc \in [Proc -> ProcType]
  BY DEF TypeInv, CacheOK, RequestsOK
<1>1. k \in Key /\ proc[p].file \in File /\ proc[p].ver \in Version
  BY <1>0 DEF TypeInv, RequestsOK, WellFormed, PublishIndex, At, ProcType
<1>2. e \in Entry /\ e # NoEntry
  <2>1. e \in [file : File, ver : Version] /\ e.file = proc[p].file /\ proc[p].file \in Nat
    BY <1>1, BoundAssumption
  <2> HIDE DEF e
  <2> QED
    BY <2>1 DEF Entry, NoEntry
<1>3. order \in Seq(Key) /\ IsInjective(order) /\ Range(order) = Range(lru) \cup {k}
  BY <1>0, <1>1, KeyPromoted
<1> HIDE DEF order, e, k
<1>4. /\ kept \in Seq(Key) /\ IsInjective(kept) /\ Range(kept) \subseteq Range(order)
      /\ Len(kept) <= MaxEntries
  BY <1>3, Trimmed
<1>5. /\ index' = [j \in Key |-> IF j \in evicted THEN NoEntry ELSE ix[j]]
      /\ lru' = kept /\ failed' = failed
      /\ IF proc[p].op = "open" THEN UNCHANGED gen ELSE Bump(k)
      /\ ToClean(p, "idle", trash, evicted)
  BY DEF PublishIndex, k, e, order
<1> HIDE DEF kept
<1>6. evicted \in SUBSET Key
  BY <1>0, <1>1, <1>3
<1>7. index' = [j \in Key |-> IF j \in evicted THEN NoEntry ELSE IF j = k THEN e ELSE index[j]]
  BY <1>0, <1>1, <1>5
<1>8. index' \in [Key -> Entry]
  BY <1>0, <1>2, <1>7 DEF Entry
<1>9. Range(lru') = {j \in Key : index'[j] # NoEntry}
  <2>1. Range(lru') \subseteq Key
    BY <1>0, <1>1, <1>3, <1>4, <1>5
  <2>2. \A j \in Key : index'[j] # NoEntry <=> j \notin evicted /\ j \in Range(order)
    BY <1>0, <1>2, <1>3, <1>7
  <2> QED
    BY <1>4, <1>5, <2>1, <2>2
<1>10. /\ gen' \in [Key -> Nat]
       /\ \/ proc[p].op = "open" /\ gen' = gen
          \/ /\ proc[p].op # "open"
             /\ gen'[k] \notin Captured(k) /\ \A j \in Key \ {k} : gen'[j] = gen[j]
  BY <1>0, <1>1, <1>5, NewGeneration
<1>11. CacheOK'
  BY <1>0, <1>4, <1>5, <1>8, <1>9, <1>10 DEF CacheOK, EntryCap
<1>12. trash \in SUBSET File
  BY <1>0, <1>1, <1>6 DEF Entry, NoEntry
<1> HIDE DEF evicted, trash, ix
<1>13. /\ Only(p) /\ proc'[p].pc = "clean" /\ proc'[p].gen = proc[p].gen
       /\ proc'[p].then = "idle" /\ proc'[p].trash = trash /\ proc'[p].sidecars = evicted
       /\ SameRequest(proc[p], proc'[p]) /\ SameContent(proc[p], proc'[p])
  <2>1. "idle" \in Pc
    BY DEF Pc
  <2> QED
    BY <1>0, <1>5, <1>6, <1>12, <2>1, CleanEffect, Zenon
<1>14. proc'[p].trash = ({index[k].file} \cup {index[j].file : j \in evicted}) \ {-1}
  BY <1>13 DEF trash
<1> QED
  BY <1>1, <1>2, <1>5, <1>6, <1>7, <1>10, <1>11, <1>13, <1>14 DEF k, e

\* Steps of a read that change no file and no object.
LEMMA ReadTyped ==
  ASSUME TypeInv, NEW p \in Proc,
         \/ \E k \in Key : OpenFile(p, k)
         \/ Lookup(p) \/ OpenCached(p) \/ LoadLock(p) \/ CaptureGeneration(p)
         \/ Fetch(p) \/ DiscardStale(p)
  PROVE  TypeInv'
<1>0. RequestsOK /\ proc \in [Proc -> ProcType] /\ WellFormed(proc[p]) /\ TypeOK
  BY InvIsTyped DEF TypeInv, RequestsOK
<1>1. UNCHANGED <<s3, files, index, bytes, gen, failed, known, interrupted, faults>>
  BY DEF OpenFile, Lookup, OpenCached, LoadLock, CaptureGeneration, Fetch, DiscardStale,
         Serve, memory, history
<1>2. BucketOK' /\ FilesOK'
  BY <1>1 DEF TypeInv, BucketOK, FilesOK, files
<1>3. stale' \in BOOLEAN
  <2>1. stale' = stale \/ \E v : stale' = (stale \/ v < proc[p].floor)
    BY DEF OpenFile, Lookup, OpenCached, LoadLock, CaptureGeneration, Fetch, DiscardStale,
           Serve, history
  <2> QED
    BY <2>1 DEF TypeInv, HistoryOK
<1>4. HistoryOK'
  BY <1>1, <1>3 DEF TypeInv, HistoryOK
<1>5. CacheOK'
  <2>1. CASE lru' = lru
    BY <1>1, <2>1 DEF TypeInv, CacheOK, EntryCap
  <2>2. CASE lru' # lru
    <3>1. /\ Lookup(p) /\ index[proc[p].key] # NoEntry /\ Promote(proc[p].key)
      BY <2>2 DEF OpenFile, Lookup, OpenCached, LoadLock, CaptureGeneration, Fetch,
                  DiscardStale, memory
    <3>2. proc[p].key \in Key
      BY <1>0, <3>1 DEF WellFormed, Lookup, At
    <3> QED
      BY <1>1, <3>1, <3>2, PromoteStep DEF TypeInv
  <2> QED
    BY <2>1, <2>2
<1>6. RequestsOK'
  <2>1. ASSUME NEW k \in Key, OpenFile(p, k) PROVE RequestsOK'
    <3>1. /\ Only(p) /\ proc'[p].pc = "lookup" /\ proc'[p].op = "open" /\ proc'[p].key = k
          /\ proc'[p].then = "idle"
      BY <1>0, <2>1, OpenEffect DEF TypeOK
    <3>2. WellFormed(proc'[p]) /\ ~Publishing(p)'
      BY <3>1 DEF WellFormed, Publishing
    <3> QED
      BY <1>0, <3>1, <3>2, RequestsStep
  <2>2. CASE Lookup(p)
    <3>0. At(p, "lookup") /\ proc[p].key \in Key /\ proc[p].op = "open"
      BY <1>0, <2>2 DEF Lookup, At, WellFormed
    <3>1. CASE index[proc[p].key] # NoEntry
      <4>1. /\ Only(p) /\ proc'[p].pc = "found" /\ SameRequest(proc[p], proc'[p])
            /\ SameClean(proc[p], proc'[p])
        BY <1>0, <2>2, <3>0, <3>1, HitEffect DEF Lookup
      <4>2. WellFormed(proc'[p]) /\ ~Publishing(p)'
        BY <1>0, <3>0, <4>1 DEF WellFormed, Publishing, SameRequest, SameClean, At
      <4> QED
        BY <1>0, <4>1, <4>2, RequestsStep
    <3>2. CASE index[proc[p].key] = NoEntry
      <4>1. Goto(p, "miss") \/ Goto(p, "load")
        BY <2>2, <3>2 DEF Lookup
      <4> QED
        BY <1>0, <3>0, <4>1, GotoStep DEF At, Pc
    <3> QED
      BY <3>1, <3>2
  <2>3. CASE OpenCached(p)
    <3>1. At(p, "found") /\ proc[p].op = "open"
      BY <1>0, <2>3 DEF OpenCached, At, WellFormed
    <3>2. proc' = [proc EXCEPT ![p] = Idle] \/ Goto(p, "mismatch")
      BY <2>3 DEF OpenCached, Serve
    <3> QED
      BY <1>0, <3>1, <3>2, ReturnStep, GotoStep DEF At, Pc
  <2>4. CASE LoadLock(p)
    <3>1. /\ Only(p) /\ proc'[p].pc = "lookup" /\ SameRequest(proc[p], proc'[p])
          /\ SameClean(proc[p], proc'[p])
      BY <1>0, <2>4, LockEffect
    <3>2. WellFormed(proc'[p]) /\ ~Publishing(p)'
      BY <1>0, <2>4, <3>1 DEF LoadLock, At, WellFormed, Publishing, SameRequest, SameClean
    <3> QED
      BY <1>0, <3>1, <3>2, RequestsStep
  <2>5. CASE CaptureGeneration(p)
    <3>1. /\ Only(p) /\ proc'[p].pc = "fetch" /\ SameRequest(proc[p], proc'[p])
          /\ SameClean(proc[p], proc'[p])
      BY <1>0, <2>5, CaptureEffect
    <3>2. WellFormed(proc'[p]) /\ ~Publishing(p)'
      BY <1>0, <2>5, <3>1
      DEF CaptureGeneration, At, WellFormed, Publishing, SameRequest, SameClean
    <3> QED
      BY <1>0, <3>1, <3>2, RequestsStep
  <2>6. CASE Fetch(p)
    <3>1. CASE proc' = [proc EXCEPT ![p] = Idle]
      BY <1>0, <3>1, ReturnStep
    <3>2. CASE proc' # [proc EXCEPT ![p] = Idle]
      <4>0. proc[p].key \in Key /\ s3[proc[p].key].ver \in Version
        BY <1>0, <2>6 DEF Fetch, At, WellFormed, TypeOK
      <4>1. /\ Only(p) /\ proc'[p].pc = "store" /\ proc'[p].then = "idle"
            /\ SameRequest(proc[p], proc'[p])
        BY <1>0, <2>6, <3>2, <4>0, FetchEffect DEF Fetch, Serve
      <4>2. WellFormed(proc'[p]) /\ ~Publishing(p)'
        BY <1>0, <2>6, <4>1 DEF Fetch, At, WellFormed, Publishing, SameRequest
      <4> QED
        BY <1>0, <4>1, <4>2, RequestsStep
    <3> QED
      BY <3>1, <3>2
  <2>7. CASE DiscardStale(p)
    BY <1>0, <2>7, ReturnStep DEF DiscardStale, Serve
  <2> QED
    BY <2>1, <2>2, <2>3, <2>4, <2>5, <2>6, <2>7
<1> QED
  BY <1>2, <1>4, <1>5, <1>6 DEF TypeInv

\* get_file_information of a cached object.
LEMMA StatTyped ==
  ASSUME TypeInv, NEW p \in Proc, NEW k \in Key, Stat(p, k)
  PROVE  TypeInv'
<1>1. CacheOK'
  BY PromoteStep DEF TypeInv, Stat
<1>2. HistoryOK'
  <2>1. stale' \in BOOLEAN
    BY DEF TypeInv, HistoryOK, Stat
  <2> QED
    BY <2>1 DEF TypeInv, HistoryOK, Stat
<1>3. RequestsOK'
  BY DEF TypeInv, RequestsOK, OnePublisher, Publishing, Stat
<1>4. BucketOK' /\ FilesOK'
  BY DEF TypeInv, BucketOK, FilesOK, Stat, files
<1> QED
  BY <1>1, <1>2, <1>3, <1>4 DEF TypeInv

\* Entries leave the index in S3DiskCache::remove, in remove_if_matches and when
\* a fetched object is too large.
LEMMA RemovalTyped ==
  ASSUME TypeInv, NEW p \in Proc, RemoveIfMatches(p) \/ Store(p) \/ RemoveEntry(p)
  PROVE  TypeInv'
<1>0. /\ RequestsOK /\ WellFormed(proc[p]) /\ proc[p] \in ProcType
      /\ proc[p].key \in Key /\ ~At(p, "idle")
  BY DEF TypeInv, RequestsOK, WellFormed, RemoveIfMatches, Store, RemoveEntry, At
<1>1. UNCHANGED <<s3, files, known, interrupted, faults>>
  BY DEF RemoveIfMatches, Store, RemoveEntry, Serve, history
<1>2. BucketOK' /\ FilesOK'
  BY <1>1 DEF TypeInv, BucketOK, FilesOK, files
<1>3. HistoryOK'
  <2>1. stale' = stale \/ stale' = (stale \/ proc[p].ver < proc[p].floor)
    BY DEF RemoveIfMatches, Store, RemoveEntry, Serve, history
  <2>2. stale' \in BOOLEAN
    BY <2>1 DEF TypeInv, HistoryOK
  <2> QED
    BY <1>1, <2>2 DEF TypeInv, HistoryOK
<1>4. ASSUME NEW then \in Pc, Pop(p, proc[p].key, then), PublishLockFree,
             proc[p].op = "open" => then \in {"idle", "miss", "load"},
             then = "source" => proc[p].src \in Key
      PROVE  TypeInv'
  BY <1>0, <1>2, <1>3, <1>4, PopStep, PopRequests DEF TypeInv
<1>5. ASSUME UNCHANGED memory, RequestsOK' PROVE TypeInv'
  BY <1>2, <1>3, <1>5 DEF TypeInv, CacheOK, EntryCap, memory
<1>6. CASE RemoveIfMatches(p)
  <2>1. proc[p].op = "open"
    BY <1>0, <1>6 DEF RemoveIfMatches, At, WellFormed
  <2>2. PICK then \in {"miss", "load"} :
          \/ PublishLockFree /\ Pop(p, proc[p].key, then)
          \/ Goto(p, then) /\ UNCHANGED memory
    BY <1>6 DEF RemoveIfMatches
  <2>3. then \in Pc /\ then # "source"
    BY DEF Pc
  <2>4. CASE PublishLockFree /\ Pop(p, proc[p].key, then)
    BY <1>4, <2>3, <2>4
  <2>5. CASE Goto(p, then) /\ UNCHANGED memory
    BY <1>0, <1>5, <2>1, <2>3, <2>5, GotoStep
  <2> QED
    BY <2>2, <2>4, <2>5
<1>7. CASE Store(p)
  <2>1. proc[p].op = "open"
    BY <1>0, <1>7 DEF Store, At, WellFormed
  <2>2. \/ PublishLockFree /\ Pop(p, proc[p].key, "idle")
        \/ Goto(p, "publish") /\ UNCHANGED memory
        \/ proc' = [proc EXCEPT ![p] = Idle] /\ UNCHANGED memory
    BY <1>7 DEF Store, Serve
  <2>3. CASE PublishLockFree /\ Pop(p, proc[p].key, "idle")
    BY <1>4, <2>3 DEF Pc
  <2>4. CASE Goto(p, "publish") /\ UNCHANGED memory
    BY <1>0, <1>5, <2>1, <2>4, GotoStep DEF Pc
  <2>5. CASE proc' = [proc EXCEPT ![p] = Idle] /\ UNCHANGED memory
    BY <1>0, <1>5, <2>5, ReturnStep
  <2> QED
    BY <2>2, <2>3, <2>4, <2>5
<1>8. CASE RemoveEntry(p)
  <2>1. proc[p].op # "open"
    BY <1>0, <1>8 DEF RemoveEntry, At, WellFormed
  <2>2. PublishLockFree /\ Pop(p, proc[p].key, proc[p].then)
    BY <1>8 DEF RemoveEntry
  <2>3. proc[p].then \in Pc /\ (proc[p].then = "source" => proc[p].src \in Key)
    BY <1>0 DEF ProcType, WellFormed
  <2> QED
    BY <1>4, <2>1, <2>2, <2>3
<1> QED
  BY <1>6, <1>7, <1>8

\* The three steps of S3DiskCache::publish.
LEMMA PublishTyped ==
  ASSUME TypeInv, NEW p \in Proc, PublishContent(p) \/ PublishSidecar(p) \/ PublishIndex(p)
  PROVE  TypeInv'
<1>0. /\ RequestsOK /\ WellFormed(proc[p]) /\ proc[p] \in ProcType
      /\ proc[p].key \in Key /\ proc[p].ver \in Version /\ ~At(p, "idle") /\ TypeOK
  BY InvIsTyped
  DEF TypeInv, RequestsOK, WellFormed, PublishContent, PublishSidecar, PublishIndex, At, ProcType
<1>1. BucketOK' /\ HistoryOK'
  BY DEF TypeInv, BucketOK, HistoryOK, PublishContent, PublishSidecar, PublishIndex, history
<1>2. CASE PublishContent(p)
  <2>1. PICK f \in Fresh :
          /\ disk' = [disk EXCEPT ![f] = [key |-> proc[p].key, ver |-> proc[p].ver]]
          /\ Only(p) /\ proc'[p].pc = "content" /\ proc'[p].file = f
          /\ SameRequest(proc[p], proc'[p]) /\ SameClean(proc[p], proc'[p])
    BY <1>0, <1>2, ContentEffect
  <2>2. f \in File
    BY DEF Fresh
  <2>3. FilesOK'
    <3> DEFINE c == [key |-> proc[p].key, ver |-> proc[p].ver]
    <3>1. c \in [key : Key, ver : Version]
      BY <1>0
    <3> HIDE DEF c
    <3>2. disk' = [disk EXCEPT ![f] = c] /\ meta' = meta
      BY <1>2, <2>1 DEF PublishContent, c
    <3> QED
      BY <2>2, <3>1, <3>2 DEF TypeInv, FilesOK
  <2>4. CacheOK'
    BY <1>2 DEF TypeInv, CacheOK, EntryCap, PublishContent, memory
  <2>5. WellFormed(proc'[p])
    BY <1>0, <1>2, <2>1, <2>2 DEF WellFormed, SameRequest, SameClean, PublishContent, At
  <2>6. RequestsOK'
    BY <1>0, <1>2, <2>1, <2>5, RequestsStep DEF PublishContent
  <2> QED
    BY <1>1, <2>3, <2>4, <2>6 DEF TypeInv
<1>3. CASE PublishSidecar(p)
  <2>1. At(p, "content") /\ Goto(p, "sidecar") /\ proc[p].file \in File
    BY <1>0, <1>3 DEF PublishSidecar, WellFormed, At
  <2>2. RequestsOK'
    BY <1>0, <2>1, GotoStep DEF Pc
  <2>3. FilesOK'
    BY <1>0, <1>3, <2>1 DEF TypeInv, FilesOK, PublishSidecar, Entry
  <2>4. CacheOK'
    BY <1>3 DEF TypeInv, CacheOK, EntryCap, PublishSidecar, memory
  <2> QED
    BY <1>1, <2>2, <2>3, <2>4 DEF TypeInv
<1>4. CASE PublishIndex(p)
  <2>1. /\ CacheOK' /\ Only(p) /\ proc'[p].pc = "clean" /\ proc'[p].then = "idle"
        /\ SameRequest(proc[p], proc'[p])
    BY <1>4, IndexStep
  <2>2. WellFormed(proc'[p]) /\ Publishing(p)
    BY <1>0, <1>4, <2>1 DEF WellFormed, SameRequest, PublishIndex, At, Publishing
  <2>3. RequestsOK'
    BY <1>0, <2>1, <2>2, RequestsStep
  <2>4. FilesOK'
    BY <1>4 DEF TypeInv, FilesOK, PublishIndex, files
  <2> QED
    BY <1>1, <2>1, <2>3, <2>4 DEF TypeInv
<1> QED
  BY <1>2, <1>3, <1>4

\* A content file that could not be deleted is queued; the queue keeps its bound.
LEMMA Queued ==
  ASSUME NEW q \in Seq(File), Len(q) <= MaxFailed, NEW f \in File
  PROVE  /\ Enqueue(q, f) \in Seq(File) /\ Len(Enqueue(q, f)) <= MaxFailed
         /\ Range(Enqueue(q, f)) \subseteq Range(q) \cup {f}
<1> DEFINE t == IF Len(q) >= MaxFailed THEN Tail(q) ELSE q
<1>0. MaxFailed \in Nat /\ MaxFailed > 0 /\ Len(q) \in Nat
  BY BoundAssumption
<1>1. /\ t \in Seq(File) /\ Len(t) \in Nat /\ Len(t) + 1 <= MaxFailed
      /\ \A i \in 1..Len(t) : \E j \in 1..Len(q) : t[i] = q[j]
  <2>1. CASE Len(q) >= MaxFailed
    <3>1. q # <<>>
      BY <1>0, <2>1
    <3>2. /\ Tail(q) \in Seq(File) /\ Len(Tail(q)) = Len(q) - 1
          /\ \A i \in 1..Len(Tail(q)) : Tail(q)[i] = q[i + 1]
      BY <3>1, HeadTailProperties
    <3>3. t = Tail(q)
      BY <2>1
    <3>4. \A i \in 1..Len(q) - 1 : i + 1 \in 1..Len(q)
      BY <1>0
    <3> HIDE DEF t
    <3> QED
      BY <1>0, <2>1, <3>2, <3>3, <3>4
  <2>2. CASE ~(Len(q) >= MaxFailed)
    BY <1>0, <2>2
  <2> QED
    BY <2>1, <2>2
<1>2. Enqueue(q, f) = Append(t, f)
  BY DEF Enqueue
<1> HIDE DEF t
<1> DEFINE r == Append(t, f)
<1>3. /\ r \in Seq(File) /\ Len(r) = Len(t) + 1 /\ r[Len(t) + 1] = f
      /\ \A i \in 1..Len(t) : r[i] = t[i]
  BY <1>1, AppendProperties
<1> HIDE DEF r
<1>4. Range(r) \subseteq Range(q) \cup {f}
  <2> SUFFICES ASSUME NEW i \in DOMAIN r PROVE r[i] \in Range(q) \cup {f}
    BY DEF Range
  <2>1. i \in 1..Len(t) + 1
    BY <1>1, <1>3
  <2>2. CASE i = Len(t) + 1
    BY <1>3, <2>2
  <2>3. CASE i \in 1..Len(t)
    <3>1. PICK j \in 1..Len(q) : t[i] = q[j]
      BY <1>1, <2>3
    <3>2. j \in DOMAIN q /\ r[i] = q[j]
      BY <1>3, <2>3, <3>1
    <3> QED
      BY <3>2 DEF Range
  <2> QED
    BY <1>1, <2>1, <2>2, <2>3
<1>5. Len(r) <= MaxFailed
  BY <1>0, <1>1, <1>3
<1> QED
  BY <1>2, <1>3, <1>4, <1>5 DEF r

\* The request goes on after its files are deleted.
LEMMA ContinueTyped ==
  ASSUME TypeInv, NEW p \in Proc, At(p, "clean"), Continue(p), faults' \in 0..MaxFaults
  PROVE  RequestsOK' /\ HistoryOK'
<1>0. RequestsOK /\ proc[p].ver \in Version /\ proc[p].key \in Key /\ ~At(p, "idle")
  BY DEF TypeInv, RequestsOK, WellFormed, At, ProcType
<1>1. RequestsOK'
  <2>1. \/ proc' = [proc EXCEPT ![p] = Idle]
        \/ proc[p].op = "open" /\ proc[p].then \in {"miss", "load"} /\ Goto(p, proc[p].then)
        \/ proc[p].op # "open" /\ proc[p].then = "source" /\ Goto(p, "source")
    BY ContinueEffect
  <2> QED
    BY <1>0, <2>1, ReturnStep, GotoStep DEF Pc
<1>2. known' \in [Key -> Version] /\ stale' \in BOOLEAN /\ interrupted' \in BOOLEAN
  <2>0. known \in [Key -> Version] /\ stale \in BOOLEAN /\ interrupted \in BOOLEAN
    BY DEF TypeInv, HistoryOK
  <2>1. \/ stale' \in BOOLEAN /\ known' = known /\ interrupted' = interrupted
        \/ /\ known' = [known EXCEPT ![proc[p].key] = Max({known[proc[p].key], proc[p].ver})]
           /\ stale' = stale /\ interrupted' = interrupted
    BY <2>0, ContinueEffect DEF history
  <2>2. Max({known[proc[p].key], proc[p].ver}) \in Version
    <3>1. known[proc[p].key] \in Version /\ Version \subseteq Int
      BY <1>0, <2>0, BoundAssumption DEF Version
    <3> QED
      BY <1>0, <3>1, Greater
  <2> QED
    BY <1>0, <2>0, <2>1, <2>2
<1> QED
  BY <1>1, <1>2 DEF HistoryOK

\* Superseded, evicted and removed files are deleted, or one of them is queued.
LEMMA CleanTyped ==
  ASSUME TypeInv, NEW p \in Proc, Clean(p) \/ CleanFails(p)
  PROVE  TypeInv'
<1>0. At(p, "clean") /\ Continue(p) /\ s3' = s3
  BY DEF Clean, CleanFails
<1>1. faults' \in 0..MaxFaults
  BY BoundAssumption DEF TypeInv, HistoryOK, Clean, CleanFails, Fault
<1>2. RequestsOK' /\ HistoryOK'
  BY <1>0, <1>1, ContinueTyped
<1>3. BucketOK'
  BY <1>0 DEF TypeInv, BucketOK
<1>4. /\ disk \in [File -> [key : Key, ver : Version] \cup {Gone}]
      /\ meta \in [Key -> Entry] /\ NoEntry \in Entry
      /\ failed \in Seq(File) /\ Len(failed) <= MaxFailed
      /\ proc[p].trash \in SUBSET File
  BY DEF TypeInv, FilesOK, CacheOK, RequestsOK, ProcType, Entry
<1>5. meta' \in [Key -> Entry]
  <2>1. meta' = [k \in Key |-> IF k \in proc[p].sidecars THEN NoEntry ELSE meta[k]]
    BY DEF Clean, CleanFails
  <2> QED
    BY <1>4, <2>1
<1>6. CASE Clean(p)
  <2>1. disk' = [f \in File |-> IF f \in proc[p].trash THEN Gone ELSE disk[f]]
    BY <1>6 DEF Clean
  <2>2. FilesOK'
    BY <1>4, <1>5, <2>1 DEF FilesOK
  <2>3. CacheOK'
    BY <1>6 DEF TypeInv, CacheOK, EntryCap, Clean, memory
  <2> QED
    BY <1>2, <1>3, <2>2, <2>3 DEF TypeInv
<1>7. CASE CleanFails(p)
  <2>1. PICK f \in proc[p].trash :
          /\ disk' = [g \in File |-> IF g \in proc[p].trash \ {f} THEN Gone ELSE disk[g]]
          /\ failed' = Enqueue(failed, f)
    BY <1>7 DEF CleanFails
  <2>2. FilesOK'
    BY <1>4, <1>5, <2>1 DEF FilesOK
  <2>3. failed' \in Seq(File) /\ Len(failed') <= MaxFailed
    BY <1>4, <2>1, Queued
  <2>4. CacheOK'
    BY <1>7, <2>3 DEF TypeInv, CacheOK, EntryCap, CleanFails
  <2> QED
    BY <1>2, <1>3, <2>2, <2>4 DEF TypeInv
<1> QED
  BY <1>6, <1>7

\* A PUT, a COPY or a DELETE of an existing object is the key's next version.
LEMMA ObjectStep ==
  ASSUME BucketOK, NEW k \in Key, Put(k) \/ (s3[k].live /\ Delete(k))
  PROVE  /\ BucketOK' /\ s3[k].ver + 1 \in Version
         /\ s3'[k].ver = s3[k].ver + 1 /\ \A j \in Key \ {k} : s3'[j] = s3[j]
<1> DEFINE v == s3[k].ver + 1
<1>0. s3 \in [Key -> [ver : Version, live : BOOLEAN]] /\ MaxVersion \in Nat
  BY BoundAssumption DEF BucketOK
<1>1. v \in Version /\ (Put(k) => v \in 1..MaxVersion)
  BY <1>0 DEF BucketOK, Put, Version
<1>2. PICK o \in [ver : Version, live : BOOLEAN] :
        /\ s3' = [s3 EXCEPT ![k] = o] /\ o.ver = v /\ (o.live => Put(k))
  <2>1. CASE Put(k)
    <3> DEFINE o == [ver |-> v, live |-> TRUE]
    <3>1. o \in [ver : Version, live : BOOLEAN] /\ o.ver = v
      BY <1>1
    <3>2. s3' = [s3 EXCEPT ![k] = o]
      BY <2>1 DEF Put
    <3> QED
      BY <2>1, <3>1, <3>2
  <2>2. CASE Delete(k)
    <3> DEFINE o == [ver |-> v, live |-> FALSE]
    <3>1. o \in [ver : Version, live : BOOLEAN] /\ o.ver = v /\ ~o.live
      BY <1>1
    <3>2. s3' = [s3 EXCEPT ![k] = o]
      BY <2>2 DEF Delete
    <3> QED
      BY <3>1, <3>2
  <2> QED
    BY <2>1, <2>2
<1>3. s3' \in [Key -> [ver : Version, live : BOOLEAN]] /\ s3'[k] = o
      /\ \A j \in Key \ {k} : s3'[j] = s3[j]
  BY <1>0, <1>2
<1>4. \A j \in Key : s3'[j].live => s3'[j].ver \in 1..MaxVersion
  BY <1>1, <1>2, <1>3 DEF BucketOK
<1> QED
  BY <1>1, <1>2, <1>3, <1>4 DEF BucketOK

\* What a mutation or an invalidation does when it starts or goes on to the next
\* object: either the bucket is left alone, or the request carries the version that
\* it has just made of the object.  Only such a version is published.
Mutates(p, op, pc, k, v) ==
    /\ Begin(p, op, pc, k, v)
    /\ op = "invalidate" \/ p \in Mutator \/ proc[p].pc \in {"delete", "source"}
    /\ \/ s3' = s3 /\ v = 0
       \/ s3' = s3 /\ v = s3[k].ver /\ At(p, "delete")
       \/ /\ Put(k) \/ (s3[k].live /\ Delete(k))
          /\ v = s3[k].ver + 1 /\ op # "invalidate" /\ pc # "delete"
    /\ pc = "publish" => v > 0
    /\ pc = "delete" => p \in Mutator
    /\ proc[p].pc \in {"idle", "delete", "source"}
    /\ UNCHANGED <<files, memory, history, faults>>

\* Every mutation but the first half of move_file has that form.
LEMMA MutationEffect ==
  ASSUME TypeInv, NEW p \in Proc,
         \/ \E k \in Key : \/ SaveFile(p, k) \/ AppendFile(p, k) \/ DeleteFile(p, k)
                           \/ DeleteFilesBatch(p, k) \/ InvalidateCachedFile(p, k)
         \/ DeleteObject(p) \/ MoveSource(p)
  PROVE  \E op \in Op \ {"none", "open"}, pc \in {"publish", "drop", "delete"},
            k \in Key, v \in Version : Mutates(p, op, pc, k, v)
<1> DEFINE Ops == Op \ {"none", "open"}
           Pcs == {"publish", "drop", "delete"}
           Goal == \E op \in Ops, pc \in Pcs, k \in Key, v \in Version : Mutates(p, op, pc, k, v)
<1>0. BucketOK /\ 0 \in Version /\ \A k \in Key : s3[k].ver \in Version
  BY BoundAssumption DEF TypeInv, BucketOK, Version
<1>1. \A k \in Key : Put(k) \/ (s3[k].live /\ Delete(k)) => s3[k].ver + 1 \in Version
  BY <1>0, ObjectStep
<1>2. /\ "publish" \in Pcs /\ "drop" \in Pcs /\ "delete" \in Pcs
      /\ {"save", "append", "delete", "batch", "invalidate", "move"} \subseteq Ops
  BY DEF Op
<1>3. ASSUME NEW k \in Key, SaveFile(p, k) PROVE Goal
  <2>1. \/ Mutates(p, "save", "publish", k, s3[k].ver + 1)
        \/ Mutates(p, "save", "drop", k, s3[k].ver + 1)
    <3>1. s3[k].ver + 1 > 0
      BY <1>0, BoundAssumption DEF Version
    <3> QED
      BY <1>3, <3>1 DEF SaveFile, Mutates, At
  <2>2. s3[k].ver + 1 \in Version
    BY <1>1, <1>3 DEF SaveFile
  <2> QED
    BY <1>2, <2>1, <2>2
<1>4. ASSUME NEW k \in Key, AppendFile(p, k) PROVE Goal
  <2>1. Mutates(p, "append", "drop", k, s3[k].ver + 1)
    BY <1>4 DEF AppendFile, Mutates, At
  <2>2. s3[k].ver + 1 \in Version
    BY <1>1, <1>4 DEF AppendFile
  <2> QED
    BY <1>2, <2>1, <2>2
<1>5. ASSUME NEW k \in Key, DeleteFile(p, k) PROVE Goal
  <2>1. Mutates(p, "delete", "delete", k, 0)
    BY <1>5 DEF DeleteFile, Mutates, At
  <2> QED
    BY <1>0, <1>2, <2>1
<1>6. ASSUME NEW k \in Key, DeleteFilesBatch(p, k) PROVE Goal
  <2>1. \/ s3[k].live /\ Delete(k) /\ Mutates(p, "batch", "drop", k, s3[k].ver + 1)
        \/ Mutates(p, "batch", "drop", k, 0)
    BY <1>6 DEF DeleteFilesBatch, Mutates, At
  <2> QED
    BY <1>0, <1>1, <1>2, <2>1
<1>7. ASSUME NEW k \in Key, InvalidateCachedFile(p, k) PROVE Goal
  <2>1. Mutates(p, "invalidate", "drop", k, 0)
    BY <1>7 DEF InvalidateCachedFile, Mutates, At
  <2> QED
    BY <1>0, <1>2, <2>1
<1>8. CASE DeleteObject(p)
  <2> DEFINE k == proc[p].key
  <2>0. k \in Key
    BY <1>8 DEF TypeInv, RequestsOK, WellFormed, DeleteObject, At
  <2>1. \/ s3[k].live /\ Delete(k) /\ Mutates(p, "delete", "drop", k, s3[k].ver + 1)
        \/ Mutates(p, "delete", "drop", k, s3[k].ver)
    BY <1>8 DEF DeleteObject, Mutates, At
  <2> QED
    BY <1>0, <1>1, <1>2, <2>0, <2>1
<1>9. CASE MoveSource(p)
  <2> DEFINE k == proc[p].src
  <2>0. k \in Key
    BY <1>9 DEF TypeInv, RequestsOK, WellFormed, MoveSource, At
  <2>1. \/ s3[k].live /\ Delete(k) /\ Mutates(p, "move", "drop", k, s3[k].ver + 1)
        \/ Mutates(p, "move", "drop", k, 0)
    BY <1>9 DEF MoveSource, Mutates, At
  <2> QED
    BY <1>0, <1>1, <1>2, <2>0, <2>1
<1> QED
  BY <1>3, <1>4, <1>5, <1>6, <1>7, <1>8, <1>9

\* Objects are written and deleted.
LEMMA MutationTyped ==
  ASSUME TypeInv, NEW p \in Proc, NEW op \in Op \ {"none", "open"},
         NEW pc \in {"publish", "drop", "delete"}, NEW k \in Key, NEW v \in Version,
         Mutates(p, op, pc, k, v)
  PROVE  TypeInv'
<1>1. RequestsOK'
  BY BeginStep DEF TypeInv, Mutates
<1>2. BucketOK'
  <2>1. CASE s3' = s3
    BY <2>1 DEF TypeInv, BucketOK
  <2>2. CASE Put(k) \/ (s3[k].live /\ Delete(k))
    BY <2>2, ObjectStep DEF TypeInv
  <2> QED
    BY <2>1, <2>2 DEF Mutates
<1>3. UNCHANGED <<files, memory, history, faults>>
  BY DEF Mutates
<1>4. FilesOK' /\ CacheOK' /\ HistoryOK'
  BY <1>3 DEF TypeInv, FilesOK, CacheOK, EntryCap, HistoryOK, files, memory, history
<1> QED
  BY <1>1, <1>2, <1>4 DEF TypeInv

\* The first half of move_file.
LEMMA MoveTyped ==
  ASSUME TypeInv, NEW p \in Proc, NEW from \in Key, NEW to \in Key, MoveFile(p, from, to)
  PROVE  TypeInv'
<1>1. /\ Only(p) /\ proc'[p].pc = "drop" /\ proc'[p].op = "move" /\ proc'[p].key = to
      /\ proc'[p].src = from
  BY InvIsTyped, MoveEffect
<1>2. WellFormed(proc'[p]) /\ ~Publishing(p)'
  BY <1>1 DEF WellFormed, Publishing
<1>3. RequestsOK'
  BY <1>1, <1>2, RequestsStep DEF TypeInv
<1>4. BucketOK'
  BY ObjectStep DEF TypeInv, MoveFile
<1>5. FilesOK' /\ CacheOK' /\ HistoryOK'
  BY DEF TypeInv, FilesOK, CacheOK, EntryCap, HistoryOK, files, memory, history, MoveFile
<1> QED
  BY <1>3, <1>4, <1>5 DEF TypeInv

\* A fault stays within its bound.
LEMMA FaultTyped ==
  ASSUME HistoryOK, Fault
  PROVE  faults' \in 0..MaxFaults
  BY BoundAssumption DEF HistoryOK, Fault

\* A request is cancelled, an answer is lost, or a content file disappears.
LEMMA FaultsTyped ==
  ASSUME TypeInv,
         \/ \E p \in Proc : Cancel(p) \/ \E k \in Key : AnswerLost(p, k)
         \/ \E f \in File : Damage(f)
  PROVE  TypeInv'
<1>0. HistoryOK /\ RequestsOK
  BY DEF TypeInv
<1>1. Fault
  BY DEF Cancel, AnswerLost, Damage
<1>2. faults' \in 0..MaxFaults
  BY <1>0, <1>1, FaultTyped
<1>3. CacheOK' /\ meta' = meta
  BY DEF TypeInv, CacheOK, EntryCap, Cancel, AnswerLost, Damage, memory, files
<1>4. ASSUME NEW p \in Proc, Cancel(p) PROVE TypeInv'
  <2>1. RequestsOK'
    BY <1>0, <1>4, ReturnStep DEF Cancel
  <2>2. known' = known /\ stale' = stale /\ s3' = s3 /\ disk' = disk
    BY <1>4 DEF Cancel, files
  <2>3. interrupted' \in BOOLEAN
    BY <1>4, Zenon DEF Cancel
  <2>4. HistoryOK'
    BY <1>0, <1>2, <2>2, <2>3 DEF HistoryOK
  <2> QED
    BY <1>3, <2>1, <2>2, <2>4 DEF TypeInv, BucketOK, FilesOK
<1>5. ASSUME NEW p \in Proc, NEW k \in Key, AnswerLost(p, k) PROVE TypeInv'
  <2>1. BucketOK'
    BY <1>5, ObjectStep DEF TypeInv, AnswerLost
  <2>2. RequestsOK'
    BY <1>0, <1>5 DEF RequestsOK, OnePublisher, Publishing, AnswerLost
  <2>3. FilesOK' /\ HistoryOK'
    BY <1>0, <1>2, <1>5 DEF TypeInv, FilesOK, HistoryOK, AnswerLost, files
  <2> QED
    BY <1>3, <2>1, <2>2, <2>3 DEF TypeInv
<1>6. ASSUME NEW f \in File, Damage(f) PROVE TypeInv'
  <2>1. RequestsOK'
    BY <1>0, <1>6 DEF RequestsOK, OnePublisher, Publishing, Damage
  <2>2. FilesOK'
    BY <1>3, <1>6 DEF TypeInv, FilesOK, Damage
  <2>3. BucketOK' /\ HistoryOK'
    BY <1>0, <1>2, <1>6 DEF TypeInv, BucketOK, HistoryOK, Damage, history
  <2> QED
    BY <1>3, <2>1, <2>2, <2>3 DEF TypeInv
<1> QED
  BY <1>4, <1>5, <1>6

\* The oldest queued deletion is retried.
LEMMA RetryTyped ==
  ASSUME TypeInv, RetryFailedDeletions
  PROVE  TypeInv' /\ Range(failed') \subseteq Range(failed)
<1>0. failed \in Seq(File) /\ failed # <<>> /\ Len(failed) <= MaxFailed /\ MaxFailed \in Nat
  BY BoundAssumption DEF TypeInv, CacheOK, RetryFailedDeletions
<1>1. /\ failed' = Tail(failed) /\ failed' \in Seq(File) /\ Len(failed') = Len(failed) - 1
      /\ \A i \in 1..Len(failed') : failed'[i] = failed[i + 1]
      /\ Head(failed) \in File
  BY <1>0, HeadTailProperties DEF RetryFailedDeletions
<1>2. Len(failed') <= MaxFailed
  BY <1>0, <1>1
<1>3. CacheOK'
  BY <1>1, <1>2 DEF TypeInv, CacheOK, EntryCap, RetryFailedDeletions
<1>4. FilesOK'
  BY <1>1 DEF TypeInv, FilesOK, RetryFailedDeletions
<1>5. RequestsOK' /\ BucketOK' /\ HistoryOK'
  BY DEF TypeInv, RequestsOK, OnePublisher, Publishing, BucketOK, HistoryOK,
         RetryFailedDeletions, history
<1>6. ASSUME NEW i \in DOMAIN failed' PROVE failed'[i] \in Range(failed)
  <2>1. i \in 1..Len(failed) - 1 /\ i + 1 \in 1..Len(failed)
    BY <1>0, <1>1
  <2>2. i + 1 \in DOMAIN failed /\ failed'[i] = failed[i + 1]
    BY <1>0, <1>1, <2>1
  <2> QED
    BY <2>2 DEF Range
<1> QED
  BY <1>3, <1>4, <1>5, <1>6 DEF TypeInv, Range

\* What a restart brings back are entries whose content file was complete.
LEMMA RestartEffect ==
  ASSUME TypeInv, Restart
  PROVE  /\ lru' \in Seq(Key) /\ IsInjective(lru') /\ Len(lru') <= MaxEntries
         /\ Range(lru') \subseteq {k \in Key : Recoverable(k)}
<1> DEFINE S == {k \in Key : Recoverable(k)}
<1>1. PICK order \in SetToSeqs(S) : lru' = Trim(order, meta)
  BY DEF Restart
<1>2. IsFiniteSet(S) /\ Cardinality(S) \in Nat
  BY RequestAssumption, FS_Subset, FS_CardinalityType
<1>3. /\ order \in [1..Cardinality(S) -> S]
      /\ \A i, j \in 1..Cardinality(S) : i # j => order[i] # order[j]
  BY DEF SetToSeqs
<1>4. order \in Seq(Key)
  <2>1. S \subseteq Key
    OBVIOUS
  <2> HIDE DEF S
  <2>2. order \in [1..Cardinality(S) -> Key]
    BY <1>3, <2>1
  <2> QED
    BY <1>2, <2>2, SeqDef
<1>5. IsInjective(order) /\ Range(order) \subseteq S
  BY <1>3 DEF IsInjective, Range
<1> HIDE DEF S
<1>6. /\ Trim(order, meta) \in Seq(Key) /\ IsInjective(Trim(order, meta))
      /\ Range(Trim(order, meta)) \subseteq Range(order)
      /\ Len(Trim(order, meta)) <= MaxEntries
  BY <1>4, <1>5, Trimmed
<1> QED
  BY <1>1, <1>5, <1>6 DEF S

\* The process restarts.
LEMMA RestartTyped ==
  ASSUME TypeInv, Restart
  PROVE  TypeInv'
<1>0. /\ lru' \in Seq(Key) /\ IsInjective(lru') /\ Len(lru') <= MaxEntries
      /\ Range(lru') \subseteq {k \in Key : Recoverable(k)}
  BY RestartEffect
<1>1. meta \in [Key -> Entry] /\ disk \in [File -> [key : Key, ver : Version] \cup {Gone}]
  BY DEF TypeInv, FilesOK
<1>2. /\ index' = [k \in Key |-> IF k \in Range(lru') THEN meta[k] ELSE NoEntry]
      /\ index' \in [Key -> Entry] /\ meta' \in [Key -> Entry]
  BY <1>1 DEF Restart, Entry
<1>3. Range(lru') = {k \in Key : index'[k] # NoEntry}
  BY <1>0, <1>2 DEF Recoverable
<1>4. gen' \in [Key -> Nat] /\ failed' \in Seq(File) /\ Len(failed') <= MaxFailed
  BY BoundAssumption DEF Restart
<1>5. CacheOK'
  BY <1>0, <1>2, <1>3, <1>4 DEF CacheOK, EntryCap
<1>6. disk' \in [File -> [key : Key, ver : Version] \cup {Gone}]
  BY <1>1 DEF Restart
<1>7. RequestsOK'
  <2>1. proc' = [p \in Proc |-> Idle]
    BY DEF Restart
  <2>2. WellFormed(Idle)
    BY DEF WellFormed, Idle
  <2>3. OnePublisher'
    BY <2>1 DEF OnePublisher, Publishing, Idle
  <2> QED
    BY <2>1, <2>2, <2>3, IdleTyped DEF RequestsOK
<1>8. HistoryOK'
  <2>1. HistoryOK /\ Fault /\ known' = known /\ stale' = stale
    BY DEF TypeInv, Restart
  <2>2. faults' \in 0..MaxFaults
    BY <2>1, FaultTyped
  <2>3. interrupted' \in BOOLEAN
    BY Zenon DEF Restart
  <2> QED
    BY <2>1, <2>2, <2>3 DEF HistoryOK
<1>9. BucketOK'
  BY DEF TypeInv, BucketOK, Restart
<1> QED
  BY <1>2, <1>5, <1>6, <1>7, <1>8, <1>9 DEF TypeInv, FilesOK

\* Nothing is cached and nobody is at work at first.
LEMMA StartsTyped == Init => TypeInv
<1> SUFFICES ASSUME Init PROVE TypeInv
  OBVIOUS
<1>1. WellFormed(Idle)
  BY DEF WellFormed, Idle
<1>2. RequestsOK
  BY <1>1, IdleTyped DEF Init, RequestsOK, OnePublisher, Publishing, Idle
<1>3. BucketOK /\ HistoryOK
  <2>1. 0 \in Version /\ 0 \in 0..MaxFaults
    BY BoundAssumption DEF Version
  <2>2. BucketOK
    BY <2>1 DEF Init, BucketOK
  <2>3. HistoryOK
    BY <2>1 DEF Init, HistoryOK
  <2> QED
    BY <2>2, <2>3
<1>4. FilesOK
  BY DEF Init, FilesOK, Entry
<1>5. CacheOK
  <2>1. lru \in Seq(Key) /\ IsInjective(lru) /\ Range(lru) = {} /\ Len(lru) = 0
    BY DEF Init, IsInjective, Range
  <2> QED
    BY <2>1, BoundAssumption DEF Init, CacheOK, EntryCap, Entry
<1> QED
  BY <1>2, <1>3, <1>4, <1>5 DEF TypeInv

\* Every step keeps the parts.
LEMMA StepsTyped == TypeInv /\ [Next]_vars => TypeInv'
<1> SUFFICES ASSUME TypeInv, [Next]_vars PROVE TypeInv'
  OBVIOUS
<1>1. ASSUME NEW p \in Proc, Step(p) PROVE TypeInv'
  <2>1. CASE DeleteObject(p) \/ MoveSource(p)
    BY <2>1, MutationEffect, MutationTyped
  <2> QED
    BY <1>1, <2>1, ReadTyped, RemovalTyped, PublishTyped, CleanTyped DEF Step
<1>2. ASSUME NEW p \in Proc, NEW k \in Key,
             \/ SaveFile(p, k) \/ AppendFile(p, k) \/ DeleteFile(p, k)
             \/ DeleteFilesBatch(p, k) \/ InvalidateCachedFile(p, k)
      PROVE  TypeInv'
  BY <1>2, MutationEffect, MutationTyped
<1>3. CASE UNCHANGED vars
  BY <1>3 DEF TypeInv, RequestsOK, OnePublisher, Publishing, BucketOK, FilesOK, CacheOK,
              EntryCap, HistoryOK, vars, files, memory, history
<1> QED
  BY <1>1, <1>2, <1>3, ReadTyped, StatTyped, CleanTyped, MoveTyped, FaultsTyped, RetryTyped,
     RestartTyped DEF Next

\* The inductive invariant of type correctness.
LEMMA TypeInvariant == Spec => []TypeInv
  BY StartsTyped, StepsTyped, PTL DEF Spec

\* Every variable keeps its type whatever reads, mutations, failures and restarts
\* do: the recency list names each cached key once and no other key, and the queue
\* of failed deletions stays within FAILED_DELETION_QUEUE_LIMIT.
THEOREM TypeCorrect == Spec => []TypeOK
  BY TypeInvariant, InvIsTyped, PTL

\* enforce_limits and recover_entries never leave more than max_entries entries.
THEOREM EntriesAreBounded == Spec => []EntryCap
<1>1. TypeInv => EntryCap
  BY DEF TypeInv, CacheOK
<1> QED
  BY <1>1, TypeInvariant, PTL

-----------------------------------------------------------------------------
(* The kinds of step, as index, sidecars and files to be deleted see them *)

\* No request moves.
Still ==
    /\ UNCHANGED <<proc, index, meta>>
    /\ Range(failed') \subseteq Range(failed)
    /\ interrupted => interrupted'

\* A request moves outside publish_lock.
Quiet(p) ==
    /\ Only(p) /\ ~Publishing(p) /\ proc'[p].pc \notin {"content", "sidecar", "clean"}
    /\ proc'[p].trash \subseteq proc[p].trash
    /\ UNCHANGED <<index, meta, failed, interrupted>>

\* The request's key leaves the index.
Removes(p) ==
    /\ PublishLockFree /\ proc[p].key \in Key /\ ~At(p, "idle")
    /\ proc[p].op = "open" => proc[p].pc \in {"mismatch", "store"}
    /\ proc[p].op # "open" => At(p, "drop")
    /\ \E then \in Pc : /\ Pop(p, proc[p].key, then)
                        /\ then = "source" => proc[p].then = "source"
    /\ UNCHANGED <<s3, meta, history>>

\* A request that returns from outside publish_lock moves outside it.
LEMMA ReturnIsQuiet ==
  ASSUME TypeInv, NEW p \in Proc, ~Publishing(p), proc' = [proc EXCEPT ![p] = Idle],
         UNCHANGED <<index, meta, failed, interrupted>>
  PROVE  Quiet(p)
  BY IdleEffect DEF TypeInv, RequestsOK, Quiet, Idle

\* So does a request that goes on to a step outside it.
LEMMA GotoIsQuiet ==
  ASSUME TypeInv, NEW p \in Proc, ~Publishing(p),
         NEW pc \in {"mismatch", "load", "miss", "publish"}, Goto(p, pc),
         UNCHANGED <<index, meta, failed, interrupted>>
  PROVE  Quiet(p)
<1>1. pc \in Pc /\ proc \in [Proc -> ProcType]
  BY DEF Pc, TypeInv, RequestsOK
<1> QED
  BY <1>1, GotoEffect DEF Quiet, SameClean

\* Reads move outside publish_lock until they publish.
LEMMA ReadIsQuiet ==
  ASSUME TypeInv, NEW p \in Proc,
         \/ \E k \in Key : OpenFile(p, k)
         \/ Lookup(p) \/ OpenCached(p) \/ LoadLock(p) \/ CaptureGeneration(p)
         \/ Fetch(p) \/ DiscardStale(p)
  PROVE  Quiet(p)
<1>0. RequestsOK /\ proc \in [Proc -> ProcType] /\ WellFormed(proc[p]) /\ TypeOK
  BY InvIsTyped DEF TypeInv, RequestsOK
<1>1. UNCHANGED <<index, meta, failed, interrupted>>
  BY DEF OpenFile, Lookup, OpenCached, LoadLock, CaptureGeneration, Fetch, DiscardStale,
         Serve, memory, files, history
<1>2. ~Publishing(p)
  BY DEF OpenFile, Lookup, OpenCached, LoadLock, CaptureGeneration, Fetch, DiscardStale,
         At, Publishing
<1>3. ASSUME NEW k \in Key, OpenFile(p, k) PROVE Quiet(p)
  <2>1. Only(p) /\ proc'[p].pc = "lookup" /\ proc'[p].trash = {}
    BY <1>0, <1>3, OpenEffect DEF TypeOK
  <2> QED
    BY <1>1, <1>2, <2>1 DEF Quiet
<1>4. CASE Lookup(p)
  <2>0. proc[p].key \in Key
    BY <1>0, <1>4 DEF Lookup, At, WellFormed
  <2>1. CASE index[proc[p].key] # NoEntry
    <3>1. Only(p) /\ proc'[p].pc = "found" /\ SameClean(proc[p], proc'[p])
      BY <1>0, <1>4, <2>0, <2>1, HitEffect DEF Lookup
    <3> QED
      BY <1>1, <1>2, <3>1 DEF Quiet, SameClean
  <2>2. CASE index[proc[p].key] = NoEntry
    BY <1>1, <1>2, <1>4, <2>2, GotoIsQuiet DEF Lookup
  <2> QED
    BY <2>1, <2>2
<1>5. CASE OpenCached(p)
  BY <1>1, <1>2, <1>5, ReturnIsQuiet, GotoIsQuiet DEF OpenCached, Serve
<1>6. CASE LoadLock(p)
  BY <1>0, <1>1, <1>2, <1>6, LockEffect DEF Quiet, SameClean
<1>7. CASE CaptureGeneration(p)
  BY <1>0, <1>1, <1>2, <1>7, CaptureEffect DEF Quiet, SameClean
<1>8. CASE Fetch(p)
  <2>1. CASE proc' = [proc EXCEPT ![p] = Idle]
    BY <1>1, <1>2, <2>1, ReturnIsQuiet
  <2>2. CASE proc' # [proc EXCEPT ![p] = Idle]
    <3>0. s3[proc[p].key].ver \in Version
      BY <1>0, <1>8 DEF Fetch, At, WellFormed, TypeOK
    <3>1. Only(p) /\ proc'[p].pc = "store" /\ proc'[p].trash = proc[p].trash
      BY <1>0, <1>8, <2>2, <3>0, FetchEffect DEF Fetch, Serve
    <3> QED
      BY <1>1, <1>2, <3>1 DEF Quiet
  <2> QED
    BY <2>1, <2>2
<1>9. CASE DiscardStale(p)
  BY <1>1, <1>2, <1>9, ReturnIsQuiet DEF DiscardStale, Serve
<1> QED
  BY <1>3, <1>4, <1>5, <1>6, <1>7, <1>8, <1>9

\* Mutations start and change the bucket outside publish_lock.
LEMMA MutationIsQuiet ==
  ASSUME TypeInv, NEW p \in Proc,
         \/ \E k \in Key : \/ SaveFile(p, k) \/ AppendFile(p, k) \/ DeleteFile(p, k)
                           \/ DeleteFilesBatch(p, k) \/ InvalidateCachedFile(p, k)
                           \/ \E j \in Key : MoveFile(p, j, k)
         \/ DeleteObject(p) \/ MoveSource(p)
  PROVE  Quiet(p)
<1>1. ~Publishing(p)
  BY DEF SaveFile, AppendFile, DeleteFile, DeleteFilesBatch, InvalidateCachedFile, MoveFile,
         DeleteObject, MoveSource, At, Publishing
<1>2. ASSUME NEW op \in Op \ {"none", "open"}, NEW pc \in {"publish", "drop", "delete"},
             NEW k \in Key, NEW v \in Version, Mutates(p, op, pc, k, v)
      PROVE  Quiet(p)
  <2>1. pc \in Pc /\ proc \in [Proc -> ProcType]
    BY DEF Pc, TypeInv, RequestsOK
  <2>2. Only(p) /\ proc'[p].pc = pc /\ proc'[p].trash = {}
    BY <1>2, <2>1, BeginEffect DEF Mutates
  <2> QED
    BY <1>1, <1>2, <2>2 DEF Quiet, Mutates, files, memory, history
<1>3. ASSUME NEW k \in Key, NEW j \in Key, MoveFile(p, j, k) PROVE Quiet(p)
  <2>1. Only(p) /\ proc'[p].pc = "drop" /\ proc'[p].trash = {}
    BY <1>3, InvIsTyped, MoveEffect
  <2> QED
    BY <1>1, <1>3, <2>1 DEF Quiet, MoveFile, files, memory, history
<1> QED
  BY <1>2, <1>3, MutationEffect

\* S3DiskCache::remove and remove_if_matches take the entry out or leave the index
\* alone.
LEMMA RemovalKinds ==
  ASSUME TypeInv, NEW p \in Proc, RemoveIfMatches(p) \/ Store(p) \/ RemoveEntry(p)
  PROVE  Quiet(p) \/ Removes(p)
<1>0. WellFormed(proc[p]) /\ proc[p] \in ProcType
  BY DEF TypeInv, RequestsOK
<1>1. ~Publishing(p) /\ proc[p].key \in Key /\ meta' = meta /\ interrupted' = interrupted
  BY <1>0 DEF WellFormed, RemoveIfMatches, Store, RemoveEntry, At, Publishing, Serve, files, history
<1>2. CASE RemoveIfMatches(p)
  <2>1. proc[p].op = "open" /\ At(p, "mismatch") /\ PublishLockFree
    BY <1>0, <1>2 DEF RemoveIfMatches, At, WellFormed
  <2>2. PICK then \in {"miss", "load"} :
          \/ Pop(p, proc[p].key, then)
          \/ Goto(p, then) /\ UNCHANGED memory
    BY <1>2 DEF RemoveIfMatches
  <2>3. CASE Pop(p, proc[p].key, then)
    <3>1. s3' = s3 /\ UNCHANGED history /\ then \in Pc
      BY <1>2 DEF RemoveIfMatches, Pc
    <3> QED
      BY <1>1, <2>1, <2>3, <3>1 DEF Removes, At
  <2>4. CASE Goto(p, then) /\ UNCHANGED memory
    BY <1>1, <2>4, GotoIsQuiet DEF memory
  <2> QED
    BY <2>2, <2>3, <2>4
<1>3. CASE Store(p)
  <2>1. proc[p].op = "open" /\ At(p, "store")
    BY <1>0, <1>3 DEF Store, At, WellFormed
  <2>2. \/ Pop(p, proc[p].key, "idle") /\ PublishLockFree /\ UNCHANGED history
        \/ Goto(p, "publish") /\ UNCHANGED memory
        \/ proc' = [proc EXCEPT ![p] = Idle] /\ UNCHANGED memory
    BY <1>3 DEF Store, Serve
  <2>3. CASE Pop(p, proc[p].key, "idle") /\ PublishLockFree /\ UNCHANGED history
    <3>1. s3' = s3 /\ "idle" \in Pc
      BY <1>3 DEF Store, Pc
    <3> QED
      BY <1>1, <2>1, <2>3, <3>1 DEF Removes, At
  <2>4. CASE Goto(p, "publish") /\ UNCHANGED memory
    BY <1>1, <2>4, GotoIsQuiet DEF memory
  <2>5. CASE proc' = [proc EXCEPT ![p] = Idle] /\ UNCHANGED memory
    BY <1>1, <2>5, ReturnIsQuiet DEF memory
  <2> QED
    BY <2>2, <2>3, <2>4, <2>5
<1>4. CASE RemoveEntry(p)
  <2>1. proc[p].op # "open" /\ proc[p].then \in Pc
    BY <1>0, <1>4 DEF RemoveEntry, At, WellFormed, ProcType
  <2> QED
    BY <1>1, <1>4, <2>1 DEF RemoveEntry, Removes, At
<1> QED
  BY <1>2, <1>3, <1>4

\* Every step is of one of these kinds.
LEMMA StepKinds ==
  ASSUME TypeInv, [Next]_vars
  PROVE  \/ Still \/ Restart
         \/ \E p \in Proc :
              \/ Quiet(p) \/ Removes(p)
              \/ PublishContent(p) \/ PublishSidecar(p) \/ PublishIndex(p)
              \/ Clean(p) \/ CleanFails(p) \/ Cancel(p)
<1>1. ASSUME NEW p \in Proc, Step(p)
      PROVE  \/ Quiet(p) \/ Removes(p)
             \/ PublishContent(p) \/ PublishSidecar(p) \/ PublishIndex(p) \/ Clean(p)
  BY <1>1, ReadIsQuiet, MutationIsQuiet, RemovalKinds DEF Step
<1>2. ASSUME NEW p \in Proc, NEW k \in Key,
             \/ OpenFile(p, k)
             \/ SaveFile(p, k) \/ AppendFile(p, k) \/ DeleteFile(p, k)
             \/ DeleteFilesBatch(p, k) \/ InvalidateCachedFile(p, k)
             \/ \E j \in Key : MoveFile(p, j, k)
      PROVE  Quiet(p)
  BY <1>2, ReadIsQuiet, MutationIsQuiet
<1>3. ASSUME NEW p \in Proc, NEW k \in Key, Stat(p, k) \/ AnswerLost(p, k)
      PROVE  Still
  BY <1>3 DEF Stat, AnswerLost, Still, files, memory
<1>4. ASSUME NEW f \in File, Damage(f) PROVE Still
  BY <1>4 DEF Damage, Still, memory, history
<1>5. CASE RetryFailedDeletions
  BY <1>5, RetryTyped DEF RetryFailedDeletions, Still, history
<1>6. CASE UNCHANGED vars
  BY <1>6 DEF vars, Still, files, memory, history
<1> QED
  BY <1>1, <1>2, <1>3, <1>4, <1>5, <1>6 DEF Next

-----------------------------------------------------------------------------
(* Sidecars and index *)

\* A publisher's sidecar describes the entry it is about to index, and the entries
\* whose sidecars are still to be deleted have left the index.
SidecarsFollow ==
    \A p \in Proc :
        /\ At(p, "sidecar") => meta[proc[p].key] = [file |-> proc[p].file, ver |-> proc[p].ver]
        /\ At(p, "clean") => \A k \in proc[p].sidecars : index[k] = NoEntry

SidecarInv == SidecarsFollow /\ RestartRestores

\* Steps that touch neither the index nor a sidecar nor a publisher.
LEMMA QuietSidecars ==
  ASSUME SidecarInv, Still \/ \E p \in Proc : Quiet(p)
  PROVE  SidecarInv'
<1>1. CASE Still
  BY <1>1 DEF Still, SidecarInv, SidecarsFollow, RestartRestores, At
<1>2. ASSUME NEW p \in Proc, Quiet(p) PROVE SidecarInv'
  <2>1. /\ \A q \in Proc \ {p} : proc'[q] = proc[q]
        /\ ~At(p, "sidecar") /\ ~At(p, "clean")
        /\ proc'[p].pc # "sidecar" /\ proc'[p].pc # "clean"
        /\ index' = index /\ meta' = meta /\ interrupted' = interrupted
    BY <1>2 DEF Quiet, Only, Publishing, At
  <2>2. SidecarsFollow'
    BY <2>1 DEF SidecarInv, SidecarsFollow, At
  <2>3. RestartRestores'
    BY <2>1 DEF SidecarInv, RestartRestores, At
  <2> QED
    BY <2>2, <2>3 DEF SidecarInv
<1> QED
  BY <1>1, <1>2

\* An entry leaves the index: its sidecar is still to be deleted.
LEMMA RemovalSidecars ==
  ASSUME TypeInv, SidecarInv, NEW p \in Proc, Removes(p)
  PROVE  SidecarInv'
<1> DEFINE k == proc[p].key
<1>0. k \in Key /\ index \in [Key -> Entry] /\ meta' = meta /\ interrupted' = interrupted
  BY DEF Removes, TypeInv, CacheOK, history
<1>1. /\ index' = [index EXCEPT ![k] = NoEntry]
      /\ \A q \in Proc \ {p} : proc'[q] = proc[q]
      /\ proc'[p].pc = "clean" /\ proc'[p].sidecars = IF index[k] = NoEntry THEN {} ELSE {k}
  <2>1. PICK then \in Pc : Pop(p, k, then)
    BY DEF Removes
  <2> QED
    BY <1>0, <2>1, PopStep DEF Only
<1>2. \A q \in Proc : ~At(q, "sidecar") /\ ~At(q, "clean")
  BY DEF Removes, PublishLockFree, At
<1>3. SidecarsFollow'
  BY <1>0, <1>1, <1>2 DEF SidecarsFollow, At
<1>4. ASSUME NEW j \in Key, ~interrupted'
      PROVE  (At(p, "clean") /\ j \in proc[p].sidecars)' \/ meta'[j] = index'[j]
  <2>1. meta[j] = index[j]
    BY <1>0, <1>2, <1>4 DEF SidecarInv, RestartRestores
  <2>2. CASE j = k /\ index[k] # NoEntry
    BY <1>1, <2>2 DEF At
  <2>3. CASE ~(j = k /\ index[k] # NoEntry)
    BY <1>0, <1>1, <2>1, <2>3
  <2> QED
    BY <2>2, <2>3
<1> QED
  BY <1>3, <1>4 DEF SidecarInv, RestartRestores

\* The steps of publish.
LEMMA PublishSidecars ==
  ASSUME TypeInv, SidecarInv, NEW p \in Proc,
         PublishContent(p) \/ PublishSidecar(p) \/ PublishIndex(p)
  PROVE  SidecarInv'
<1>0. /\ proc \in [Proc -> ProcType] /\ WellFormed(proc[p]) /\ TypeOK /\ OnePublisher
      /\ proc[p].key \in Key /\ interrupted' = interrupted
      /\ index \in [Key -> Entry] /\ meta \in [Key -> Entry]
  BY InvIsTyped
  DEF TypeInv, RequestsOK, CacheOK, FilesOK, WellFormed, PublishContent, PublishSidecar,
      PublishIndex, At, history
<1>1. CASE PublishContent(p)
  <2>1. Only(p) /\ proc'[p].pc = "content"
    BY <1>0, <1>1, ContentEffect
  <2>2. /\ \A q \in Proc \ {p} : proc'[q] = proc[q]
        /\ ~At(p, "sidecar") /\ ~At(p, "clean")
        /\ proc'[p].pc # "sidecar" /\ proc'[p].pc # "clean"
        /\ index' = index /\ meta' = meta
    BY <1>1, <2>1 DEF Only, PublishContent, At, memory
  <2>3. SidecarsFollow'
    BY <2>2 DEF SidecarInv, SidecarsFollow, At
  <2>4. RestartRestores'
    BY <1>0, <2>2 DEF SidecarInv, RestartRestores, At
  <2> QED
    BY <2>3, <2>4 DEF SidecarInv
<1>2. CASE PublishSidecar(p)
  <2>1. /\ Only(p) /\ proc'[p].pc = "sidecar" /\ At(p, "content")
        /\ SameRequest(proc[p], proc'[p]) /\ SameContent(proc[p], proc'[p])
    BY <1>0, <1>2, GotoEffect DEF PublishSidecar, Pc
  <2>2. /\ \A q \in Proc \ {p} : proc'[q] = proc[q] /\ ~At(q, "sidecar") /\ ~At(q, "clean")
        /\ proc'[p].key = proc[p].key /\ proc'[p].ver = proc[p].ver
        /\ proc'[p].file = proc[p].file /\ index' = index
        /\ meta' = [meta EXCEPT ![proc[p].key] = [file |-> proc[p].file, ver |-> proc[p].ver]]
    BY <1>0, <1>2, <2>1
    DEF Only, SameRequest, SameContent, PublishSidecar, memory, OnePublisher, Publishing, At
  <2>3. meta'[proc[p].key] = [file |-> proc[p].file, ver |-> proc[p].ver]
    BY <1>0, <2>2
  <2>4. SidecarsFollow'
    BY <2>1, <2>2, <2>3 DEF SidecarsFollow, At
  <2>5. ASSUME NEW j \in Key, ~interrupted'
        PROVE  (At(p, "sidecar") /\ proc[p].key = j)' \/ meta'[j] = index'[j]
    BY <1>0, <2>1, <2>2, <2>5 DEF SidecarInv, RestartRestores, At
  <2> QED
    BY <2>4, <2>5 DEF SidecarInv, RestartRestores
<1>3. CASE PublishIndex(p)
  <2> DEFINE k == proc[p].key
             e == [file |-> proc[p].file, ver |-> proc[p].ver]
  <2>1. PICK evicted \in SUBSET Key :
          /\ index' = [j \in Key |-> IF j \in evicted THEN NoEntry
                                     ELSE IF j = k THEN e ELSE index[j]]
          /\ Only(p) /\ proc'[p].pc = "clean" /\ proc'[p].sidecars = evicted
    BY <1>3, IndexStep, Zenon
  <2>2. At(p, "sidecar") /\ meta' = meta /\ meta[k] = e
    BY <1>3 DEF PublishIndex, files, SidecarInv, SidecarsFollow
  <2> HIDE DEF e
  <2>3. \A q \in Proc \ {p} : proc'[q] = proc[q] /\ ~At(q, "sidecar") /\ ~At(q, "clean")
    BY <1>0, <2>1, <2>2 DEF Only, OnePublisher, Publishing, At
  <2>4. SidecarsFollow'
    BY <2>1, <2>3 DEF SidecarsFollow, At
  <2>5. ASSUME NEW j \in Key, ~interrupted'
        PROVE  (At(p, "clean") /\ j \in proc[p].sidecars)' \/ meta'[j] = index'[j]
    <3>1. j # k => meta[j] = index[j]
      BY <1>0, <2>2, <2>3, <2>5 DEF SidecarInv, RestartRestores, At
    <3> QED
      BY <1>0, <2>1, <2>2, <3>1 DEF At
  <2> QED
    BY <2>4, <2>5 DEF SidecarInv, RestartRestores
<1> QED
  BY <1>1, <1>2, <1>3

\* The sidecars of what left the index are deleted.
LEMMA CleanSidecars ==
  ASSUME TypeInv, SidecarInv, NEW p \in Proc, Clean(p) \/ CleanFails(p)
  PROVE  SidecarInv'
<1>0. /\ At(p, "clean") /\ Continue(p) /\ index' = index
      /\ meta' = [k \in Key |-> IF k \in proc[p].sidecars THEN NoEntry ELSE meta[k]]
  BY DEF Clean, CleanFails, memory
<1>1. /\ \A q \in Proc \ {p} : proc'[q] = proc[q] /\ ~At(q, "sidecar") /\ ~At(q, "clean")
      /\ proc'[p].pc # "sidecar" /\ proc'[p].pc # "clean"
      /\ interrupted' = interrupted
  <2>1. \/ proc' = [proc EXCEPT ![p] = Idle]
        \/ proc[p].then \in {"miss", "load", "source"} /\ Goto(p, proc[p].then)
    BY <1>0, ContinueEffect
  <2>2. proc \in [Proc -> ProcType] /\ {"miss", "load", "source"} \subseteq Pc
    BY DEF TypeInv, RequestsOK, Pc
  <2>3. Only(p) /\ (proc'[p].pc = "idle" \/ proc'[p].pc \in {"miss", "load", "source"})
    BY <2>1, <2>2, IdleEffect, GotoEffect DEF Idle
  <2>4. interrupted' = interrupted
    BY <1>0, ContinueEffect DEF history
  <2> QED
    BY <1>0, <2>3, <2>4 DEF TypeInv, RequestsOK, OnePublisher, Publishing, At, Only
<1>2. SidecarsFollow'
  BY <1>1 DEF SidecarsFollow, At
<1>3. ASSUME NEW j \in Key, ~interrupted' PROVE meta'[j] = index'[j]
  <2>1. CASE j \in proc[p].sidecars
    BY <1>0, <2>1 DEF SidecarInv, SidecarsFollow
  <2>2. CASE j \notin proc[p].sidecars
    BY <1>0, <1>1, <1>3, <2>2 DEF SidecarInv, RestartRestores, At
  <2> QED
    BY <2>1, <2>2
<1> QED
  BY <1>2, <1>3 DEF SidecarInv, RestartRestores

\* A request stops half way, or the process restarts.
LEMMA FailureSidecars ==
  ASSUME TypeInv, SidecarInv, Restart \/ \E p \in Proc : Cancel(p)
  PROVE  SidecarInv'
<1>1. ASSUME NEW p \in Proc, Cancel(p) PROVE SidecarInv'
  <2>1. /\ \A q \in Proc \ {p} : proc'[q] = proc[q]
        /\ proc'[p].pc = "idle" /\ index' = index /\ meta' = meta
    BY <1>1 DEF TypeInv, RequestsOK, Cancel, memory, files, Idle
  <2>2. SidecarsFollow'
    BY <2>1 DEF SidecarInv, SidecarsFollow, At
  <2>3. interrupted' = (interrupted \/ HalfWay(p))
    BY <1>1 DEF Cancel
  <2>4. ~interrupted' => /\ ~interrupted /\ ~At(p, "sidecar")
                         /\ At(p, "clean") => proc[p].sidecars = {}
    BY <2>3 DEF HalfWay
  <2>5. RestartRestores'
    BY <2>1, <2>4 DEF SidecarInv, RestartRestores, At
  <2> QED
    BY <2>2, <2>5 DEF SidecarInv
<1>2. CASE Restart
  BY <1>2 DEF Restart, SidecarInv, SidecarsFollow, RestartRestores, At, Idle
<1> QED
  BY <1>1, <1>2

\* Sidecars and index agree throughout.
LEMMA SidecarInvariant == Spec => []SidecarInv
<1>1. Init => SidecarInv
  BY DEF Init, SidecarInv, SidecarsFollow, RestartRestores, At, Idle
<1>2. TypeInv /\ SidecarInv /\ [Next]_vars => SidecarInv'
  BY StepKinds, QuietSidecars, RemovalSidecars, PublishSidecars, CleanSidecars, FailureSidecars
<1> QED
  BY <1>1, <1>2, TypeInvariant, PTL DEF Spec

\* Between publications, and unless an update was cut off half way, every sidecar
\* on disk describes the entry of the index or its absence: a restart brings back
\* neither a removed entry nor an older one.
THEOREM SidecarsAgree == Spec => []RestartRestores
<1>1. SidecarInv => RestartRestores
  BY DEF SidecarInv
<1> QED
  BY <1>1, SidecarInvariant, PTL

-----------------------------------------------------------------------------
(* Files that are served and files that are deleted *)

\* Two entries never share a content file.
IndexUnique == \A j, k \in Key : index[j] # NoEntry /\ index[j].file = index[k].file => j = k

\* Nobody deletes or serves the content file that a publisher has just renamed.
NewFileUnused ==
    \A p \in Proc : proc[p].pc \in {"content", "sidecar"} =>
        /\ proc[p].file \notin Range(failed)
        /\ \A k \in Key : index[k].file # proc[p].file
        /\ \A q \in Proc : proc[p].file \notin proc[q].trash

FilesInv == ServedFilesAreKept /\ IndexUnique /\ NewFileUnused

\* An entry has a content file, and no entry has none.
LEMMA EntryFile ==
  ASSUME NEW e \in Entry
  PROVE  IF e = NoEntry THEN e.file = -1 ELSE e.file \in File /\ e.file # -1
<1>1. -1 \notin File
  BY BoundAssumption
<1> QED
  BY <1>1 DEF Entry, NoEntry

\* Steps that leave the index alone.
LEMMA QuietFiles ==
  ASSUME FilesInv, Still \/ \E p \in Proc : Quiet(p)
  PROVE  FilesInv'
<1>1. CASE Still
  <2>1. proc' = proc /\ index' = index /\ Range(failed') \subseteq Range(failed)
    BY <1>1 DEF Still
  <2> QED
    BY <2>1 DEF FilesInv, ServedFilesAreKept, IndexUnique, NewFileUnused
<1>2. ASSUME NEW p \in Proc, Quiet(p) PROVE FilesInv'
  <2>1. /\ \A q \in Proc \ {p} : proc'[q] = proc[q]
        /\ proc'[p].pc \notin {"content", "sidecar"}
        /\ proc'[p].trash \subseteq proc[p].trash
        /\ index' = index /\ failed' = failed
    BY <1>2 DEF Quiet, Only
  <2>2. \A q \in Proc : proc'[q].trash \subseteq proc[q].trash
    BY <2>1
  <2>3. ServedFilesAreKept' /\ IndexUnique'
    BY <2>1, <2>2 DEF FilesInv, ServedFilesAreKept, IndexUnique
  <2>4. NewFileUnused'
    BY <2>1, <2>2 DEF FilesInv, NewFileUnused
  <2> QED
    BY <2>3, <2>4 DEF FilesInv
<1> QED
  BY <1>1, <1>2

\* The file of an entry that leaves the index belongs to no other entry.
LEMMA RemovalFiles ==
  ASSUME TypeInv, FilesInv, NEW p \in Proc, Removes(p)
  PROVE  FilesInv'
<1> DEFINE k == proc[p].key
<1>0. k \in Key /\ index \in [Key -> Entry]
  BY DEF Removes, TypeInv, CacheOK, history
<1>1. /\ index' = [index EXCEPT ![k] = NoEntry] /\ failed' = failed
      /\ \A q \in Proc \ {p} : proc'[q] = proc[q]
      /\ proc'[p].pc = "clean" /\ proc'[p].trash = {index[k].file} \ {-1}
  <2>1. PICK then \in Pc : Pop(p, k, then)
    BY DEF Removes
  <2> QED
    BY <1>0, <2>1, PopStep DEF Only
<1>2. \A q \in Proc : proc'[q].pc \notin {"content", "sidecar"}
  BY <1>1 DEF Removes, PublishLockFree
<1>3. NewFileUnused'
  BY <1>2 DEF NewFileUnused
<1>4. \A j \in Key : index'[j] # NoEntry => j # k /\ index'[j] = index[j]
  BY <1>0, <1>1
<1>5. index'[k].file = -1 /\ \A j \in Key \ {k} : index'[j] = index[j]
  BY <1>0, <1>1 DEF NoEntry
<1>6. IndexUnique'
  <2> SUFFICES ASSUME NEW i \in Key, NEW j \in Key, index'[i] # NoEntry,
                      index'[i].file = index'[j].file
               PROVE  i = j
    BY DEF IndexUnique
  <2>1. i # k /\ index'[i] = index[i] /\ index[i].file # -1
    BY <1>0, <1>4, EntryFile
  <2>2. j # k
    BY <1>5, <2>1
  <2> QED
    BY <1>5, <2>1, <2>2 DEF FilesInv, IndexUnique
<1>7. ServedFilesAreKept'
  <2> SUFFICES ASSUME NEW j \in Key, index'[j] # NoEntry
               PROVE  /\ index'[j].file \notin Range(failed')
                      /\ \A q \in Proc : index'[j].file \notin proc'[q].trash
    BY DEF ServedFilesAreKept
  <2>1. j # k /\ index'[j] = index[j]
    BY <1>4
  <2>2. index[j].file # index[k].file
    BY <1>0, <2>1 DEF FilesInv, IndexUnique
  <2>3. index'[j].file \notin proc'[p].trash
    BY <1>1, <2>1, <2>2
  <2> QED
    BY <1>1, <2>1, <2>3 DEF FilesInv, ServedFilesAreKept
<1> QED
  BY <1>3, <1>6, <1>7 DEF FilesInv

\* The steps of publish: a new file, its sidecar, its entry.
LEMMA PublishFiles ==
  ASSUME TypeInv, FilesInv, NEW p \in Proc,
         PublishContent(p) \/ PublishSidecar(p) \/ PublishIndex(p)
  PROVE  FilesInv'
<1>0. /\ proc \in [Proc -> ProcType] /\ WellFormed(proc[p]) /\ TypeOK /\ OnePublisher
      /\ index \in [Key -> Entry] /\ failed' = failed
  BY InvIsTyped
  DEF TypeInv, RequestsOK, CacheOK, PublishContent, PublishSidecar, PublishIndex, memory
<1>1. CASE PublishContent(p)
  <2>1. PICK f \in Fresh :
          /\ Only(p) /\ proc'[p].pc = "content" /\ proc'[p].file = f
          /\ SameClean(proc[p], proc'[p])
    BY <1>0, <1>1, ContentEffect
  <2>2. /\ f \notin Range(failed) /\ \A k \in Key : index[k].file # f
        /\ \A q \in Proc : f \notin proc[q].trash
    BY DEF Fresh, Referenced
  <2>3. /\ \A q \in Proc \ {p} : proc'[q] = proc[q] /\ proc[q].pc \notin {"content", "sidecar"}
        /\ \A q \in Proc : proc'[q].trash = proc[q].trash
        /\ index' = index
    BY <1>1, <2>1 DEF Only, SameClean, PublishContent, memory, PublishLockFree
  <2>4. ServedFilesAreKept' /\ IndexUnique'
    BY <1>0, <2>3 DEF FilesInv, ServedFilesAreKept, IndexUnique
  <2>5. NewFileUnused'
    BY <1>0, <2>1, <2>2, <2>3 DEF NewFileUnused
  <2> QED
    BY <2>4, <2>5 DEF FilesInv
<1>2. CASE PublishSidecar(p)
  <2>1. /\ Only(p) /\ At(p, "content") /\ SameContent(proc[p], proc'[p])
        /\ SameClean(proc[p], proc'[p])
    BY <1>0, <1>2, GotoEffect DEF PublishSidecar, Pc
  <2>2. /\ \A q \in Proc \ {p} : proc'[q] = proc[q] /\ proc[q].pc \notin {"content", "sidecar"}
        /\ \A q \in Proc : proc'[q].trash = proc[q].trash
        /\ proc'[p].file = proc[p].file /\ index' = index
    BY <1>0, <1>2, <2>1
    DEF Only, SameContent, SameClean, PublishSidecar, memory, OnePublisher, Publishing, At
  <2>3. ServedFilesAreKept' /\ IndexUnique'
    BY <1>0, <2>2 DEF FilesInv, ServedFilesAreKept, IndexUnique
  <2>4. NewFileUnused'
    BY <1>0, <2>1, <2>2 DEF FilesInv, NewFileUnused, At
  <2> QED
    BY <2>3, <2>4 DEF FilesInv
<1>3. CASE PublishIndex(p)
  <2> DEFINE k == proc[p].key
             e == [file |-> proc[p].file, ver |-> proc[p].ver]
  <2>1. PICK evicted \in SUBSET Key :
          /\ k \in Key /\ e \in Entry
          /\ index' = [j \in Key |-> IF j \in evicted THEN NoEntry
                                     ELSE IF j = k THEN e ELSE index[j]]
          /\ Only(p) /\ proc'[p].pc = "clean"
          /\ proc'[p].trash = ({index[k].file} \cup {index[j].file : j \in evicted}) \ {-1}
    BY <1>3, IndexStep, Zenon
  <2>2. e.file = proc[p].file
    OBVIOUS
  <2>3. At(p, "sidecar")
    BY <1>3 DEF PublishIndex
  <2>4. /\ e.file \notin Range(failed) /\ \A j \in Key : index[j].file # e.file
        /\ \A q \in Proc : e.file \notin proc[q].trash
    BY <2>2, <2>3 DEF FilesInv, NewFileUnused, At
  <2> HIDE DEF e
  <2>5. \A q \in Proc \ {p} : proc'[q] = proc[q] /\ proc[q].pc \notin {"content", "sidecar"}
    BY <1>0, <2>1, <2>3 DEF Only, OnePublisher, Publishing, At
  <2>6. NewFileUnused'
    BY <2>1, <2>5 DEF NewFileUnused
  <2>7. \A j \in Key : \/ j \in evicted /\ index'[j] = NoEntry
                       \/ j \notin evicted /\ j = k /\ index'[j] = e
                       \/ j \notin evicted /\ j # k /\ index'[j] = index[j]
    BY <2>1
  <2>8. NoEntry.file = -1
    BY DEF NoEntry
  <2>9. IndexUnique'
    <3> SUFFICES ASSUME NEW i \in Key, NEW j \in Key, index'[i] # NoEntry,
                        index'[i].file = index'[j].file
                 PROVE  i = j
      BY DEF IndexUnique
    <3>1. index'[i] \in Entry
      BY <1>0, <2>1, <2>7
    <3>2. index'[j] # NoEntry
      BY <2>8, <3>1, EntryFile
    <3>3. \/ i = k /\ index'[i] = e
          \/ i # k /\ index'[i] = index[i]
      BY <2>7
    <3>4. \/ j = k /\ index'[j] = e
          \/ j # k /\ index'[j] = index[j]
      BY <2>7, <3>2
    <3> QED
      BY <2>4, <3>2, <3>3, <3>4 DEF FilesInv, IndexUnique
  <2>10. ServedFilesAreKept'
    <3> SUFFICES ASSUME NEW j \in Key, index'[j] # NoEntry
                 PROVE  /\ index'[j].file \notin Range(failed')
                        /\ \A q \in Proc : index'[j].file \notin proc'[q].trash
      BY DEF ServedFilesAreKept
    <3>1. CASE j = k /\ j \notin evicted /\ index'[j] = e
      BY <1>0, <2>1, <2>4, <2>5, <3>1
    <3>2. CASE j # k /\ j \notin evicted /\ index'[j] = index[j]
      <4>1. \A i \in Key : i # j => index[j].file # index[i].file
        BY <3>2 DEF FilesInv, IndexUnique
      <4>2. index[j].file \notin proc'[p].trash
        BY <2>1, <3>2, <4>1
      <4> QED
        BY <1>0, <2>5, <3>2, <4>2 DEF FilesInv, ServedFilesAreKept
    <3> QED
      BY <2>7, <3>1, <3>2
  <2> QED
    BY <2>6, <2>9, <2>10 DEF FilesInv
<1> QED
  BY <1>1, <1>2, <1>3

\* Files are deleted or queued, requests stop, the process restarts.
LEMMA DeletionFiles ==
  ASSUME TypeInv, FilesInv, NEW p \in Proc, Clean(p) \/ CleanFails(p) \/ Cancel(p)
  PROVE  FilesInv'
<1>0. proc \in [Proc -> ProcType] /\ index' = index
  BY DEF TypeInv, RequestsOK, Clean, CleanFails, Cancel, memory
<1>1. /\ \A q \in Proc \ {p} : proc'[q] = proc[q]
      /\ proc'[p].pc \notin {"content", "sidecar"}
      /\ proc'[p].trash \subseteq proc[p].trash
  <2>1. CASE Cancel(p)
    BY <1>0, <2>1, IdleEffect DEF Cancel, Idle, Only
  <2>2. CASE Clean(p) \/ CleanFails(p)
    <3>1. \/ proc' = [proc EXCEPT ![p] = Idle]
          \/ proc[p].then \in {"miss", "load", "source"} /\ Goto(p, proc[p].then)
      BY <2>2, ContinueEffect DEF Clean, CleanFails
    <3>2. {"miss", "load", "source"} \subseteq Pc
      BY DEF Pc
    <3> QED
      BY <1>0, <3>1, <3>2, IdleEffect, GotoEffect DEF Idle, Only, SameClean
  <2> QED
    BY <2>1, <2>2
<1>2. \A q \in Proc : proc'[q].trash \subseteq proc[q].trash
  BY <1>1
<1>3. IndexUnique'
  BY <1>0 DEF FilesInv, IndexUnique
<1>4. CASE failed' = failed
  <2>1. ServedFilesAreKept'
    BY <1>0, <1>2, <1>4 DEF FilesInv, ServedFilesAreKept
  <2>2. NewFileUnused'
    BY <1>0, <1>1, <1>2, <1>4 DEF FilesInv, NewFileUnused
  <2> QED
    BY <1>3, <2>1, <2>2 DEF FilesInv
<1>5. CASE CleanFails(p)
  <2>1. PICK f \in proc[p].trash : failed' = Enqueue(failed, f)
    BY <1>5 DEF CleanFails
  <2>2. /\ failed \in Seq(File) /\ Len(failed) <= MaxFailed /\ proc[p].trash \in SUBSET File
    BY <1>0 DEF TypeInv, CacheOK, ProcType
  <2>3. Range(failed') \subseteq Range(failed) \cup {f}
    BY <2>1, <2>2, Queued
  <2>4. ServedFilesAreKept'
    BY <1>0, <1>2, <2>1, <2>3 DEF FilesInv, ServedFilesAreKept
  <2>5. NewFileUnused'
    BY <1>0, <1>1, <1>2, <2>1, <2>3 DEF FilesInv, NewFileUnused
  <2> QED
    BY <1>3, <2>4, <2>5 DEF FilesInv
<1> QED
  BY <1>4, <1>5 DEF Clean, Cancel, memory

\* After a restart nothing is queued, and a recovered file names its key.
LEMMA RestartFiles ==
  ASSUME TypeInv, Restart
  PROVE  FilesInv'
<1>0. /\ Range(lru') \subseteq {k \in Key : Recoverable(k)}
      /\ meta \in [Key -> Entry]
      /\ index' = [k \in Key |-> IF k \in Range(lru') THEN meta[k] ELSE NoEntry]
      /\ proc' = [p \in Proc |-> Idle] /\ failed' = <<>>
  BY RestartEffect DEF TypeInv, FilesOK, Restart
<1>1. NewFileUnused'
  BY <1>0 DEF NewFileUnused, Idle
<1>2. Range(failed') = {}
  BY <1>0 DEF Range
<1>3. ServedFilesAreKept'
  BY <1>0, <1>2 DEF ServedFilesAreKept, Idle
<1>4. IndexUnique'
  <2> SUFFICES ASSUME NEW i \in Key, NEW j \in Key, index'[i] # NoEntry,
                      index'[i].file = index'[j].file
               PROVE  i = j
    BY DEF IndexUnique
  <2>1. i \in Range(lru') /\ index'[i] = meta[i] /\ meta[i].file # -1
    BY <1>0, EntryFile
  <2>2. j \in Range(lru') /\ index'[j] = meta[j]
    BY <1>0, <2>1 DEF NoEntry
  <2>3. Recoverable(i) /\ Recoverable(j)
    BY <1>0, <2>1, <2>2
  <2>4. disk[meta[i].file].key = i /\ disk[meta[j].file].key = j
    BY <2>3 DEF Recoverable
  <2> QED
    BY <2>1, <2>2, <2>4
<1> QED
  BY <1>1, <1>3, <1>4 DEF FilesInv

\* Whatever is superseded, evicted, removed or queued after a failed deletion, the
\* content file of an entry in the index is never among it, restarts included.
THEOREM ServedFilesAreNeverDeleted == Spec => []ServedFilesAreKept
<1>1. Init => FilesInv
  BY DEF Init, FilesInv, ServedFilesAreKept, IndexUnique, NewFileUnused, Idle
<1>2. TypeInv /\ FilesInv /\ [Next]_vars => FilesInv'
  BY StepKinds, QuietFiles, RemovalFiles, PublishFiles, DeletionFiles, RestartFiles
<1>3. FilesInv => ServedFilesAreKept
  BY DEF FilesInv
<1> QED
  BY <1>1, <1>2, <1>3, TypeInvariant, PTL DEF Spec

-----------------------------------------------------------------------------
(* Freshness: one request at a time changes objects *)

\* With two, the bucket keeps the body written last and the cache the one published
\* last, which may be the other.
OneWriter == \A p, q \in Mutator : p = q

\* A mutation has changed the bucket and not yet the cache.
Writing(p, k) ==
    /\ proc[p].op # "open" /\ proc[p].key = k /\ proc[p].ver > 0
    /\ proc[p].pc \in {"publish", "content", "sidecar", "drop"}
Pending(k) == \E p \in Proc : Writing(p, k)

\* A cached copy may lag behind the bucket only while the mutation that made it lag
\* has not returned and has yet to come to the cache.
UpToDate(v, k) == v >= known[k] /\ (v = s3[k].ver \/ Pending(k))

\* What a read has fetched will be published: its generation is current, or it is
\* past the comparison.
Holds(p) ==
    \/ proc[p].pc \in {"store", "publish"} /\ gen[proc[p].key] = proc[p].gen
    \/ proc[p].pc \in {"content", "sidecar"}

ReaderOK(p) ==
    proc[p].op = "open" =>
        /\ proc[p].floor <= known[proc[p].key]
        /\ \/ interrupted
           \/ proc[p].pc \in {"found", "mismatch", "store", "publish", "content", "sidecar",
                              "clean"} => proc[p].ver >= proc[p].floor
        /\ interrupted \/ (Holds(p) => UpToDate(proc[p].ver, proc[p].key))

WriterOK(p) ==
    /\ proc[p].op # "open" =>
         /\ proc[p].ver = 0 \/ (p \in Mutator /\ proc[p].ver = s3[proc[p].key].ver)
         /\ proc[p].pc \in {"publish", "content", "sidecar"} => proc[p].ver > 0
    /\ proc[p].pc \in {"delete", "source"} \/ proc[p].then = "source" => p \in Mutator

KnownBehind == \A k \in Key : known[k] <= s3[k].ver

IndexFresh ==
    interrupted \/ \A k \in Key : index[k] # NoEntry => UpToDate(index[k].ver, k)

FreshInv ==
    /\ KnownBehind /\ IndexFresh /\ FreshReads
    /\ \A p \in Proc : ReaderOK(p) /\ WriterOK(p)

\* The versions are numbers.
LEMMA Numbers ==
  ASSUME TypeInv
  PROVE  /\ Version \subseteq Nat
         /\ \A k \in Key : known[k] \in Version /\ s3[k].ver \in Version /\ index[k].ver \in Version
         /\ \A p \in Proc : proc[p].ver \in Version /\ proc[p].floor \in Version
<1>1. Version \subseteq Nat /\ 0 \in Version
  BY BoundAssumption DEF Version
<1>2. \A k \in Key : known[k] \in Version /\ s3[k].ver \in Version
  BY DEF TypeInv, HistoryOK, BucketOK
<1>3. \A k \in Key : index[k].ver \in Version
  BY <1>1 DEF TypeInv, CacheOK, Entry, NoEntry
<1>4. \A p \in Proc : proc[p].ver \in Version /\ proc[p].floor \in Version
  BY DEF TypeInv, RequestsOK, ProcType
<1> QED
  BY <1>1, <1>2, <1>3, <1>4

\* A request that carries a version of its own is the one writer; nothing else is
\* pending while the writer is not writing.
LEMMA SoleWriter ==
  ASSUME OneWriter, FreshInv, NEW p \in Mutator, NEW k \in Key,
         NEW q \in Proc, Writing(q, k)
  PROVE  q = p
<1>1. proc[q].op # "open" /\ proc[q].ver > 0
  BY DEF Writing
<1>2. proc[q].ver # 0
  BY <1>1
<1>3. q \in Mutator
  BY <1>1, <1>2 DEF FreshInv, WriterOK
<1> QED
  BY <1>3 DEF OneWriter

\* What a step must do to keep the requests that do not take it.
LEMMA OthersFresh ==
  ASSUME OneWriter, TypeInv, TypeInv', FreshInv, NEW p \in Proc, Only(p),
         \A k \in Key : known[k] <= known'[k],
         interrupted => interrupted',
         s3' = s3 \/ p \in Mutator,
         ~interrupted' =>
            \A q \in Proc \ {p} : proc[q].op = "open" /\ Holds(q)' =>
                /\ Holds(q)
                /\ UpToDate(proc[q].ver, proc[q].key) => UpToDate(proc[q].ver, proc[q].key)'
  PROVE  \A q \in Proc \ {p} : ReaderOK(q)' /\ WriterOK(q)'
<1> SUFFICES ASSUME NEW q \in Proc \ {p} PROVE ReaderOK(q)' /\ WriterOK(q)'
  OBVIOUS
<1>1. proc'[q] = proc[q] /\ ReaderOK(q) /\ WriterOK(q)
  BY DEF Only, FreshInv
<1>2. WriterOK(q)'
  <2>1. CASE s3' = s3
    BY <1>1, <2>1 DEF WriterOK
  <2>2. CASE p \in Mutator
    <3>1. q \notin Mutator
      BY <2>2 DEF OneWriter
    <3> QED
      BY <1>1, <3>1 DEF WriterOK
  <2> QED
    BY <2>1, <2>2
<1>3. ASSUME proc[q].op = "open" PROVE ReaderOK(q)'
  <2>1. proc[q].key \in Key
    BY <1>3 DEF TypeInv, RequestsOK, WellFormed
  <2>2. proc[q].floor <= known'[proc[q].key]
    <3>1. /\ proc[q].floor \in Nat /\ known[proc[q].key] \in Nat /\ known'[proc[q].key] \in Nat
      BY <2>1, Numbers DEF TypeInv, HistoryOK
    <3> QED
      BY <1>1, <1>3, <2>1, <3>1 DEF ReaderOK
  <2>3. CASE interrupted'
    BY <1>1, <2>2, <2>3 DEF ReaderOK
  <2>4. CASE ~interrupted'
    <3>1. Holds(q)' => UpToDate(proc[q].ver, proc[q].key)'
      BY <1>1, <1>3, <2>4 DEF ReaderOK
    <3>2. (Holds(q) => UpToDate(proc[q].ver, proc[q].key))'
      BY <1>1, <3>1
    <3> QED
      BY <1>1, <1>3, <2>2, <2>4, <3>2 DEF ReaderOK
  <2> QED
    BY <2>3, <2>4
<1>4. ASSUME proc[q].op # "open" PROVE ReaderOK(q)'
  BY <1>1, <1>4 DEF ReaderOK
<1> QED
  BY <1>2, <1>3, <1>4

\* Steps that change neither the bucket nor the index nor a generation, and take
\* no pending update away.
LEMMA QuietFresh ==
  ASSUME OneWriter, TypeInv, TypeInv', FreshInv, NEW p \in Proc, Only(p),
         UNCHANGED <<s3, known, index, gen>>,
         interrupted => interrupted',
         FreshReads', ReaderOK(p)', WriterOK(p)',
         ~interrupted' => \A k \in Key : Writing(p, k) => Writing(p, k)'
  PROVE  FreshInv'
<1>1. ~interrupted' => \A k \in Key : Pending(k) => Pending(k)'
  <2> SUFFICES ASSUME ~interrupted', NEW k \in Key, NEW q \in Proc, Writing(q, k)
               PROVE  Writing(q, k)'
    BY DEF Pending
  <2>1. q # p => proc'[q] = proc[q]
    BY DEF Only
  <2> QED
    BY <2>1 DEF Writing
<1>2. ~interrupted' => \A k \in Key, v \in Version : UpToDate(v, k) => UpToDate(v, k)'
  BY <1>1 DEF UpToDate
<1>3. KnownBehind'
  BY DEF FreshInv, KnownBehind
<1>4. IndexFresh'
  <2>1. \A k \in Key : index[k].ver \in Version
    BY Numbers
  <2> QED
    BY <1>2, <2>1 DEF FreshInv, IndexFresh
<1>5. \A q \in Proc \ {p} : ReaderOK(q)' /\ WriterOK(q)'
  <2>1. \A k \in Key : known[k] <= known'[k]
    BY Numbers
  <2>2. ASSUME ~interrupted', NEW q \in Proc \ {p}, proc[q].op = "open", Holds(q)'
        PROVE  /\ Holds(q)
               /\ UpToDate(proc[q].ver, proc[q].key) => UpToDate(proc[q].ver, proc[q].key)'
    <3>1. proc'[q] = proc[q] /\ proc[q].key \in Key /\ proc[q].ver \in Version
      BY <2>2, Numbers DEF Only, TypeInv, RequestsOK, WellFormed
    <3> QED
      BY <1>2, <2>2, <3>1 DEF Holds
  <2> QED
    BY <2>1, <2>2, OthersFresh
<1> QED
  BY <1>3, <1>4, <1>5 DEF FreshInv

\* An idle request makes no claim.
LEMMA IdleFresh ==
  ASSUME NEW p \in Proc, proc'[p] = Idle
  PROVE  ReaderOK(p)' /\ WriterOK(p)'
<1>1. /\ proc'[p].op = "none" /\ proc'[p].ver = 0 /\ proc'[p].pc = "idle"
      /\ proc'[p].then = "idle"
  BY DEF Idle
<1> QED
  BY <1>1 DEF ReaderOK, WriterOK

\* A read returns a version that is not older than what was known at its start.
LEMMA ServeFresh ==
  ASSUME OneWriter, TypeInv, TypeInv', FreshInv, NEW p \in Proc, NEW v \in Version,
         proc[p].op = "open", Serve(p, v), interrupted \/ v >= proc[p].floor,
         UNCHANGED <<s3, index, gen>>
  PROVE  FreshInv'
<1>0. Version \subseteq Nat /\ proc[p].floor \in Version /\ proc \in [Proc -> ProcType]
  BY Numbers DEF TypeInv, RequestsOK
<1>1. Only(p) /\ proc'[p] = Idle /\ known' = known /\ interrupted' = interrupted
  BY <1>0, IdleEffect DEF Serve
<1>2. FreshReads'
  <2>1. v >= proc[p].floor => ~(v < proc[p].floor)
    <3>1. v \in Nat /\ proc[p].floor \in Nat
      BY <1>0
    <3>2. \A a, b \in Nat : a >= b => ~(a < b)
      OBVIOUS
    <3> QED
      BY <3>1, <3>2
  <2>2. stale' = (stale \/ v < proc[p].floor)
    BY DEF Serve
  <2> QED
    BY <1>1, <2>1, <2>2, Zenon DEF FreshInv, FreshReads
<1>3. ReaderOK(p)' /\ WriterOK(p)'
  BY <1>1, IdleFresh
<1>4. \A k \in Key : ~Writing(p, k)
  BY DEF Writing
<1> QED
  BY <1>1, <1>2, <1>3, <1>4, QuietFresh

\* A read goes on without a new claim.
LEMMA ReadOnFresh ==
  ASSUME OneWriter, TypeInv, TypeInv', FreshInv, NEW p \in Proc, Only(p),
         proc[p].op = "open", SameRequest(proc[p], proc'[p]),
         proc'[p].then = "source" => proc[p].then = "source",
         proc'[p].pc \notin {"delete", "source"},
         UNCHANGED <<s3, index, gen, history>>,
         \/ interrupted
         \/ proc'[p].pc \in {"lookup", "load", "miss", "fetch"}
         \/ /\ proc'[p].ver >= proc[p].floor
            /\ Holds(p)' => UpToDate(proc'[p].ver, proc[p].key)
  PROVE  FreshInv'
<1>1. /\ proc'[p].op = "open" /\ proc'[p].key = proc[p].key /\ proc'[p].floor = proc[p].floor
      /\ known' = known /\ interrupted' = interrupted /\ stale' = stale
  BY DEF SameRequest, history
<1>2. \A k \in Key : ~Writing(p, k)
  BY DEF Writing
<1>3. FreshReads'
  BY <1>1 DEF FreshInv, FreshReads
<1>4. WriterOK(p)'
  BY <1>1 DEF FreshInv, WriterOK
<1>5. \A k \in Key : Pending(k) => Pending(k)'
  <2> SUFFICES ASSUME NEW k \in Key, NEW q \in Proc, Writing(q, k) PROVE Writing(q, k)'
    BY DEF Pending
  <2>1. proc'[q] = proc[q]
    BY <1>2 DEF Only
  <2> QED
    BY <2>1 DEF Writing
<1>6. proc[p].key \in Key
  BY DEF TypeInv, RequestsOK, WellFormed
<1>7. UpToDate(proc'[p].ver, proc[p].key) => UpToDate(proc[p].ver, proc[p].key)'
  BY <1>1, <1>5, <1>6 DEF UpToDate
<1>8. ReaderOK(p)'
  <2>1. proc[p].floor <= known[proc[p].key]
    BY DEF FreshInv, ReaderOK
  <2>2. CASE interrupted
    BY <1>1, <2>1, <2>2 DEF ReaderOK
  <2>3. CASE proc'[p].pc \in {"lookup", "load", "miss", "fetch"}
    BY <1>1, <2>1, <2>3 DEF ReaderOK, Holds
  <2>4. CASE /\ proc'[p].ver >= proc[p].floor
             /\ Holds(p)' => UpToDate(proc'[p].ver, proc[p].key)
    BY <1>1, <1>7, <2>1, <2>4 DEF ReaderOK
  <2> QED
    BY <2>2, <2>3, <2>4
<1> QED
  BY <1>1, <1>2, <1>3, <1>4, <1>8, QuietFresh

\* The steps of open_file outside publish_lock.
LEMMA OpenFresh ==
  ASSUME OneWriter, TypeInv, TypeInv', FreshInv, NEW p \in Proc,
         \/ \E k \in Key : OpenFile(p, k)
         \/ Lookup(p) \/ OpenCached(p) \/ LoadLock(p) \/ CaptureGeneration(p)
         \/ Fetch(p) \/ DiscardStale(p)
  PROVE  FreshInv'
<1>0. RequestsOK /\ proc \in [Proc -> ProcType] /\ WellFormed(proc[p]) /\ TypeOK
  BY InvIsTyped DEF TypeInv, RequestsOK
<1>1. UNCHANGED <<s3, index, gen, known, interrupted>>
  BY DEF OpenFile, Lookup, OpenCached, LoadLock, CaptureGeneration, Fetch, DiscardStale,
         Serve, memory, files, history
<1>2. ReaderOK(p) /\ WriterOK(p) /\ KnownBehind /\ IndexFresh
  BY DEF FreshInv
<1>3. ASSUME NEW k \in Key, OpenFile(p, k) PROVE FreshInv'
  <2>1. /\ Only(p) /\ proc'[p].pc = "lookup" /\ proc'[p].op = "open" /\ proc'[p].key = k
        /\ proc'[p].floor = known[k] /\ proc'[p].then = "idle"
    BY <1>0, <1>3, OpenEffect DEF TypeOK
  <2>2. ReaderOK(p)'
    <3>1. known[k] <= known[k]
      BY Numbers
    <3> QED
      BY <1>1, <2>1, <3>1 DEF ReaderOK, Holds
  <2>3. WriterOK(p)'
    BY <2>1 DEF WriterOK
  <2>4. \A j \in Key : ~Writing(p, j)
    BY <1>3 DEF OpenFile, At, Writing
  <2>5. FreshReads'
    BY <1>3 DEF OpenFile, history, FreshInv, FreshReads
  <2> QED
    BY <1>1, <2>1, <2>2, <2>3, <2>4, <2>5, QuietFresh
<1>4. ASSUME ~\E k \in Key : OpenFile(p, k)
      PROVE  proc[p].op = "open" /\ proc[p].key \in Key
  BY <1>0, <1>4 DEF Lookup, OpenCached, LoadLock, CaptureGeneration, Fetch, DiscardStale,
                    GuardHolds, At, WellFormed
<1> DEFINE k == proc[p].key
<1>5. ASSUME k \in Key
      PROVE  /\ Version \subseteq Nat /\ known[k] \in Version /\ s3[k].ver \in Version
             /\ index[k].ver \in Version /\ proc[p].floor \in Version /\ proc[p].ver \in Version
  BY <1>5, Numbers
<1>6. ASSUME Lookup(p), proc[p].op = "open", k \in Key PROVE FreshInv'
  <2>0. UNCHANGED history
    BY <1>6 DEF Lookup
  <2>1. CASE index[k] # NoEntry
    <3>1. /\ Only(p) /\ proc'[p].pc = "found" /\ proc'[p].ver = index[k].ver
          /\ SameRequest(proc[p], proc'[p]) /\ SameClean(proc[p], proc'[p])
      BY <1>0, <1>6, <2>1, HitEffect DEF Lookup
    <3>2. interrupted \/ (index[k].ver >= known[k] /\ known[k] >= proc[p].floor)
      BY <1>2, <1>6, <2>1 DEF IndexFresh, UpToDate, ReaderOK
    <3>3. interrupted \/ proc'[p].ver >= proc[p].floor
      BY <1>5, <1>6, <3>1, <3>2
    <3> QED
      BY <1>1, <1>6, <2>0, <3>1, <3>3, ReadOnFresh DEF SameClean, Holds
  <2>2. CASE index[k] = NoEntry
    <3>1. PICK pc \in {"miss", "load"} : Goto(p, pc)
      BY <1>6, <2>2 DEF Lookup
    <3>2. /\ Only(p) /\ proc'[p].pc = pc /\ SameRequest(proc[p], proc'[p])
          /\ SameClean(proc[p], proc'[p])
      BY <1>0, <3>1, GotoEffect DEF Pc
    <3> QED
      BY <1>1, <1>6, <2>0, <3>2, ReadOnFresh DEF SameClean
  <2> QED
    BY <2>1, <2>2
<1>7. ASSUME OpenCached(p), proc[p].op = "open", k \in Key PROVE FreshInv'
  <2>1. interrupted \/ proc[p].ver >= proc[p].floor
    BY <1>2, <1>7 DEF ReaderOK, OpenCached, At
  <2>2. CASE Serve(p, proc[p].ver)
    BY <1>1, <1>5, <1>7, <2>1, <2>2, ServeFresh
  <2>3. CASE Goto(p, "mismatch") /\ UNCHANGED history
    <3>1. /\ Only(p) /\ proc'[p].pc = "mismatch" /\ SameRequest(proc[p], proc'[p])
          /\ SameClean(proc[p], proc'[p]) /\ SameContent(proc[p], proc'[p])
      BY <1>0, <2>3, GotoEffect DEF Pc
    <3> QED
      BY <1>1, <1>7, <2>1, <2>3, <3>1, ReadOnFresh DEF SameClean, SameContent, Holds
  <2> QED
    BY <1>7, <2>2, <2>3 DEF OpenCached
<1>8. ASSUME LoadLock(p), proc[p].op = "open" PROVE FreshInv'
  <2>1. /\ Only(p) /\ proc'[p].pc = "lookup" /\ SameRequest(proc[p], proc'[p])
        /\ SameClean(proc[p], proc'[p]) /\ UNCHANGED history
    BY <1>0, <1>8, LockEffect DEF LoadLock
  <2> QED
    BY <1>1, <1>8, <2>1, ReadOnFresh DEF SameClean
<1>9. ASSUME CaptureGeneration(p), proc[p].op = "open" PROVE FreshInv'
  <2>1. /\ Only(p) /\ proc'[p].pc = "fetch" /\ SameRequest(proc[p], proc'[p])
        /\ SameClean(proc[p], proc'[p]) /\ UNCHANGED history
    BY <1>0, <1>9, CaptureEffect DEF CaptureGeneration
  <2> QED
    BY <1>1, <1>9, <2>1, ReadOnFresh DEF SameClean
<1>10. ASSUME Fetch(p), proc[p].op = "open", k \in Key PROVE FreshInv'
  <2>1. s3[k].ver >= known[k] /\ known[k] >= proc[p].floor
    BY <1>2, <1>5, <1>10 DEF KnownBehind, ReaderOK
  <2>2. s3[k].ver >= proc[p].floor
    BY <1>5, <1>10, <2>1
  <2>3. CASE Serve(p, s3[k].ver)
    BY <1>1, <1>5, <1>10, <2>2, <2>3, ServeFresh
  <2>4. CASE ~Serve(p, s3[k].ver)
    <3>1. /\ Only(p) /\ proc'[p].pc = "store" /\ proc'[p].ver = s3[k].ver
          /\ proc'[p].then = "idle" /\ SameRequest(proc[p], proc'[p]) /\ UNCHANGED history
      BY <1>0, <1>5, <1>10, <2>4, FetchEffect DEF Fetch
    <3>2. UpToDate(proc'[p].ver, k)
      BY <2>1, <3>1 DEF UpToDate
    <3> QED
      BY <1>1, <1>10, <2>2, <3>1, <3>2, ReadOnFresh
  <2> QED
    BY <2>3, <2>4
<1>11. ASSUME DiscardStale(p), proc[p].op = "open", k \in Key PROVE FreshInv'
  <2>1. interrupted \/ proc[p].ver >= proc[p].floor
    BY <1>2, <1>11 DEF ReaderOK, DiscardStale, At
  <2> QED
    BY <1>1, <1>5, <1>11, <2>1, ServeFresh DEF DiscardStale
<1> QED
  BY <1>3, <1>4, <1>6, <1>7, <1>8, <1>9, <1>10, <1>11

\* The fetched object is too large to cache, stale, or to be published; or the
\* entry that was found no longer matches its file.
LEMMA StoreFresh ==
  ASSUME OneWriter, TypeInv, TypeInv', FreshInv, NEW p \in Proc,
         RemoveIfMatches(p) \/ Store(p), ~Removes(p)
  PROVE  FreshInv'
<1>0. proc \in [Proc -> ProcType] /\ WellFormed(proc[p]) /\ ReaderOK(p)
  BY DEF TypeInv, RequestsOK, FreshInv
<1>1. /\ proc[p].op = "open" /\ proc[p].pc \in {"mismatch", "store"} /\ proc[p].key \in Key
      /\ s3' = s3 /\ meta' = meta
  BY <1>0 DEF RemoveIfMatches, Store, At, WellFormed, files
<1>2. interrupted \/ proc[p].ver >= proc[p].floor
  BY <1>0, <1>1 DEF ReaderOK
<1>3. ASSUME NEW pc \in {"miss", "load", "publish"}, Goto(p, pc), UNCHANGED <<memory, history>>,
             pc = "publish" => At(p, "store")
      PROVE  FreshInv'
  <2>1. /\ Only(p) /\ proc'[p].pc = pc /\ proc'[p].gen = proc[p].gen
        /\ SameRequest(proc[p], proc'[p])
        /\ SameClean(proc[p], proc'[p]) /\ SameContent(proc[p], proc'[p])
    BY <1>0, <1>3, GotoEffect DEF Pc
  <2>2. Holds(p)' => Holds(p)
    BY <1>3, <2>1 DEF Holds, At, SameRequest, memory
  <2>3. interrupted \/ (Holds(p)' => UpToDate(proc'[p].ver, proc[p].key))
    BY <1>0, <1>1, <2>1, <2>2 DEF ReaderOK, SameContent
  <2> QED
    BY <1>1, <1>2, <1>3, <2>1, <2>3, ReadOnFresh DEF SameClean, SameContent, memory
<1>4. CASE RemoveIfMatches(p)
  <2>1. UNCHANGED history /\ At(p, "mismatch") /\ PublishLockFree
    BY <1>4 DEF RemoveIfMatches
  <2>2. PICK then \in {"miss", "load"} :
          Pop(p, proc[p].key, then) \/ (Goto(p, then) /\ UNCHANGED memory)
    BY <1>4 DEF RemoveIfMatches
  <2>3. ~Pop(p, proc[p].key, then)
    BY <1>1, <2>1 DEF Removes, At, Pc
  <2> QED
    BY <1>3, <2>1, <2>2, <2>3
<1>5. CASE Store(p)
  <2>1. \/ Goto(p, "publish") /\ UNCHANGED <<memory, history>>
        \/ Serve(p, proc[p].ver) /\ UNCHANGED memory
        \/ PublishLockFree /\ Pop(p, proc[p].key, "idle") /\ UNCHANGED history
    BY <1>5 DEF Store
  <2>2. ~(PublishLockFree /\ Pop(p, proc[p].key, "idle") /\ UNCHANGED history)
    BY <1>1 DEF Removes, At, Pc
  <2>3. CASE Goto(p, "publish") /\ UNCHANGED <<memory, history>>
    BY <1>3, <1>5, <2>3 DEF Store
  <2>4. CASE Serve(p, proc[p].ver) /\ UNCHANGED memory
    <3>1. proc[p].ver \in Version
      BY Numbers
    <3> QED
      BY <1>1, <1>2, <2>4, <3>1, ServeFresh DEF memory
  <2> QED
    BY <2>1, <2>2, <2>3, <2>4
<1> QED
  BY <1>4, <1>5

\* After a new generation of k no read in progress publishes what it has fetched of
\* k, provided nobody else is publishing.
LEMMA NobodyHolds ==
  ASSUME TypeInv, NEW p \in Proc, NEW k \in Key, NEW q \in Proc \ {p}, Only(p),
         proc[q].op = "open", proc[q].key = k, ~Publishing(q),
         gen'[k] \notin Captured(k)
  PROVE  ~Holds(q)'
<1>1. proc'[q] = proc[q]
  BY DEF Only
<1>2. proc[q].gen \in Captured(k)
  BY DEF Captured
<1> QED
  BY <1>1, <1>2 DEF Holds, Publishing

\* An entry leaves the index: what was pending for its key is done, and late reads
\* of the key are not published.
LEMMA RemovalFresh ==
  ASSUME OneWriter, TypeInv, TypeInv', FreshInv, NEW p \in Proc, Removes(p)
  PROVE  FreshInv'
<1> DEFINE k == proc[p].key
<1>0. /\ k \in Key /\ index \in [Key -> Entry] /\ s3' = s3 /\ known' = known
      /\ interrupted' = interrupted /\ stale' = stale
  BY DEF Removes, TypeInv, CacheOK, history
<1>1. PICK then \in Pc : Pop(p, k, then) /\ (then = "source" => proc[p].then = "source")
  BY DEF Removes
<1>2. /\ index' = [index EXCEPT ![k] = NoEntry]
      /\ gen'[k] \notin Captured(k) /\ \A j \in Key \ {k} : gen'[j] = gen[j]
      /\ Only(p) /\ proc'[p].pc = "clean" /\ proc'[p].then = then
      /\ SameRequest(proc[p], proc'[p]) /\ SameContent(proc[p], proc'[p])
  <2>1. index' = [index EXCEPT ![k] = NoEntry]
    BY <1>0, <1>1, PopStep
  <2>2. gen'[k] \notin Captured(k)
    BY <1>0, <1>1, PopStep
  <2>3. \A j \in Key \ {k} : gen'[j] = gen[j]
    BY <1>0, <1>1, PopStep
  <2>4. Only(p) /\ proc'[p].pc = "clean" /\ proc'[p].then = then
    <3>1. Pop(p, k, then) /\ then \in Pc /\ k \in Key
      BY <1>0, <1>1
    <3> HIDE DEF k
    <3> QED
      BY <3>1, PopStep
  <2>5. SameRequest(proc[p], proc'[p]) /\ SameContent(proc[p], proc'[p])
    BY <1>0, <1>1, PopStep
  <2> QED
    BY <2>1, <2>2, <2>3, <2>4, <2>5
<1>3. \A q \in Proc : ~Publishing(q)
  BY DEF Removes, PublishLockFree, Publishing
<1>4. \A j \in Key \ {k} : Pending(j) => Pending(j)'
  <2> SUFFICES ASSUME NEW j \in Key \ {k}, NEW q \in Proc, Writing(q, j) PROVE Writing(q, j)'
    BY DEF Pending
  <2>1. proc'[q] = proc[q]
    BY <1>2 DEF Only, Writing
  <2> QED
    BY <2>1 DEF Writing
<1>5. \A j \in Key \ {k}, v \in Version : UpToDate(v, j) => UpToDate(v, j)'
  BY <1>0, <1>4 DEF UpToDate
<1>6. IndexFresh'
  <2> SUFFICES ASSUME ~interrupted', NEW j \in Key, index'[j] # NoEntry
               PROVE  UpToDate(index[j].ver, j)'
    BY DEF IndexFresh
  <2>1. j # k /\ index'[j] = index[j] /\ index[j].ver \in Version
    BY <1>0, <1>2, Numbers
  <2>2. UpToDate(index[j].ver, j)
    BY <1>0, <2>1 DEF FreshInv, IndexFresh
  <2> QED
    BY <1>5, <2>1, <2>2
<1>7. \A q \in Proc \ {p} : ReaderOK(q)' /\ WriterOK(q)'
  <2>1. \A j \in Key : known[j] <= known'[j]
    BY <1>0, Numbers
  <2>2. ASSUME NEW q \in Proc \ {p}, proc[q].op = "open", Holds(q)'
        PROVE  /\ Holds(q)
               /\ UpToDate(proc[q].ver, proc[q].key) => UpToDate(proc[q].ver, proc[q].key)'
    <3>1. proc'[q] = proc[q] /\ proc[q].key \in Key /\ proc[q].ver \in Version
      BY <1>2, <2>2, Numbers DEF Only, TypeInv, RequestsOK, WellFormed
    <3>2. proc[q].key # k
      BY <1>0, <1>2, <1>3, <2>2, NobodyHolds
    <3> QED
      BY <1>2, <1>5, <2>2, <3>1, <3>2 DEF Holds
  <2> QED
    BY <1>0, <1>2, <2>1, <2>2, OthersFresh
<1>8. /\ proc'[p].op = proc[p].op /\ proc'[p].key = k /\ proc'[p].ver = proc[p].ver
      /\ proc'[p].floor = proc[p].floor
  BY <1>2 DEF SameRequest, SameContent
<1>9. ReaderOK(p)'
  <2>1. ReaderOK(p) /\ (proc[p].op = "open" => proc[p].pc \in {"mismatch", "store"})
    BY DEF FreshInv, Removes
  <2> QED
    BY <1>0, <1>2, <1>8, <2>1 DEF ReaderOK, Holds
<1>10. WriterOK(p)'
  BY <1>0, <1>1, <1>2, <1>8 DEF FreshInv, WriterOK
<1>11. KnownBehind' /\ FreshReads'
  BY <1>0 DEF FreshInv, KnownBehind, FreshReads
<1> QED
  BY <1>6, <1>7, <1>9, <1>10, <1>11 DEF FreshInv

\* The first two steps of publish.
LEMMA PublishFresh ==
  ASSUME OneWriter, TypeInv, TypeInv', FreshInv, NEW p \in Proc,
         PublishContent(p) \/ PublishSidecar(p)
  PROVE  FreshInv'
<1>0. /\ proc \in [Proc -> ProcType] /\ WellFormed(proc[p]) /\ TypeOK
      /\ ReaderOK(p) /\ WriterOK(p)
      /\ UNCHANGED <<s3, index, gen, known, interrupted, stale>>
  BY InvIsTyped
  DEF TypeInv, RequestsOK, FreshInv, PublishContent, PublishSidecar, memory, history
<1>1. /\ Only(p) /\ proc'[p].pc \in {"content", "sidecar"} /\ proc[p].pc \in {"publish", "content"}
      /\ proc'[p].ver = proc[p].ver
      /\ SameRequest(proc[p], proc'[p]) /\ SameClean(proc[p], proc'[p])
  <2>1. CASE PublishContent(p)
    BY <1>0, <2>1, ContentEffect DEF PublishContent, At
  <2>2. CASE PublishSidecar(p)
    BY <1>0, <2>2, GotoEffect DEF PublishSidecar, At, SameContent, Pc
  <2> QED
    BY <2>1, <2>2
<1>2. /\ proc'[p].op = proc[p].op /\ proc'[p].key = proc[p].key
      /\ proc'[p].floor = proc[p].floor /\ proc'[p].then = proc[p].then
  BY <1>1 DEF SameRequest, SameClean
<1>3. proc[p].op = "open" => Holds(p)
  BY <1>1 DEF PublishContent, PublishSidecar, GuardHolds, Holds, At
<1>4. CASE proc[p].op = "open"
  <2>1. interrupted \/ (/\ proc'[p].ver >= proc[p].floor
                        /\ UpToDate(proc'[p].ver, proc[p].key))
    BY <1>0, <1>1, <1>3, <1>4 DEF ReaderOK
  <2>2. UNCHANGED history
    BY <1>0 DEF history
  <2> QED
    BY <1>0, <1>1, <1>2, <1>4, <2>1, <2>2, ReadOnFresh
<1>5. CASE proc[p].op # "open"
  <2>1. ReaderOK(p)' /\ WriterOK(p)'
    BY <1>0, <1>1, <1>2, <1>5 DEF ReaderOK, WriterOK
  <2>2. \A k \in Key : Writing(p, k) => Writing(p, k)'
    BY <1>1, <1>2 DEF Writing
  <2>3. FreshReads'
    BY <1>0 DEF FreshInv, FreshReads
  <2> QED
    BY <1>0, <1>1, <2>1, <2>2, <2>3, QuietFresh
<1> QED
  BY <1>4, <1>5

\* The entry enters the index: a mutation's is the bucket's version, a read's was
\* still current when its generation was compared under publish_lock.
LEMMA EntryFresh ==
  ASSUME OneWriter, TypeInv, TypeInv', FreshInv, NEW p \in Proc, PublishIndex(p)
  PROVE  FreshInv'
<1> DEFINE k == proc[p].key
           e == [file |-> proc[p].file, ver |-> proc[p].ver]
<1>0. /\ At(p, "sidecar") /\ ReaderOK(p) /\ WriterOK(p) /\ OnePublisher
      /\ UNCHANGED <<s3, known, interrupted, stale>>
  BY DEF PublishIndex, history, FreshInv, TypeInv, RequestsOK
<1>1. PICK evicted \in SUBSET Key :
        /\ k \in Key
        /\ index' = [j \in Key |-> IF j \in evicted THEN NoEntry
                                   ELSE IF j = k THEN e ELSE index[j]]
        /\ \/ proc[p].op = "open" /\ gen' = gen
           \/ /\ proc[p].op # "open"
              /\ gen'[k] \notin Captured(k) /\ \A j \in Key \ {k} : gen'[j] = gen[j]
        /\ Only(p) /\ proc'[p].pc = "clean" /\ proc'[p].then = "idle"
        /\ SameRequest(proc[p], proc'[p]) /\ SameContent(proc[p], proc'[p])
  BY IndexStep, Zenon
<1>2. e.ver = proc[p].ver /\ proc[p].ver \in Version /\ Version \subseteq Nat
      /\ known[k] \in Version /\ s3[k].ver \in Version
  BY <1>1, Numbers
<1> HIDE DEF e
<1>3. ASSUME NEW j \in Key, j # k \/ proc[p].op = "open", Pending(j) PROVE Pending(j)'
  <2>1. PICK q \in Proc : Writing(q, j)
    BY <1>3 DEF Pending
  <2>2. proc'[q] = proc[q]
    BY <1>1, <1>3, <2>1 DEF Only, Writing
  <2> QED
    BY <2>1, <2>2 DEF Pending, Writing
<1>4. ASSUME NEW j \in Key, j # k \/ proc[p].op = "open", NEW v \in Version, UpToDate(v, j)
      PROVE  UpToDate(v, j)'
  BY <1>0, <1>3, <1>4 DEF UpToDate
<1>5. interrupted \/ UpToDate(proc[p].ver, k)'
  <2>1. CASE proc[p].op = "open"
    <3>1. interrupted \/ UpToDate(proc[p].ver, k)
      BY <1>0, <2>1 DEF ReaderOK, Holds, At
    <3>2. proc'[p].ver = proc[p].ver /\ proc'[p].key = k
      BY <1>1 DEF SameRequest, SameContent
    <3>3. UpToDate(proc[p].ver, k) => \A v \in {proc[p].ver}, j \in {k} : UpToDate(v, j)'
      BY <1>1, <1>2, <1>4, <2>1
    <3> QED
      BY <3>1, <3>2, <3>3 DEF UpToDate
  <2>2. CASE proc[p].op # "open"
    <3>1. proc[p].ver = s3[k].ver
      BY <1>0, <1>2, <2>2 DEF WriterOK, At
    <3>2. proc[p].ver >= known[k]
      BY <1>1, <1>2, <3>1 DEF FreshInv, KnownBehind
    <3>3. proc'[p].ver = proc[p].ver /\ proc'[p].key = k
      BY <1>1 DEF SameRequest, SameContent
    <3> QED
      BY <1>0, <3>1, <3>2, <3>3 DEF UpToDate
  <2> QED
    BY <2>1, <2>2
<1>6. proc'[p].op = proc[p].op /\ proc'[p].key = k /\ proc'[p].ver = proc[p].ver
      /\ proc'[p].floor = proc[p].floor
  BY <1>1 DEF SameRequest, SameContent
<1>7. IndexFresh'
  <2> SUFFICES ASSUME ~interrupted', NEW j \in Key, index'[j] # NoEntry
               PROVE  UpToDate(index[j].ver, j)'
    BY DEF IndexFresh
  <2>1. CASE j = k /\ index'[j] = e
    BY <1>0, <1>2, <1>5, <1>6, <2>1 DEF UpToDate
  <2>2. CASE j # k /\ index'[j] = index[j]
    <3>1. UpToDate(index[j].ver, j) /\ index[j].ver \in Version
      BY <1>0, <2>2, Numbers DEF FreshInv, IndexFresh
    <3>2. \A v \in Version : UpToDate(v, j) => UpToDate(v, j)'
      BY <1>4, <2>2
    <3> QED
      BY <2>2, <3>1, <3>2
  <2> QED
    BY <1>1, <2>1, <2>2
<1>8. \A q \in Proc \ {p} : ReaderOK(q)' /\ WriterOK(q)'
  <2>1. \A j \in Key : known[j] <= known'[j]
    BY <1>0, Numbers
  <2>2. ASSUME NEW q \in Proc \ {p}, proc[q].op = "open", Holds(q)'
        PROVE  /\ Holds(q)
               /\ UpToDate(proc[q].ver, proc[q].key) => UpToDate(proc[q].ver, proc[q].key)'
    <3>1. proc'[q] = proc[q] /\ proc[q].key \in Key /\ proc[q].ver \in Version
      BY <1>1, <2>2, Numbers DEF Only, TypeInv, RequestsOK, WellFormed
    <3>2. ~Publishing(q)
      BY <1>0 DEF OnePublisher, Publishing, At
    <3>3. proc[q].key # k \/ proc[p].op = "open"
      BY <1>1, <2>2, <3>2, NobodyHolds
    <3>4. Holds(q)
      BY <1>1, <2>2, <3>1, <3>3 DEF Holds
    <3>5. \A v \in Version : UpToDate(v, proc[q].key) => \A j \in {proc[q].key} : UpToDate(v, j)'
      BY <1>4, <3>1, <3>3
    <3> QED
      BY <3>1, <3>4, <3>5 DEF UpToDate
  <2> QED
    BY <1>0, <1>1, <2>1, <2>2, OthersFresh
<1>9. ReaderOK(p)'
  BY <1>0, <1>1, <1>6 DEF ReaderOK, Holds, At
<1>10. WriterOK(p)'
  BY <1>0, <1>1, <1>6 DEF WriterOK
<1>11. KnownBehind' /\ FreshReads'
  BY <1>0 DEF FreshInv, KnownBehind, FreshReads
<1> QED
  BY <1>7, <1>8, <1>9, <1>10, <1>11 DEF FreshInv

\* An object gets its next version, and the request that made it is on its way to
\* the cache.
LEMMA WriteFresh ==
  ASSUME OneWriter, TypeInv, TypeInv', FreshInv, NEW p \in Mutator, NEW k \in Key, Only(p),
         Put(k) \/ (s3[k].live /\ Delete(k)),
         proc[p].pc \in {"idle", "delete", "source"},
         proc'[p].op # "open", proc'[p].key = k, proc'[p].ver = s3[k].ver + 1,
         proc'[p].pc \in {"publish", "drop"},
         UNCHANGED <<index, gen, history>>
  PROVE  FreshInv'
<1>0. /\ p \in Proc /\ s3'[k].ver = s3[k].ver + 1 /\ \A j \in Key \ {k} : s3'[j] = s3[j]
      /\ known' = known /\ interrupted' = interrupted /\ stale' = stale
  BY ObjectStep, RequestAssumption DEF TypeInv, history
<1>1. \A j \in Key : s3[j].ver \in Nat /\ known[j] \in Nat
  BY Numbers
<1>2. \A j \in Key : ~Pending(j)
  <2> SUFFICES ASSUME NEW j \in Key, NEW q \in Proc, Writing(q, j) PROVE FALSE
    BY DEF Pending
  <2>1. q = p
    BY SoleWriter
  <2> QED
    BY <2>1 DEF Writing
<1>3. Pending(k)'
  <2>1. proc'[p].ver > 0
    BY <1>1
  <2> QED
    BY <1>0, <2>1 DEF Pending, Writing
<1>4. ASSUME NEW j \in Key, NEW v \in Version, UpToDate(v, j) PROVE UpToDate(v, j)'
  BY <1>0, <1>2, <1>3, <1>4 DEF UpToDate
<1>5. IndexFresh'
  <2>1. \A j \in Key : index[j].ver \in Version
    BY Numbers
  <2> QED
    BY <1>0, <1>4, <2>1 DEF FreshInv, IndexFresh
<1>6. \A q \in Proc \ {p} : ReaderOK(q)' /\ WriterOK(q)'
  <2>1. \A j \in Key : known[j] <= known'[j]
    BY <1>0, <1>1
  <2>2. ASSUME NEW q \in Proc \ {p}, proc[q].op = "open", Holds(q)'
        PROVE  /\ Holds(q)
               /\ UpToDate(proc[q].ver, proc[q].key) => UpToDate(proc[q].ver, proc[q].key)'
    <3>1. proc'[q] = proc[q] /\ proc[q].key \in Key /\ proc[q].ver \in Version
      BY <2>2, Numbers DEF Only, TypeInv, RequestsOK, WellFormed
    <3> QED
      BY <1>4, <2>2, <3>1 DEF Holds
  <2> QED
    BY <1>0, <2>1, <2>2, OthersFresh
<1>7. ReaderOK(p)' /\ WriterOK(p)'
  <2>1. proc'[p].ver > 0
    BY <1>1
  <2> QED
    BY <1>0, <2>1 DEF ReaderOK, WriterOK
<1>8. KnownBehind'
  <2> SUFFICES ASSUME NEW j \in Key PROVE known[j] <= s3'[j].ver
    BY <1>0 DEF KnownBehind
  <2>1. known[j] <= s3[j].ver
    BY DEF FreshInv, KnownBehind
  <2> QED
    BY <1>0, <1>1, <2>1
<1>9. FreshReads'
  BY <1>0 DEF FreshInv, FreshReads
<1> QED
  BY <1>0, <1>5, <1>6, <1>7, <1>8, <1>9 DEF FreshInv

\* Mutations and invalidations before they come to the cache.
LEMMA MutationFresh ==
  ASSUME OneWriter, TypeInv, TypeInv', FreshInv, NEW p \in Proc,
         NEW op \in Op \ {"none", "open"},
         NEW pc \in {"publish", "drop", "delete"}, NEW k \in Key, NEW v \in Version,
         Mutates(p, op, pc, k, v)
  PROVE  FreshInv'
<1>0. /\ WriterOK(p) /\ proc[p].pc \in {"idle", "delete", "source"} /\ pc \in Pc
      /\ UNCHANGED <<index, gen, history>>
  BY DEF FreshInv, Mutates, memory, Pc
<1>1. /\ Only(p) /\ proc'[p].pc = pc /\ proc'[p].op = op /\ proc'[p].key = k
      /\ proc'[p].ver = v /\ proc'[p].then = "idle"
  BY <1>0, BeginEffect DEF Mutates, TypeInv, RequestsOK
<1>2. pc = "delete" \/ proc[p].pc \in {"delete", "source"} => p \in Mutator
  BY <1>0 DEF WriterOK, Mutates
<1>3. CASE s3' = s3
  <2>1. v = 0 \/ (v = s3[k].ver /\ At(p, "delete")) \/ v = s3[k].ver + 1
    BY DEF Mutates
  <2>2. v # s3[k].ver + 1 \/ v = 0
    <3>1. ASSUME v = s3[k].ver + 1, v # 0 PROVE FALSE
      <4>1. s3[k].ver \in Nat
        BY Numbers
      <4>2. v # s3[k].ver
        BY <3>1, <4>1
      <4>3. Put(k) \/ (s3[k].live /\ Delete(k))
        BY <3>1, <4>2 DEF Mutates
      <4>4. s3'[k].ver = s3[k].ver + 1
        BY <4>3, ObjectStep DEF TypeInv
      <4> QED
        BY <1>3, <3>1, <4>2, <4>4
    <3> QED
      BY <3>1
  <2>3. ReaderOK(p)'
    BY <1>1 DEF ReaderOK
  <2>4. WriterOK(p)'
    <3>1. v = 0 \/ (p \in Mutator /\ v = s3[k].ver)
      BY <1>2, <2>1, <2>2 DEF At
    <3>2. pc = "publish" => v > 0
      BY DEF Mutates
    <3> QED
      BY <1>1, <1>2, <1>3, <3>1, <3>2 DEF WriterOK
  <2>5. \A j \in Key : ~Writing(p, j)
    BY <1>0 DEF Writing
  <2>6. FreshReads' /\ known' = known /\ interrupted' = interrupted
    BY <1>0 DEF FreshInv, FreshReads, history
  <2> QED
    BY <1>0, <1>1, <1>3, <2>3, <2>4, <2>5, <2>6, QuietFresh
<1>4. CASE s3' # s3
  <2>1. /\ Put(k) \/ (s3[k].live /\ Delete(k))
        /\ v = s3[k].ver + 1 /\ op # "invalidate" /\ pc # "delete"
    BY <1>4 DEF Mutates
  <2>2. p \in Mutator
    BY <1>2, <2>1 DEF Mutates
  <2> QED
    BY <1>0, <1>1, <2>1, <2>2, WriteFresh
<1> QED
  BY <1>3, <1>4

\* Superseded files are deleted and the request returns or goes on: a mutation that
\* returns makes its version known.
LEMMA CleanFresh ==
  ASSUME OneWriter, TypeInv, TypeInv', FreshInv, NEW p \in Proc, Clean(p) \/ CleanFails(p)
  PROVE  FreshInv'
<1> DEFINE k == proc[p].key
           v == proc[p].ver
<1>0. /\ At(p, "clean") /\ Continue(p) /\ UNCHANGED <<s3, index, gen>>
      /\ ReaderOK(p) /\ WriterOK(p) /\ proc \in [Proc -> ProcType] /\ k \in Key
  BY DEF Clean, CleanFails, memory, FreshInv, TypeInv, RequestsOK, WellFormed, At
<1>1. /\ Version \subseteq Nat /\ v \in Version
      /\ \A j \in Key : known[j] \in Version /\ s3[j].ver \in Version
  BY Numbers
<1>2. v \in Nat /\ known[k] \in Nat /\ s3[k].ver \in Nat
  BY <1>0, <1>1
<1>3. CASE proc[p].op = "open"
  <2>1. interrupted \/ v >= proc[p].floor
    BY <1>0, <1>3 DEF ReaderOK, At
  <2>2. CASE /\ proc' = [proc EXCEPT ![p] = Idle]
             /\ stale' = (stale \/ proc[p].ver < proc[p].floor)
             /\ UNCHANGED <<known, interrupted>>
    BY <1>0, <1>1, <1>3, <2>1, <2>2, ServeFresh DEF Serve
  <2>3. CASE proc[p].then \in {"miss", "load"} /\ Goto(p, proc[p].then) /\ UNCHANGED history
    <3>1. /\ Only(p) /\ proc'[p].pc = proc[p].then /\ SameRequest(proc[p], proc'[p])
          /\ SameClean(proc[p], proc'[p])
      BY <1>0, <2>3, GotoEffect DEF Pc
    <3> QED
      BY <1>0, <1>3, <2>3, <3>1, ReadOnFresh DEF SameClean
  <2> QED
    BY <1>0, <1>3, <2>2, <2>3, ContinueEffect
<1>4. CASE proc[p].op # "open"
  <2> DEFINE m == Max({known[k], v})
  <2>1. /\ known' = [known EXCEPT ![k] = m]
        /\ stale' = stale /\ interrupted' = interrupted
        /\ proc' = [proc EXCEPT ![p] = Idle] \/ (proc[p].then = "source" /\ Goto(p, "source"))
    BY <1>0, <1>4, ContinueEffect
  <2>2. m \in {known[k], v} /\ m >= known[k] /\ m >= v
    <3> HIDE DEF v, k
    <3>1. known[k] \in Int /\ v \in Int
      BY <1>2
    <3> QED
      BY <3>1, Greater
  <2>3. v = 0 \/ (p \in Mutator /\ v = s3[k].ver)
    BY <1>0, <1>4 DEF WriterOK
  <2>4. known[k] <= s3[k].ver
    BY <1>0 DEF FreshInv, KnownBehind
  <2> HIDE DEF m
  <2>5. known'[k] = m /\ m \in Nat /\ m <= s3[k].ver
    <3>1. known'[k] = m
      BY <1>0, <2>1 DEF TypeInv, HistoryOK
    <3> HIDE DEF v, k
    <3>2. m \in Nat /\ m <= s3[k].ver
      BY <1>2, <2>2, <2>3, <2>4
    <3> QED
      BY <3>1, <3>2
  <2>6. \A j \in Key \ {k} : known'[j] = known[j]
    BY <2>1 DEF TypeInv, HistoryOK
  <2>7. Only(p) /\ ReaderOK(p)' /\ WriterOK(p)'
    <3>1. CASE proc' = [proc EXCEPT ![p] = Idle]
      BY <1>0, <3>1, IdleEffect, IdleFresh
    <3>2. CASE proc[p].then = "source" /\ Goto(p, "source")
      <4>1. /\ Only(p) /\ proc'[p].pc = "source" /\ proc'[p].op = proc[p].op
            /\ proc'[p].key = k /\ proc'[p].ver = v /\ proc'[p].then = proc[p].then
        BY <1>0, <3>2, GotoEffect DEF Pc, SameRequest, SameContent, SameClean
      <4> QED
        BY <1>0, <1>4, <3>2, <4>1 DEF ReaderOK, WriterOK
    <3> QED
      BY <2>1, <3>1, <3>2
  <2>8. \A j \in Key : Pending(j) => Pending(j)'
    <3> SUFFICES ASSUME NEW j \in Key, NEW q \in Proc, Writing(q, j) PROVE Writing(q, j)'
      BY DEF Pending
    <3>1. proc'[q] = proc[q]
      BY <1>0, <2>7 DEF Only, Writing, At
    <3> QED
      BY <3>1 DEF Writing
  <2>9. p \in Mutator => ~Pending(k)
    <3> SUFFICES ASSUME p \in Mutator, NEW q \in Proc, Writing(q, k) PROVE FALSE
      BY DEF Pending
    <3>1. q = p
      BY <1>0, SoleWriter
    <3> QED
      BY <1>0, <3>1 DEF Writing, At
  <2>10. ASSUME NEW j \in Key, NEW w \in Version, UpToDate(w, j) PROVE UpToDate(w, j)'
    <3>1. CASE j # k
      BY <1>0, <2>6, <2>8, <2>10, <3>1 DEF UpToDate
    <3>2. CASE j = k /\ v = 0
      <4>1. known'[k] = known[k]
        <5> HIDE DEF v, k
        <5> QED
          BY <1>2, <2>2, <2>5, <3>2
      <4>2. known'[j] = known[j]
        BY <3>2, <4>1
      <4> QED
        BY <1>0, <2>8, <2>10, <4>2 DEF UpToDate
    <3>3. CASE j = k /\ p \in Mutator /\ v = s3[k].ver
      <4>1. w = s3[j].ver
        BY <2>9, <2>10, <3>3 DEF UpToDate
      <4>2. w >= known'[j]
        BY <1>1, <2>5, <3>3, <4>1
      <4> QED
        BY <1>0, <4>1, <4>2 DEF UpToDate
    <3> QED
      BY <2>3, <3>1, <3>2, <3>3
  <2>11. IndexFresh'
    <3>1. \A j \in Key : index[j].ver \in Version
      BY Numbers
    <3> QED
      BY <1>0, <2>1, <2>10, <3>1 DEF FreshInv, IndexFresh
  <2>12. \A q \in Proc \ {p} : ReaderOK(q)' /\ WriterOK(q)'
    <3>1. ASSUME NEW j \in Key PROVE known[j] <= known'[j]
      <4>1. known[j] \in Nat
        BY <1>1
      <4>2. CASE j = k
        <5> HIDE DEF v, k
        <5> QED
          BY <1>2, <2>2, <2>5, <4>2
      <4>3. CASE j # k
        BY <2>6, <4>1, <4>3
      <4> QED
        BY <4>2, <4>3
    <3>2. ASSUME NEW q \in Proc \ {p}, proc[q].op = "open", Holds(q)'
          PROVE  /\ Holds(q)
                 /\ UpToDate(proc[q].ver, proc[q].key) => UpToDate(proc[q].ver, proc[q].key)'
      <4>1. proc'[q] = proc[q] /\ proc[q].key \in Key /\ proc[q].ver \in Version
        BY <2>7, <3>2, Numbers DEF Only, TypeInv, RequestsOK, WellFormed
      <4> QED
        BY <1>0, <2>10, <3>2, <4>1 DEF Holds
    <3> QED
      BY <1>0, <2>1, <2>7, <3>1, <3>2, OthersFresh
  <2>13. KnownBehind'
    BY <1>0, <2>5, <2>6 DEF FreshInv, KnownBehind
  <2>14. FreshReads'
    BY <2>1 DEF FreshInv, FreshReads
  <2> QED
    BY <2>7, <2>11, <2>12, <2>13, <2>14 DEF FreshInv
<1> QED
  BY <1>3, <1>4

\* Requests that stop, answers that are lost, files that disappear or are deleted
\* late, and answers from memory.
LEMMA OtherFresh ==
  ASSUME OneWriter, TypeInv, TypeInv', FreshInv,
         \/ \E p \in Proc : Cancel(p) \/ \E k \in Key : AnswerLost(p, k) \/ Stat(p, k)
         \/ \E f \in File : Damage(f)
         \/ RetryFailedDeletions \/ UNCHANGED vars
  PROVE  FreshInv'
<1>0. proc \in [Proc -> ProcType] /\ (\A q \in Proc : WellFormed(proc[q]))
  BY DEF TypeInv, RequestsOK
<1>1. ASSUME NEW p \in Proc, Cancel(p) PROVE FreshInv'
  <2>1. /\ Only(p) /\ proc'[p] = Idle /\ UNCHANGED <<s3, known, index, gen, stale>>
        /\ interrupted' = (interrupted \/ HalfWay(p))
    BY <1>0, <1>1, IdleEffect DEF Cancel, memory
  <2>2. ReaderOK(p)' /\ WriterOK(p)'
    BY <2>1, IdleFresh
  <2>3. FreshReads' /\ (interrupted => interrupted')
    BY <2>1 DEF FreshInv, FreshReads
  <2>4. ASSUME ~interrupted', NEW k \in Key PROVE ~Writing(p, k)
    BY <2>1, <2>4 DEF HalfWay, Writing, At
  <2> QED
    BY <2>1, <2>2, <2>3, <2>4, QuietFresh
<1>2. ASSUME NEW p \in Proc, NEW k \in Key, AnswerLost(p, k) PROVE FreshInv'
  <2>1. /\ p \in Mutator /\ interrupted' /\ proc' = proc /\ known' = known
        /\ Put(k) \/ (s3[k].live /\ Delete(k))
    BY <1>2 DEF AnswerLost
  <2>2. Only(p)
    BY <1>0, <2>1 DEF Only
  <2>3. proc'[p] = Idle
    BY <1>0, <1>2, <2>1 DEF AnswerLost, At, WellFormed
  <2>4. \A j \in Key : known[j] <= known'[j]
    BY <2>1, Numbers
  <2>5. \A q \in Proc \ {p} : ReaderOK(q)' /\ WriterOK(q)'
    BY <2>1, <2>2, <2>4, OthersFresh
  <2>6. KnownBehind'
    <3> SUFFICES ASSUME NEW j \in Key PROVE known[j] <= s3'[j].ver
      BY <2>1 DEF KnownBehind
    <3>1. known[j] <= s3[j].ver /\ known[j] \in Nat /\ s3[j].ver \in Nat
      BY Numbers DEF FreshInv, KnownBehind
    <3>2. s3'[j] = s3[j] \/ s3'[j].ver = s3[j].ver + 1
      BY <2>1, ObjectStep DEF TypeInv
    <3> QED
      BY <3>1, <3>2
  <2> QED
    BY <2>1, <2>3, <2>5, <2>6, IdleFresh DEF FreshInv, IndexFresh, FreshReads
<1>3. ASSUME UNCHANGED <<s3, known, index, gen, proc, interrupted>>, FreshReads'
      PROVE  FreshInv'
  BY <1>3 DEF FreshInv, KnownBehind, IndexFresh, ReaderOK, WriterOK, Holds, UpToDate, Pending,
              Writing
<1>4. ASSUME NEW p \in Proc, NEW k \in Key, Stat(p, k) PROVE FreshInv'
  <2>1. /\ UNCHANGED <<s3, known, index, gen, proc, interrupted>> /\ index[k] # NoEntry
        /\ stale' = (stale \/ index[k].ver < known[k])
    BY <1>4 DEF Stat
  <2>2. interrupted \/ index[k].ver >= known[k]
    BY <2>1 DEF FreshInv, IndexFresh, UpToDate
  <2>3. index[k].ver >= known[k] => ~(index[k].ver < known[k])
    <3>1. index[k].ver \in Nat /\ known[k] \in Nat
      BY Numbers
    <3>2. \A a, b \in Nat : a >= b => ~(a < b)
      OBVIOUS
    <3> QED
      BY <3>1, <3>2
  <2>4. FreshReads'
    BY <2>1, <2>2, <2>3, Zenon DEF FreshInv, FreshReads
  <2> QED
    BY <1>3, <2>1, <2>4
<1>5. ASSUME UNCHANGED <<s3, index, gen, proc, history>> PROVE FreshInv'
  <2>1. FreshReads' /\ known' = known /\ interrupted' = interrupted
    BY <1>5 DEF FreshInv, FreshReads, history
  <2> QED
    BY <1>3, <1>5, <2>1
<1>6. ASSUME (\E f \in File : Damage(f)) \/ RetryFailedDeletions \/ UNCHANGED vars
      PROVE  FreshInv'
  BY <1>5, <1>6 DEF Damage, RetryFailedDeletions, vars, memory
<1> QED
  BY <1>1, <1>2, <1>4, <1>6

\* A restart: unless it cut off an update, the sidecars bring back the index.
LEMMA RestartFresh ==
  ASSUME TypeInv, TypeInv', SidecarInv, FreshInv, Restart
  PROVE  FreshInv'
<1>0. /\ Range(lru') \subseteq {k \in Key : Recoverable(k)}
      /\ index' = [k \in Key |-> IF k \in Range(lru') THEN meta[k] ELSE NoEntry]
      /\ proc' = [p \in Proc |-> Idle] /\ UNCHANGED <<s3, known, stale>>
      /\ interrupted' = (interrupted \/ \E p \in Proc : HalfWay(p))
  BY RestartEffect DEF Restart
<1>1. \A p \in Proc : ReaderOK(p)' /\ WriterOK(p)'
  BY <1>0, IdleFresh
<1>2. KnownBehind' /\ FreshReads'
  BY <1>0 DEF FreshInv, KnownBehind, FreshReads
<1>3. IndexFresh'
  <2> SUFFICES ASSUME ~interrupted', NEW k \in Key, index'[k] # NoEntry
               PROVE  UpToDate(index[k].ver, k)'
    BY DEF IndexFresh
  <2>1. ~interrupted /\ \A p \in Proc : ~HalfWay(p)
    BY <1>0
  <2>2. \A p \in Proc : ~At(p, "sidecar") /\ (At(p, "clean") => proc[p].sidecars = {})
    BY <2>1 DEF HalfWay
  <2>3. index'[k] = index[k]
    <3>1. meta[k] = index[k]
      BY <2>1, <2>2 DEF SidecarInv, RestartRestores
    <3> QED
      BY <1>0, <3>1
  <2>4. ~Pending(k)
    BY <2>1 DEF HalfWay, Pending, Writing, At
  <2>5. index[k].ver >= known[k] /\ index[k].ver = s3[k].ver
    BY <2>1, <2>3, <2>4 DEF FreshInv, IndexFresh, UpToDate
  <2> QED
    BY <1>0, <2>3, <2>5 DEF UpToDate
<1> QED
  BY <1>1, <1>2, <1>3 DEF FreshInv

\* The main steps, together with the invariants they rest on.
LEMMA StepsFresh ==
  ASSUME OneWriter
  PROVE  TypeInv /\ SidecarInv /\ FreshInv /\ [Next]_vars => FreshInv'
<1> SUFFICES ASSUME TypeInv, SidecarInv, FreshInv, [Next]_vars PROVE FreshInv'
  OBVIOUS
<1>0. TypeInv'
  BY StepsTyped
<1>1. ASSUME NEW p \in Proc, Step(p) PROVE FreshInv'
  <2>1. CASE DeleteObject(p) \/ MoveSource(p)
    BY <1>0, <2>1, MutationEffect, MutationFresh
  <2>2. CASE RemoveIfMatches(p) \/ Store(p)
    BY <1>0, <2>2, StoreFresh, RemovalFresh
  <2>3. CASE RemoveEntry(p)
    <3>1. proc[p].op # "open" /\ proc[p].then \in Pc /\ proc[p].key \in Key
      BY <2>3 DEF RemoveEntry, At, TypeInv, RequestsOK, WellFormed, ProcType
    <3>2. Removes(p)
      BY <2>3, <3>1 DEF RemoveEntry, Removes, At, files
    <3> QED
      BY <1>0, <3>2, RemovalFresh
  <2> QED
    BY <1>0, <1>1, <2>1, <2>2, <2>3, OpenFresh, PublishFresh, EntryFresh, CleanFresh DEF Step
<1>2. ASSUME NEW p \in Proc, NEW k \in Key,
             \/ SaveFile(p, k) \/ AppendFile(p, k) \/ DeleteFile(p, k)
             \/ DeleteFilesBatch(p, k) \/ InvalidateCachedFile(p, k)
      PROVE  FreshInv'
  BY <1>0, <1>2, MutationEffect, MutationFresh
<1>3. ASSUME NEW p \in Proc, NEW k \in Key, NEW j \in Key, MoveFile(p, j, k) PROVE FreshInv'
  <2>1. /\ Only(p) /\ proc'[p].pc = "drop" /\ proc'[p].op = "move" /\ proc'[p].key = k
        /\ proc'[p].ver = s3[k].ver + 1
    BY <1>3, InvIsTyped, MoveEffect
  <2>2. /\ p \in Mutator /\ At(p, "idle") /\ Put(k) /\ UNCHANGED <<index, gen, history>>
    BY <1>3 DEF MoveFile, memory
  <2> QED
    BY <1>0, <2>1, <2>2, WriteFresh DEF At
<1>4. ASSUME NEW p \in Proc, CleanFails(p) \/ \E k \in Key : OpenFile(p, k) PROVE FreshInv'
  BY <1>0, <1>4, CleanFresh, OpenFresh
<1> QED
  BY <1>0, <1>1, <1>2, <1>3, <1>4, OtherFresh, RestartFresh DEF Next

\* While one request at a time changes objects, a read never returns content older
\* than what a mutation that returned before the read started left behind, unless
\* an update was cut off half way: put_if_generation keeps late GETs out of the
\* cache, and sidecars never bring back what was removed.
THEOREM ReadsAreFresh ==
  ASSUME OneWriter
  PROVE  Spec => []FreshReads
<1>1. Init => FreshInv
  <2> SUFFICES ASSUME Init PROVE FreshInv
    OBVIOUS
  <2>1. \A p \in Proc : ReaderOK(p) /\ WriterOK(p)
    BY DEF Init, Idle, ReaderOK, WriterOK
  <2>2. KnownBehind /\ IndexFresh /\ FreshReads
    BY DEF Init, KnownBehind, IndexFresh, FreshReads
  <2> QED
    BY <2>1, <2>2 DEF FreshInv
<1>2. FreshInv => FreshReads
  BY DEF FreshInv
<1> QED
  BY <1>1, <1>2, StepsFresh, TypeInvariant, SidecarInvariant, PTL DEF Spec
=============================================================================
