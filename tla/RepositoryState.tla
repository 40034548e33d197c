--------------------------- MODULE RepositoryState ---------------------------
(***************************************************************************)
(* What the repositories of every package format share: the storage, the   *)
(* catalog tables of the database and the requests the server runs.        *)
(*                                                                         *)
(* A behaviour is the life of one repository, whose kind (DynRepository)   *)
(* is chosen in the initial state.  A request is a plan: the sequence of   *)
(* the steps the handler still has to take, one step per await that reads  *)
(* or changes shared state.  The steps of concurrent requests interleave;  *)
(* a step may end the request with a reply, skip steps or add some.  Only  *)
(* requests that pass the permission check are modelled: the others are    *)
(* answered before they read anything.                                     *)
(***************************************************************************)
EXTENDS Naturals, Sequences, FiniteSets

CONSTANTS Kinds,         \* the kinds of repository explored
          Workloads(_),  \* what is explored for each kind: the storage backend, the versions
                         \* the requests name and which of them are pre-releases, how many
                         \* requests are started, how many steps fail or processes crash,
                         \* how many changes the upstream makes on its own
          Clients,       \* places for the requests the server runs at a time, numbered
          Packages,      \* project keys
          Bodies         \* the contents of an artifact

ASSUME RepositoryAssumption ==
    /\ Clients \subseteq Nat
    /\ \A k \in Kinds : \A w \in Workloads(k) :
        /\ w.storage \in {"local", "s3"}
        /\ w.versions \subseteq Nat \ {0} /\ w.prereleases \subseteq w.versions
        /\ w.requests \in Nat /\ w.faults \in Nat /\ w.changes \in Nat

VARIABLES
    kind,      \* the kind of the repository
    storage,   \* the backend its files are in
    store,     \* path -> content, for the files that exist
    projects,  \* the project keys with a row in projects
    rows,      \* <<package, version>> -> its row in project_versions
    files,     \* path -> its row in package_files
    aux,       \* the state only this kind of repository has
    upstream,  \* path -> what the upstream of a proxy serves
    job,       \* client -> its request
    used,      \* how many requests, faults, row writes and upstream changes so far,
               \* and the workload that bounds them
    raced,     \* history: what two requests changed while one relied on the old value
    broken     \* history: what a request was working on when a step of it failed

catalogVars == <<projects, rows, files>>
worldVars == <<kind, storage, upstream>>
historyVars == <<raced, broken>>
vars == <<kind, storage, store, projects, rows, files, aux, upstream, job, used, raced, broken>>

\* The versions of the workload, numbered in their order.
Versions == used.bound.versions
Prereleases == used.bound.prereleases

-----------------------------------------------------------------------------
(* Partial functions and paths.  A path is the sequence of its segments; a *)
(* segment is a name, a version and an extension, the latter two empty for *)
(* an ordinary directory.  Blank is also an argument left out.             *)

Put(f, k, x) == [q \in DOMAIN f \cup {k} |-> IF q = k THEN x ELSE f[q]]
Drop(f, ks) == [q \in DOMAIN f \ ks |-> f[q]]
Keep(f, Test(_)) == [q \in {k \in DOMAIN f : Test(k)} |-> f[q]]
EmptyMap == [q \in {} |-> 0]

Blank == ""
Dir(name) == <<name, 0, Blank>>
File(name, v, ext) == <<name, v, ext>>
Under(dir, path) == Len(dir) <= Len(path) /\ SubSeq(path, 1, Len(dir)) = dir
Parent(path) == SubSeq(path, 1, Len(path) - 1)
FileOf(path) == path[Len(path)]

\* The files of versions; metadata, indexes and checksums have no version in their name.
HasKey(path) == FileOf(path)[2] # 0
HighestOf(S) == CHOOSE x \in S : \A y \in S : y <= x

\* How the two backends delete a path: a local directory goes with all it holds, an S3
\* key goes alone.
DeletedPaths(path) ==
    IF storage = "local" THEN {q \in DOMAIN store : Under(path, q)}
    ELSE DOMAIN store \cap {path}
IsDirectory(path) == path \notin DOMAIN store /\ \E q \in DOMAIN store : Under(path, q)

-----------------------------------------------------------------------------
(* Requests.                                                               *)

\* The fields of a request are its operation and arguments (package, version, path, body), the
\* steps to come, what the handler remembers (mem, row), the resources whose values it relies
\* on, and the answer: its status and what its body shows.
Nothing == [nothing |-> 0]
Shows(body) == [body |-> body]
NoJob == [op |-> "none", plan |-> <<>>, p |-> Blank, v |-> 0, path |-> <<>>, body |-> Blank,
          mem |-> Nothing, row |-> 0, reads |-> {}, code |-> 0, got |-> Nothing]

At(c, step) == job[c].plan # <<>> /\ Head(job[c].plan) = step
Rest(c) == Tail(job[c].plan)
Idle(c) == job[c].plan = <<>>
Quiescent == \A c \in Clients : Idle(c)
Running(op) == {c \in Clients : ~Idle(c) /\ job[c].op = op}

\* A client sends a request.  The places for requests are alike: the first free one is taken.
Free(c) == /\ Idle(c) /\ used.requests < used.bound.requests
           /\ \A d \in Clients : d < c => ~Idle(d)
Start(c, request) ==
    /\ Free(c)
    /\ used' = [used EXCEPT !.requests = @ + 1]
    /\ job' = [job EXCEPT ![c] = request]
    /\ UNCHANGED <<worldVars, store, catalogVars, aux, historyVars>>

\* A request whose validation fails is answered at once.
Refused(op, code) == [NoJob EXCEPT !.op = op, !.code = code]

\* The request goes on with this plan, remembering mem and what it relies on.
Goto(c, plan) == job' = [job EXCEPT ![c].plan = plan]
Advance(c) == Goto(c, Rest(c))
Recall(c, plan, mem, reads) ==
    job' = [job EXCEPT ![c].plan = plan, ![c].mem = mem, ![c].reads = reads]

\* The answer: the status and what the body shows.
Reply(c, code, got) ==
    job' = [job EXCEPT ![c] = [NoJob EXCEPT !.op = job[c].op, !.code = code, !.got = got]]

\* A write of the resources rs: whoever relies on their old value is overtaken.
Overtaken(c, rs) == {r \in rs : \E d \in Clients \ {c} : r \in job[d].reads}
Touch(c, rs) == raced' = raced \cup Overtaken(c, rs)

\* A fault is left to the model checker while the bound allows.
Fault(c) == /\ used.faults < used.bound.faults
            /\ used' = [used EXCEPT !.faults = @ + 1]
            /\ broken' = broken \cup {<<job[c].p, job[c].v>>} \cup job[c].reads

\* A failure the request cleans up after.
CleanFault == used.faults < used.bound.faults /\ used' = [used EXCEPT !.faults = @ + 1]

\* An error ends the request, except inside a part of the plan whose errors the handler only
\* logs: that part ends with the step "logged", and the request goes on after it.
Logged(c) == {i \in 1 .. Len(job[c].plan) : job[c].plan[i] = "logged"}
Abort(c, code) ==
    IF Logged(c) = {} THEN Reply(c, code, Nothing)
    ELSE LET i == CHOOSE i \in Logged(c) : \A j \in Logged(c) : i <= j
         IN Goto(c, SubSeq(job[c].plan, i + 1, Len(job[c].plan)))

\* The await of a step fails: nothing the request did is undone.  Steps in memory do not fail,
\* and a failure the handler cleans up after is an action of its own.
HandledSteps == {"logged", "erase", "helmInvalidate", "helmCache", "dockerWriteDigest", "dockerSaveDigest",
                 "virtualTarget"}
StepFails(c) ==
    /\ ~Idle(c) /\ Head(job[c].plan) \notin HandledSteps
    /\ Fault(c)
    /\ Abort(c, 500)
    /\ UNCHANGED <<worldVars, store, catalogVars, aux, raced>>

\* The server stops and starts again: the requests are cut off where they are, and what the
\* repository kept in memory is forgotten.
InMemory == CASE kind = "helm" -> [aux EXCEPT !.cache = {}]
              [] kind = "dockerUploads" ->
                   [aux EXCEPT !.open = EmptyMap, !.staged = EmptyMap, !.lost = @ \cup DOMAIN aux.open]
              [] kind = "localFiles" ->
                   [aux EXCEPT !.updates = {}, !.known = EmptyMap, !.lost = @ \cup {u.path : u \in aux.updates}]
              [] kind = "nugetProxy" -> [known |-> FALSE]
              [] OTHER -> aux
Restart ==
    /\ ~Quiescent /\ used.faults < used.bound.faults
    /\ used' = [used EXCEPT !.faults = @ + 1]
    /\ broken' = broken \cup UNION {{<<job[c].p, job[c].v>>} \cup job[c].reads : c \in Clients}
    /\ job' = [c \in Clients |-> NoJob]
    /\ aux' = InMemory
    /\ UNCHANGED <<worldVars, store, catalogVars, raced>>

Logs(c) ==
    /\ At(c, "logged") /\ Advance(c)
    /\ UNCHANGED <<worldVars, store, catalogVars, aux, used, historyVars>>

RepositoryInit ==
    /\ kind \in Kinds
    /\ \E w \in Workloads(kind) :
        /\ storage = w.storage
        /\ used = [requests |-> 0, faults |-> 0, clock |-> 0, changes |-> 0, bound |-> w]
    /\ projects = {} /\ rows = EmptyMap /\ files = EmptyMap
    /\ job = [c \in Clients |-> NoJob]
    /\ raced = {} /\ broken = {}
=============================================================================
