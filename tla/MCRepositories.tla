---------------------------- MODULE MCRepositories ----------------------------
(***************************************************************************)
(* Instances of Repositories: one package, two requests at a time.         *)
(***************************************************************************)
EXTENDS Repositories

Workload(backend, versions, prereleases, requests, faults, changes) ==
    [storage |-> backend, versions |-> versions, prereleases |-> prereleases,
     requests |-> requests, faults |-> faults, changes |-> changes]

\* The hosted formats have two versions, the second a pre-release; the others one.
Hosted(backend, requests, faults, changes) == Workload(backend, {1, 2}, {2}, requests, faults, changes)
Single(backend, requests, faults, changes) == Workload(backend, {1}, {}, requests, faults, changes)
Backends == {"local", "s3"}

\* Two requests and a fault or a change of the world; three or four requests where the handlers
\* are short, or where it takes as many for a case to happen: a crate or a Maven version
\* published, deleted and published again; an upload, its chunk and its completion beside
\* another chunk.  The backend matters where directories or staged parts do; elsewhere one
\* stands for both.
MCWorkloads(k) ==
    CASE k \in {"npm", "python", "nuget", "ruby"} -> {Hosted(b, 2, 1, 0) : b \in Backends}
      [] k = "php" -> {Hosted("local", 2, 1, 0), Workload("s3", {1, 2}, {}, 2, 1, 0)}
      [] k \in {"cargo", "deb"} ->
           {Hosted(b, 2, 1, 0) : b \in Backends} \cup {Hosted("local", 3, 0, 0)}
      [] k = "maven" -> {Hosted(b, 2, 1, 0) : b \in Backends} \cup {Single("s3", 3, 0, 0)}
      [] k = "go" -> {Hosted("local", 2, 1, 0)}
      [] k = "helm" -> {Hosted("local", 2, 1, 0), Hosted("local", 2, 0, 1)}
      [] k = "dockerUploads" ->
           {Single(b, 3, 1, 0) : b \in Backends} \cup {Single(b, 4, 0, 0) : b \in Backends}
      [] k = "localFiles" -> {Single("local", 3, 1, 0), Single("local", 4, 0, 0)}
      [] k \in {"mavenProxy", "dockerProxy"} -> {Single("local", 2, 1, 0), Single("local", 2, 0, 1)}
      [] k = "npmVirtual" -> {Single("local", 2, 1, 0)}
      [] k = "nugetVirtual" -> {Single("local", 2, 2, 0), Single("local", 2, 0, 1)}
      [] k = "pythonVirtual" -> {Workload("local", {1, 2}, {}, 1, 1, 1), Single("local", 2, 0, 1)}
      [] k \in ProxyKinds -> {Single(b, 2, 1, 0) : b \in Backends}
                               \cup {Single(b, 2, 0, 1) : b \in Backends}
                               \cup {Single("local", 3, 0, 0)}
=============================================================================
