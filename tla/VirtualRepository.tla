--------------------------- MODULE VirtualRepository ---------------------------
(***************************************************************************)
(* The npm, Python and NuGet virtual repositories.  A virtual repository   *)
(* keeps in memory its members, the member publications go to, and which   *)
(* member served a path last; the database keeps the configuration and the *)
(* table of the members.  The requests that administer it write the        *)
(* configuration, then the table, then reload the memory from both, with   *)
(* nothing locked in between.  A start of the server loads every           *)
(* repository, and fails when one of them does not load.                   *)
(***************************************************************************)
EXTENDS PackageDeletion

VirtualKinds == {"npmVirtual", "pythonVirtual", "nugetVirtual"}

\* The repositories beside the virtual one: a hosted one and a proxy of the same format, and
\* one of another format.  Equal priorities are decided by the name.
MemberRank == [hosted |-> 1, proxy |-> 2, other |-> 3]
Repositories == DOMAIN MemberRank
IsHosted(m) == m = "hosted"
RightType(m) == m # "other"

\* The lists of members an administrator sends, and the publish target.
Member(rank, on) == [rank |-> rank, on |-> on]
MemberLists ==
    {[m \in {"hosted", "proxy"} |-> Member(IF m = "proxy" THEN 1 ELSE 2, TRUE)],
     [m \in {"hosted", "proxy"} |-> Member(1, m = "proxy")],
     [m \in {"proxy"} |-> Member(1, TRUE)],
     [m \in {"hosted", "other"} |-> Member(1, TRUE)]}
Targets == {{}, {"hosted"}}

\* A new repository with both as members, either asked first.
FirstConfig(rank) ==
    [members |-> [m \in {"hosted", "proxy"} |-> Member(IF m = "proxy" THEN 1 ELSE rank, TRUE)], publish |-> {}]
VirtualInit(rank) ==
    [exists |-> Repositories, loaded |-> Repositories,
     config |-> FirstConfig(rank), table |-> FirstConfig(rank).members,
     live |-> FirstConfig(rank).members, target |-> {"hosted"}, writer |-> {}, whole |-> TRUE,
     kept |-> {}, lists |-> EmptyMap, cache |-> EmptyMap, index |-> EmptyMap, up |-> TRUE, odd |-> {}]
VirtualInits == {VirtualInit(rank) : rank \in {1, 2}}

\* What the members hold at first: both have the first version, the proxy all of them.
MemberFile(m, p, v) == <<Dir(m), Dir(p), File(p, v, "file")>>
VirtualFiles == [q \in {MemberFile("hosted", p, 1) : p \in Packages}
                       \cup {MemberFile("proxy", p, v) : p \in Packages, v \in Versions} |->
                    CHOOSE b \in Bodies : TRUE]

EnabledOf(list) == {m \in DOMAIN list : list[m].on}
Before(list, m, n) ==
    \/ list[m].rank < list[n].rank
    \/ list[m].rank = list[n].rank /\ MemberRank[m] < MemberRank[n]
\* Mutant: the last member by priority.
LastOf(list, S) == CHOOSE m \in S : \A n \in S \ {m} : Before(list, n, m)
FirstOf(list, S) == CHOOSE m \in S : \A n \in S \ {m} : Before(list, m, n)

\* select_publish_target: the configured member, or the first enabled hosted one.  The
\* configured one must be an enabled hosted member.
ValidTarget(target, list) == \A m \in target : m \in EnabledOf(list) /\ IsHosted(m)
SelectTarget(config, list) ==
    IF config.publish # {} THEN config.publish
    ELSE LET hosts == {m \in EnabledOf(list) : IsHosted(m)}
         IN IF hosts = {} THEN {} ELSE {FirstOf(list, hosts)}
ListLoads(list) == \A m \in DOMAIN list : m \in aux.exists /\ RightType(m)
Loads(config, list) == ListLoads(list) /\ ValidTarget(config.publish, list)

-----------------------------------------------------------------------------
(* Administration.                                                         *)

VConfig == <<"virtual", "configuration">>
ReloadSteps == <<"virtualReload", "virtualSync", "virtualAssign", "virtualTarget">>
ConfigSteps == <<"virtualPersist", "virtualReplace">> \o ReloadSteps

\* A request that replaces the members, one that changes the settings only, and one that
\* stores a whole configuration through the endpoint every kind of repository has.
VirtualAdmin(op, members, publish, plan) ==
    [NoJob EXCEPT !.op = op, !.plan = plan, !.mem = [members |-> members, publish |-> publish, list |-> members]]
UpdateMembers(c) == \E list \in MemberLists, t \in Targets :
    Start(c, VirtualAdmin("updateMembers", list, t, <<"virtualRead">> \o ConfigSteps))
UpdateResolutionOrder(c) == \E t \in Targets :
    Start(c, VirtualAdmin("updateOrder", EmptyMap, t, <<"virtualRead", "virtualPersist">> \o ReloadSteps))
UpdateConfig(c) == \E list \in MemberLists, t \in Targets :
    Start(c, VirtualAdmin("updateConfig", list, t, <<"virtualPersist">> \o ReloadSteps))

\* Mutant: a disabled member may be the target.
TargetListed(target, list) == \A m \in target : m \in DOMAIN list /\ IsHosted(m)
\* What the API demands of a target.
TargetAccepted(target, list) == ValidTarget(target, list)

\* The stored configuration is read and the payload laid over it; the members and the target
\* named must exist, and the target must be an enabled hosted one of the members.
ReadConfig(c) ==
    /\ At(c, "virtualRead")
    /\ LET j == job[c]
           members == IF j.op = "updateOrder" THEN aux.config.members ELSE j.mem.members
           publish == IF j.mem.publish = {} THEN aux.config.publish ELSE j.mem.publish
       IN IF /\ (IF j.op = "updateOrder" THEN {} ELSE DOMAIN members) \cup j.mem.publish \subseteq aux.exists
             /\ TargetAccepted(publish, members)
          THEN Recall(c, Rest(c), [members |-> members, publish |-> publish, list |-> members], {VConfig})
          ELSE Reply(c, 400, Nothing)
    /\ UNCHANGED <<worldVars, store, catalogVars, aux, used, historyVars>>

PersistConfig(c) ==
    /\ At(c, "virtualPersist")
    /\ aux' = [aux EXCEPT !.config = [members |-> job[c].mem.members, publish |-> job[c].mem.publish],
                          !.odd = IF job[c].op = "updateConfig" THEN @ \cup {"generic"} ELSE @]
    /\ Touch(c, {VConfig})
    /\ Recall(c, Rest(c), job[c].mem, {VConfig})
    /\ UNCHANGED <<worldVars, store, catalogVars, used, broken>>

\* DBVirtualRepositoryMember::replace_all, one transaction: a member whose repository is gone
\* violates the foreign key.
ReplaceMembers(c) ==
    /\ At(c, "virtualReplace")
    /\ LET list == job[c].mem.members IN
       \/ /\ DOMAIN list \subseteq aux.exists
          /\ aux' = [aux EXCEPT !.table = list,
                                !.odd = IF \A m \in DOMAIN list : RightType(m) THEN @ ELSE @ \cup {"foreign"}]
          /\ Touch(c, {VConfig})
          /\ Advance(c)
          /\ UNCHANGED broken
       \/ /\ ~(DOMAIN list \subseteq aux.exists)
          /\ Reply(c, 500, Nothing)
          /\ broken' = broken \cup {VConfig}
          /\ UNCHANGED <<aux, raced>>
    /\ UNCHANGED <<worldVars, store, catalogVars, used>>

\* reload reads the configuration again.
ReloadConfig(c) ==
    /\ At(c, "virtualReload")
    /\ Recall(c, Rest(c), [members |-> aux.config.members, publish |-> aux.config.publish, list |-> EmptyMap],
              job[c].reads)
    /\ UNCHANGED <<worldVars, store, catalogVars, aux, used, historyVars>>

\* A failed reload is the answer of the generic endpoint and a line in the log of the others.
ReloadFails(c) == Reply(c, IF job[c].op = "updateConfig" THEN 500 ELSE 200, Nothing)

\* load_or_seed: an empty table is filled from the configuration, in a transaction of its own.
SyncMembers(c) ==
    /\ At(c, "virtualSync")
    /\ LET seed == DOMAIN aux.table = {} /\ DOMAIN job[c].mem.members # {}
       IN Recall(c, IF seed THEN <<"virtualSeed">> \o Rest(c) ELSE Rest(c),
                 [job[c].mem EXCEPT !.list = IF seed THEN job[c].mem.members ELSE aux.table], job[c].reads)
    /\ UNCHANGED <<worldVars, store, catalogVars, aux, used, historyVars>>
SeedMembers(c) ==
    /\ At(c, "virtualSeed")
    /\ IF DOMAIN job[c].mem.list \subseteq aux.exists
       THEN aux' = [aux EXCEPT !.table = job[c].mem.list] /\ Advance(c)
       ELSE ReloadFails(c) /\ UNCHANGED aux
    /\ UNCHANGED <<worldVars, store, catalogVars, used, historyVars>>

\* Mutant: the memory takes whatever loads.
TakesAll(config, list) == ListLoads(list)
TakesOver(config, list) == Loads(config, list)

\* The members are looked up and the publish target chosen before the memory is changed: the
\* members under one lock, then the target under another.  History: `writer` is the reload that
\* wrote the members last, until it has written its target; the memory is `whole` when the
\* members and the target last written are of one reload.
AssignMembers(c) ==
    /\ At(c, "virtualAssign")
    /\ LET mem == job[c].mem IN
       IF TakesOver(mem, mem.list)
       THEN /\ aux' = [aux EXCEPT !.live = mem.list, !.writer = {c}, !.whole = FALSE]
            /\ Recall(c, Rest(c), [mem EXCEPT !.publish = SelectTarget(mem, mem.list)], job[c].reads)
       ELSE ReloadFails(c) /\ UNCHANGED aux
    /\ UNCHANGED <<worldVars, store, catalogVars, used, historyVars>>
AssignTarget(c) ==
    /\ At(c, "virtualTarget")
    /\ aux' = [aux EXCEPT !.target = job[c].mem.publish, !.writer = @ \ {c}, !.whole = (aux.writer = {c})]
    /\ Reply(c, 200, Nothing)
    /\ UNCHANGED <<worldVars, store, catalogVars, used, historyVars>>

\* delete_repository_sequence on a member, one at a time under the management lock: the rows
\* (the foreign key takes the member from the table), the files, the memory.
DeleteMember(c) == \E m \in aux.exists :
    /\ Running("deleteMember") = {}
    /\ Start(c, [NoJob EXCEPT !.op = "deleteMember", !.p = m,
                              !.plan = <<"memberRows", "memberFiles", "memberUnload">>])
MemberRows(c) ==
    /\ At(c, "memberRows")
    /\ aux' = [aux EXCEPT !.exists = @ \ {job[c].p}, !.table = Drop(@, {job[c].p}), !.odd = @ \cup {"deleted"}]
    /\ Touch(c, {VConfig})
    /\ Advance(c)
    /\ UNCHANGED <<worldVars, store, catalogVars, used, broken>>
FilesOf(m) == {<<"file", MemberFile(m, p, v)>> : p \in Packages, v \in Versions}
MemberFiles(c) ==
    /\ At(c, "memberFiles")
    /\ store' = Drop(store, {q \in DOMAIN store : Under(<<Dir(job[c].p)>>, q)})
    /\ aux' = IF job[c].p = "proxy" THEN [aux EXCEPT !.kept = {}, !.lists = EmptyMap] ELSE aux
    /\ Touch(c, FilesOf(job[c].p))
    /\ Advance(c)
    /\ UNCHANGED <<worldVars, catalogVars, used, broken>>
MemberUnload(c) ==
    /\ At(c, "memberUnload")
    /\ aux' = [aux EXCEPT !.loaded = @ \ {job[c].p}]
    /\ Touch(c, FilesOf(job[c].p))
    /\ Reply(c, 204, Nothing)
    /\ UNCHANGED <<worldVars, store, catalogVars, used, broken>>

-----------------------------------------------------------------------------
(* Reads and publications.                                                 *)

\* A member answers with its file when it is loaded and has it; a reader without the right to
\* read the virtual repository is refused by a member that is not public.
Serves(m, j) == m \in aux.loaded /\ RightType(m) /\ MemberFile(m, j.p, j.v) \in DOMAIN store
Denies(m, j) == m \in aux.loaded /\ RightType(m) /\ m \in j.mem.denied
HasMember(m, p) == {v \in Versions : MemberFile(m, p, v) \in DOMAIN store}

\* The proxy keeps the files it has served, and the one of NuGet its first version list, which
\* it answers ever after; the page of a Python package comes from the upstream every time.
Keeping(m, path) == IF m = "proxy" THEN aux.kept \cup {path} ELSE aux.kept
KeepsList(m, p) == kind = "nugetVirtual" /\ m = "proxy" /\ HasMember(m, p) # {}
Lists(m, p) == IF m = "proxy" /\ p \in DOMAIN aux.lists THEN aux.lists[p] ELSE HasMember(m, p)
\* For the rest it asks its upstream, which may fail or answer with an error.  (An error the
\* proxy does not answer itself ends the request: StepFails.)
AsksUpstream(m, j) ==
    /\ m = "proxy" /\ m \in aux.loaded /\ ~Denies(m, j)
    /\ IF j.op = "virtualGet" THEN MemberFile(m, j.p, j.v) \notin aux.kept ELSE j.p \notin DOMAIN aux.lists

\* A request reads the members once; `list` are those still to be asked, `failed` those whose
\* upstream failed it.
ReadOf(op, p, v, denied, plan) ==
    [NoJob EXCEPT !.op = op, !.p = p, !.v = v, !.plan = plan,
                  !.mem = [denied |-> denied, list |-> EmptyMap, refused |-> FALSE, found |-> {}, held |-> {},
                           failed |-> {}, all |-> EmptyMap]]
Readers == {{}, {"hosted"}}
VirtualGet(c) == \E p \in Packages, v \in Versions, denied \in Readers :
    Start(c, ReadOf("virtualGet", p, v, denied, <<"virtualCached">>))

\* VirtualResolver::resolve: the member that served the path last is asked first.
CachedMember(c) ==
    /\ At(c, "virtualCached")
    /\ LET j == job[c]
           k == <<j.p, j.v>>
           list == Keep(aux.live, LAMBDA m : aux.live[m].on)
           held == {m \in DOMAIN list : Serves(m, j) /\ ~Denies(m, j)}
       IN Recall(c, IF k \in DOMAIN aux.cache /\ aux.cache[k] \in DOMAIN list
                    THEN <<"virtualHit", "virtualNext">> ELSE <<"virtualNext">>,
                 [j.mem EXCEPT !.list = list, !.all = list, !.held = held,
                               !.found = IF k \in DOMAIN aux.cache THEN {aux.cache[k]} ELSE {}],
                 {<<"file", MemberFile(m, j.p, j.v)>> : m \in held})
    /\ UNCHANGED <<worldVars, store, catalogVars, aux, used, historyVars>>

\* The answer of the cached member is final, a refusal too; only "notFound" goes on.
CachedHit(c) ==
    /\ At(c, "virtualHit")
    /\ LET j == job[c]
           m == CHOOSE m \in j.mem.found : TRUE
           path == MemberFile(m, j.p, j.v)
       IN \/ Denies(m, j) /\ Reply(c, 401, Nothing) /\ UNCHANGED aux
          \/ /\ ~Denies(m, j) /\ Serves(m, j)
             /\ aux' = [aux EXCEPT !.kept = Keeping(m, path)]
             /\ Reply(c, 200, [from |-> m, body |-> store[path]])
          \/ ~Denies(m, j) /\ ~Serves(m, j) /\ Advance(c) /\ UNCHANGED aux
    /\ UNCHANGED <<worldVars, store, catalogVars, used, historyVars>>

\* A failure of the upstream is "notFound" to the npm and Python proxies; the NuGet proxy
\* answers 502, which is final as well.
HitUpstreamFails(c) ==
    /\ At(c, "virtualHit")
    /\ LET m == CHOOSE m \in job[c].mem.found : TRUE IN
       /\ AsksUpstream(m, job[c]) /\ CleanFault
       /\ IF kind = "nugetVirtual" THEN Reply(c, 502, [from |-> m]) ELSE Advance(c)
    /\ UNCHANGED <<worldVars, store, catalogVars, aux, historyVars>>

\* The next member by priority and name.
AskMember(c) ==
    /\ At(c, "virtualNext")
    /\ LET j == job[c]
           m == FirstOf(j.mem.list, DOMAIN j.mem.list)
           path == MemberFile(m, j.p, j.v)
           left == [j.mem EXCEPT !.list = Drop(@, {m})]
       IN IF DOMAIN j.mem.list = {}
          THEN Reply(c, IF j.mem.refused THEN 401 ELSE 404, Nothing) /\ UNCHANGED aux
          ELSE IF Denies(m, j)
          THEN Recall(c, j.plan, [left EXCEPT !.refused = TRUE], j.reads) /\ UNCHANGED aux
          ELSE IF Serves(m, j)
          THEN /\ aux' = [aux EXCEPT !.cache = Put(@, <<j.p, j.v>>, m), !.kept = Keeping(m, path)]
               /\ Reply(c, 200, [from |-> m, body |-> store[path]])
          ELSE Recall(c, j.plan, left, j.reads) /\ UNCHANGED aux
    /\ UNCHANGED <<worldVars, store, catalogVars, used, historyVars>>

\* The member's upstream fails: only "notFound" and refusals are passed over, so the 502 of
\* the NuGet proxy is a hit, and the member is remembered for the path.
AskUpstreamFails(c) ==
    /\ At(c, "virtualNext") /\ DOMAIN job[c].mem.list # {}
    /\ LET j == job[c]
           m == FirstOf(j.mem.list, DOMAIN j.mem.list)
       IN /\ AsksUpstream(m, j) /\ CleanFault
          /\ IF kind = "nugetVirtual"
             THEN /\ aux' = [aux EXCEPT !.cache = Put(@, <<j.p, j.v>>, m)]
                  /\ Reply(c, 502, [from |-> m])
             ELSE /\ Recall(c, j.plan, [j.mem EXCEPT !.list = Drop(@, {m}), !.failed = @ \cup {m}], j.reads)
                  /\ UNCHANGED aux
    /\ UNCHANGED <<worldVars, store, catalogVars, historyVars>>

\* The list of a package's versions: Python and NuGet merge what the members list, npm asks
\* the resolver for the document of one member.  Python keeps the merged page.
VirtualList(c) == \E p \in Packages, denied \in Readers :
    /\ kind \in {"pythonVirtual", "nugetVirtual"}
    /\ Start(c, ReadOf("virtualList", p, 0, denied, <<"virtualPage", "virtualMerge">>))
CachedPage(c) ==
    /\ At(c, "virtualPage")
    /\ LET j == job[c]
           list == Keep(aux.live, LAMBDA m : aux.live[m].on)
           held == {h \in (DOMAIN list) \X Versions :
                      h[1] \in aux.loaded /\ RightType(h[1]) /\ ~Denies(h[1], j) /\ h[2] \in Lists(h[1], j.p)}
       IN IF kind = "pythonVirtual" /\ j.p \in DOMAIN aux.index
          THEN Reply(c, 200, [versions |-> aux.index[j.p]])
          ELSE Recall(c, Rest(c), [j.mem EXCEPT !.list = list, !.held = held],
                      {<<"file", MemberFile(h[1], j.p, h[2])>> : h \in held})
    /\ UNCHANGED <<worldVars, store, catalogVars, aux, used, historyVars>>

\* Mutant: only the last member counts.
MergedListLast(found, more) == more
\* The links of all members, without duplicates.
MergedList(found, more) == found \cup more

\* NuGet takes a member's refusal for a version list and fails on it.
MergeMember(c) ==
    /\ At(c, "virtualMerge")
    /\ LET j == job[c]
           m == FirstOf(j.mem.list, DOMAIN j.mem.list)
           left == [j.mem EXCEPT !.list = Drop(@, {m})]
       IN IF DOMAIN j.mem.list = {}
          THEN /\ aux' = IF kind = "pythonVirtual" /\ j.mem.found # {}
                         THEN [aux EXCEPT !.index = Put(@, j.p, j.mem.found)] ELSE aux
               /\ Reply(c, IF j.mem.found # {} THEN 200 ELSE IF j.mem.refused THEN 401 ELSE 404,
                        [versions |-> j.mem.found])
          ELSE IF Denies(m, j)
          THEN /\ IF kind = "nugetVirtual" THEN Reply(c, 500, Nothing)
                  ELSE Recall(c, j.plan, [left EXCEPT !.refused = TRUE], j.reads)
               /\ UNCHANGED aux
          ELSE IF m \in aux.loaded /\ RightType(m)
          THEN /\ aux' = IF KeepsList(m, j.p) THEN [aux EXCEPT !.lists = Put(@, j.p, Lists(m, j.p))] ELSE aux
               /\ Recall(c, j.plan, [left EXCEPT !.found = MergedList(@, Lists(m, j.p))], j.reads)
          ELSE Recall(c, j.plan, left, j.reads) /\ UNCHANGED aux
    /\ UNCHANGED <<worldVars, store, catalogVars, used, historyVars>>

\* The member's upstream fails: Python leaves the member out and keeps the merged page all the
\* same; NuGet cannot read the 502 as a version list and fails.
MergeUpstreamFails(c) ==
    /\ At(c, "virtualMerge") /\ DOMAIN job[c].mem.list # {}
    /\ LET j == job[c]
           m == FirstOf(j.mem.list, DOMAIN j.mem.list)
       IN /\ AsksUpstream(m, j) /\ CleanFault
          /\ IF kind = "nugetVirtual" THEN Reply(c, 500, Nothing)
             ELSE Recall(c, j.plan, [j.mem EXCEPT !.list = Drop(@, {m}), !.failed = @ \cup {m}], j.reads)
    /\ UNCHANGED <<worldVars, store, catalogVars, aux, historyVars>>

\* forward_publish: the target of the moment; its own handling is the hosted format's.
VirtualPublish(c) == \E p \in Packages, v \in Versions, b \in Bodies :
    Start(c, [NoJob EXCEPT !.op = "virtualPublish", !.p = p, !.v = v, !.body = b, !.plan = <<"virtualForward">>])
ForwardPublish(c) ==
    /\ At(c, "virtualForward")
    /\ LET j == job[c] IN
       IF aux.target = {} THEN Reply(c, 403, Nothing) /\ UNCHANGED store
       ELSE LET m == CHOOSE m \in aux.target : TRUE IN
            IF m \notin aux.loaded THEN Reply(c, 404, Nothing) /\ UNCHANGED store
            ELSE /\ store' = IF MemberFile(m, j.p, j.v) \in DOMAIN store THEN store
                             ELSE Put(store, MemberFile(m, j.p, j.v), j.body)
                 /\ Reply(c, 200, Nothing)
    /\ UNCHANGED <<worldVars, catalogVars, aux, used, historyVars>>

-----------------------------------------------------------------------------
(* The rest of the server.                                                 *)

\* A member gets or loses a file by itself: a publication, a deletion, an upstream's release.
MemberChanges == \E m \in {"hosted", "proxy"} \cap aux.loaded, p \in Packages, v \in Versions, b \in Bodies :
    /\ kind \in VirtualKinds /\ used.changes < used.bound.changes
    /\ used' = [used EXCEPT !.changes = @ + 1]
    /\ LET path == MemberFile(m, p, v) IN
       IF path \in DOMAIN store
       THEN /\ store' = Drop(store, {path}) /\ aux' = [aux EXCEPT !.kept = @ \ {path}]
            /\ raced' = raced \cup {r \in {<<"file", path>>} : \E d \in Clients : r \in job[d].reads}
       ELSE store' = Put(store, path, b) /\ UNCHANGED <<aux, raced>>
    /\ UNCHANGED <<worldVars, catalogVars, job, broken>>

\* An entry of a cache reaches its age.
VirtualTtlPasses ==
    /\ kind \in VirtualKinds
    /\ \/ \E k \in DOMAIN aux.cache : aux' = [aux EXCEPT !.cache = Drop(@, {k})]
       \/ \E p \in DOMAIN aux.index : aux' = [aux EXCEPT !.index = Drop(@, {p})]
    /\ UNCHANGED <<worldVars, store, catalogVars, job, used, historyVars>>

\* A start loads every repository of the database: an error of one ends the start.  An empty
\* table is filled from the configuration.
StartTable == IF DOMAIN aux.table = {} THEN aux.config.members ELSE aux.table
VirtualRestart ==
    /\ kind \in VirtualKinds /\ aux.up /\ used.faults < used.bound.faults
    /\ used' = [used EXCEPT !.faults = @ + 1]
    /\ broken' = broken \cup UNION {job[c].reads : c \in Clients}
    /\ job' = [c \in Clients |-> NoJob]
    /\ aux' = IF Loads(aux.config, StartTable)
              THEN [aux EXCEPT !.loaded = aux.exists, !.table = StartTable, !.live = StartTable,
                               !.target = SelectTarget(aux.config, StartTable), !.writer = {}, !.whole = TRUE,
                               !.cache = EmptyMap, !.index = EmptyMap]
              ELSE [aux EXCEPT !.up = FALSE]
    /\ UNCHANGED <<worldVars, store, catalogVars, raced>>

VirtualStep(c) ==
    /\ aux.up
    /\ \/ UpdateMembers(c) \/ UpdateResolutionOrder(c) \/ UpdateConfig(c)
       \/ ReadConfig(c) \/ PersistConfig(c) \/ ReplaceMembers(c)
       \/ ReloadConfig(c) \/ SyncMembers(c) \/ SeedMembers(c) \/ AssignMembers(c) \/ AssignTarget(c)
       \/ DeleteMember(c) \/ MemberRows(c) \/ MemberFiles(c) \/ MemberUnload(c)
       \/ VirtualGet(c) \/ CachedMember(c) \/ CachedHit(c) \/ HitUpstreamFails(c)
       \/ AskMember(c) \/ AskUpstreamFails(c)
       \/ VirtualList(c) \/ CachedPage(c) \/ MergeMember(c) \/ MergeUpstreamFails(c)
       \/ VirtualPublish(c) \/ ForwardPublish(c)

-----------------------------------------------------------------------------
\* Publications go to an enabled hosted member of the list the memory holds, whatever the
\* database says by then, as long as the members and the target last written are of one
\* reload: of two reloads that overlap, each may win one of the two locks last.
VirtualTargetValid == kind \in VirtualKinds /\ aux.whole => ValidTarget(aux.target, aux.live)

\* What the documentation says of the target without that reserve.  The code does not keep it.
VirtualTargetAlwaysValid ==
    kind \in VirtualKinds /\ aux.up /\ (\A c \in Clients : ~At(c, "virtualTarget")) =>
        ValidTarget(aux.target, aux.live)

\* What the API of the virtual repositories stored is what the memory holds, and the server
\* can start from it, once the requests are over: unless two such requests overlapped, one
\* failed half way, a member of another format was accepted, a member was deleted or the
\* configuration was stored through the generic endpoint.
VirtualMemoryCurrent ==
    kind \in VirtualKinds /\ Quiescent /\ aux.up /\ VConfig \notin raced \cup broken /\ aux.odd = {} =>
        /\ Loads(aux.config, aux.table)
        /\ aux.live = aux.table
        /\ aux.target = SelectTarget(aux.config, aux.table)

\* A read that the cache does not settle is answered by the first member, in the order of the
\* priorities, of those that had the file all along and whose upstream did not fail; "notFound"
\* is the answer only when there is none.  An error of a member is answered only when its
\* upstream failed in this very step, and no member before it had the file.
Ends(c, op) == job[c].op = op /\ ~Idle(c) /\ job'[c].plan = <<>> /\ job'[c].op = op
Stayed(c) == {m \in job[c].mem.held : <<"file", MemberFile(m, job[c].p, job[c].v)>> \notin raced}
Reached(c) == Stayed(c) \ job[c].mem.failed
ResolvesRight ==
    kind \in VirtualKinds => \A c \in Clients :
        Ends(c, "virtualGet") /\ At(c, "virtualNext") =>
            /\ job'[c].code \in {200, 502} =>
                 \A m \in Reached(c) \ {job'[c].got.from} : ~Before(job[c].mem.all, m, job'[c].got.from)
            /\ job'[c].code = 502 => kind = "nugetVirtual" /\ used'.faults > used.faults
            /\ job'[c].code \in {401, 404} => Reached(c) = {}
            /\ job'[c].code \in {200, 401, 404, 500, 502}

\* A merged list holds every version that a member listed all along, unless the upstream of
\* that member failed while it was asked.
MergesAll ==
    kind \in VirtualKinds => \A c \in Clients :
        Ends(c, "virtualList") /\ At(c, "virtualMerge") /\ job'[c].code \in {200, 404} =>
            \A h \in job[c].mem.held :
                \/ h[2] \in job'[c].got.versions
                \/ h[1] \in job[c].mem.failed
                \/ <<"file", MemberFile(h[1], job[c].p, h[2])>> \in raced

\* What the documentation says without that reserve: a download resolves through the members,
\* so that one which fails does not hide another that has the file, and the page of a package
\* is the union of what the enabled members list.  The code keeps neither.
DownloadResolves ==
    kind \in VirtualKinds => \A c \in Clients :
        Ends(c, "virtualGet") /\ At(c, "virtualNext") /\ "hosted" \in Reached(c) => job'[c].code \in {200, 500}
PageIsUnion ==
    kind = "pythonVirtual" => \A c \in Clients :
        Ends(c, "virtualList") /\ At(c, "virtualMerge") /\ job'[c].code = 200 =>
            \A h \in job[c].mem.held :
                h[2] \in job'[c].got.versions \/ <<"file", MemberFile(h[1], job[c].p, h[2])>> \in raced

\* The publish target of the stored configuration is an enabled hosted member, so that the
\* server starts again.
VirtualStarts == kind \in VirtualKinds => aux.up
=============================================================================
