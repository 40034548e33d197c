------------------------------- MODULE GoHosted -------------------------------
(***************************************************************************)
(* The hosted Go module repository, GoRepositoryExt and the deletion of a  *)
(* module version.  A version is three files (.zip, .mod, .info); the file *)
(* @v/list names the versions, and @latest and go.mod are copies of the    *)
(* files of the latest one.  All of these are rewritten by publications    *)
(* and deletions without a lock.                                           *)
(*                                                                         *)
(* The content of a list is the set of its versions, that of an alias the  *)
(* version whose file it copies.                                           *)
(***************************************************************************)
EXTENDS PackageDeletion

GoSuffixes == {"zip", "mod", "info"}
GoBase == IF kind = "goProxy" THEN <<Dir("go-proxy-cache")>> ELSE <<>>
GoFile(p, v, ext) == GoBase \o <<Dir(p), Dir("@v"), File(p, v, ext)>>
GoFiles(p, v) == {GoFile(p, v, ext) : ext \in GoSuffixes}
GoListPath(p) == <<Dir(p), Dir("@v"), Dir("list")>>
GoLatestPath(p) == <<Dir(p), Dir("@latest")>>
GoModPath(p) == <<Dir(p), Dir("go.mod")>>
GoList(p) == IF GoListPath(p) \in DOMAIN store THEN store[GoListPath(p)] ELSE {}
Has(p, v, ext) == GoFile(p, v, ext) \in DOMAIN store

Priority(ext) == CASE ext = "zip" -> 3 [] ext = "mod" -> 2 [] ext = "info" -> 1

GoMem(p, v, ext) == [path |-> GoFile(p, v, ext), file |-> GoFile(p, v, ext), extra |-> Blank,
                     list |-> {}, latest |-> 0, targets |-> {}, found |-> FALSE, done |-> {}]

GoListSteps == <<"goReadList", "goAddVersion">>
GoRefresh == <<"goLatest", "goAliasInfo", "goAliasMod", "logged">>
GoCatalog == <<"project", "goPriority", "newVersion">>

\* An Athens upload: the archive is saved as it came, then in its canonical form, then go.mod
\* and the info file.  An archive that cannot be read fails at the second step.
GoUpload(c) == \E p \in Packages, v \in Versions, b \in Bodies \cup {"unreadable"}, named \in BOOLEAN :
    Start(c, IF ~named THEN Refused("goUpload", 400)          \* the info file's version
             ELSE [NoJob EXCEPT !.op = "goUpload", !.p = p, !.v = v, !.body = b,
                     !.plan = <<"goRaw", "goZip", "goMod", "goInfo">> \o GoListSteps \o GoCatalog
                              \o GoRefresh \o <<"goDone">>,
                     !.mem = GoMem(p, v, "zip")])

\* A PUT of one file of a version.
GoPut(c) == \E p \in Packages, v \in Versions, ext \in GoSuffixes, b \in Bodies :
    Start(c, [NoJob EXCEPT !.op = "goPut", !.p = p, !.v = v, !.body = b, !.mem = GoMem(p, v, ext),
                !.plan = (CASE ext = "zip" -> <<"goZip">> [] ext = "mod" -> <<"goMod">>
                            [] ext = "info" -> <<"goInfo">>)
                         \o GoCatalog \o (IF ext = "info" THEN GoListSteps ELSE <<>>)
                         \o <<"goComplete">>])

\* save_go_module_file.
GoSave(c, step, ext, content) ==
    /\ At(c, step)
    /\ store' = Put(store, GoFile(job[c].p, job[c].v, ext), content)
    /\ Touch(c, {Key(c)})
    /\ job' = [job EXCEPT ![c].plan = Rest(c), ![c].reads = @ \cup {Key(c)}]
    /\ UNCHANGED <<worldVars, catalogVars, aux, used, broken>>
GoSaveRaw(c) == GoSave(c, "goRaw", "zip", "raw")
GoSaveMod(c) == GoSave(c, "goMod", "mod", job[c].body)
GoSaveInfo(c) == GoSave(c, "goInfo", "info", job[c].body)
GoSaveZip(c) ==
    \/ job[c].body # "unreadable" /\ GoSave(c, "goZip", "zip", job[c].body)
    \/ /\ At(c, "goZip") /\ job[c].body = "unreadable"
       /\ Reply(c, 400, Nothing)
       /\ broken' = broken \cup {Key(c)}
       /\ UNCHANGED <<worldVars, store, catalogVars, aux, used, raced>>

\* ensure_version_list: read, insert, save.
GoReadList(c) ==
    /\ At(c, "goReadList")
    /\ job' = [job EXCEPT ![c].plan = Rest(c), ![c].mem.list = GoList(job[c].p),
                          ![c].reads = @ \cup {<<"list", job[c].p>>}]
    /\ UNCHANGED <<worldVars, store, catalogVars, aux, used, historyVars>>
\* Mutant: the list is replaced by the version published.
GoForgetList(c) ==
    /\ At(c, "goAddVersion")
    /\ store' = Put(store, GoListPath(job[c].p), {job[c].v})
    /\ Touch(c, {<<"list", job[c].p>>})
    /\ Advance(c)
    /\ UNCHANGED <<worldVars, catalogVars, aux, used, broken>>
GoAddVersion(c) ==
    /\ At(c, "goAddVersion")
    /\ store' = Put(store, GoListPath(job[c].p), job[c].mem.list \cup {job[c].v})
    /\ Touch(c, {<<"list", job[c].p>>})
    /\ Advance(c)
    /\ UNCHANGED <<worldVars, catalogVars, aux, used, broken>>

\* record_go_catalog_entry: a row for a better file of the version stays, a lesser one is
\* replaced.
GoPriority(c) ==
    /\ At(c, "goPriority")
    /\ \/ /\ Key(c) \notin DOMAIN rows
          /\ Advance(c)
          /\ UNCHANGED <<rows, files>>
       \/ /\ Key(c) \in DOMAIN rows
          /\ Priority(FileOf(rows[Key(c)].path)[3]) >= Priority(FileOf(job[c].mem.path)[3])
          /\ Goto(c, Tail(Rest(c)))
          /\ UNCHANGED <<rows, files>>
       \/ /\ Key(c) \in DOMAIN rows
          /\ Priority(FileOf(rows[Key(c)].path)[3]) < Priority(FileOf(job[c].mem.path)[3])
          /\ rows' = Drop(rows, {Key(c)}) /\ files' = WithoutVersions({Key(c)})
          /\ Advance(c)
    /\ UNCHANGED <<worldVars, store, projects, aux, used, historyVars>>

\* After a PUT: the list once the info file is there, the aliases once all three files are.
GoComplete(c) ==
    /\ At(c, "goComplete")
    /\ LET p == job[c].p  v == job[c].v  ext == FileOf(job[c].mem.path)[3]
           all == \A e \in GoSuffixes : Has(p, v, e)
           list == (ext = "mod" /\ all) \/ (ext = "zip" /\ Has(p, v, "info"))
       IN Goto(c, (IF list THEN GoListSteps ELSE <<>>) \o (IF all THEN GoRefresh ELSE <<>>)
                    \o <<"goDone">>)
    /\ UNCHANGED <<worldVars, store, catalogVars, aux, used, historyVars>>

\* Mutant: the aliases of a module without versions stay.
GoKeepAliases(c) ==
    /\ At(c, "goLatest")
    /\ LET list == GoList(job[c].p) IN
       \/ /\ list # {}
          /\ job' = [job EXCEPT ![c].plan = Rest(c), ![c].mem.latest = HighestOf(list),
                                ![c].reads = @ \cup {<<"list", job[c].p>>}]
          /\ UNCHANGED store
       \/ /\ list = {}
          /\ UNCHANGED store
          /\ Goto(c, Tail(Tail(Rest(c))))
    /\ UNCHANGED <<worldVars, catalogVars, aux, used, historyVars>>
\* refresh_latest_aliases: the latest version of the list, then its info, then its go.mod.
GoLatest(c) ==
    /\ At(c, "goLatest")
    /\ LET list == GoList(job[c].p) IN
       \/ /\ list # {}
          /\ job' = [job EXCEPT ![c].plan = Rest(c), ![c].mem.latest = HighestOf(list),
                                ![c].reads = @ \cup {<<"list", job[c].p>>}]
          /\ UNCHANGED store
       \/ /\ list = {}
          /\ store' = Drop(store, {GoLatestPath(job[c].p), GoModPath(job[c].p)})
          /\ Goto(c, Tail(Tail(Rest(c))))
    /\ UNCHANGED <<worldVars, catalogVars, aux, used, historyVars>>
GoAlias(c, step, ext, alias) ==
    /\ At(c, step)
    /\ store' = IF Has(job[c].p, job[c].mem.latest, ext) THEN Put(store, alias, job[c].mem.latest)
                ELSE store
    /\ Advance(c)
    /\ UNCHANGED <<worldVars, catalogVars, aux, used, historyVars>>
GoAliasInfo(c) == GoAlias(c, "goAliasInfo", "info", GoLatestPath(job[c].p))
GoAliasMod(c) == GoAlias(c, "goAliasMod", "mod", GoModPath(job[c].p))

GoDone(c) ==
    /\ At(c, "goDone") /\ Reply(c, 201, Nothing)
    /\ UNCHANGED <<worldVars, store, catalogVars, aux, used, historyVars>>

\* A GET of a file: a missing info file is made up once the module is known, a missing
\* go.mod always.
GoGet(c) == \E p \in Packages, v \in Versions, ext \in GoSuffixes :
    Start(c, Refused("goGet", IF Has(p, v, ext) \/ ext = "mod" \/ (ext = "info" /\ p \in projects)
                               THEN 200 ELSE 404))
\* The latest version is the newest of the list; the module's go.mod is made up if need be.
GoGetLatest(c) == \E p \in Packages, ext \in {"info", "mod"} :
    Start(c, Refused("goGet", IF ext = "mod" \/ (GoList(p) # {} /\ p \in projects) THEN 200 ELSE 404))
GoGetList(c) == \E p \in Packages :
    Start(c, Refused("goList", IF GoList(p) # {} THEN 200 ELSE 404))

-----------------------------------------------------------------------------
(* delete_go_package.  Its errors make the path count as missing.          *)

GoErasing == <<"goEraseZip", "goEraseMod", "goEraseInfo">>
GoDeletion(p, v, ext, lists) ==
    [NoJob EXCEPT !.op = "goDelete", !.p = p, !.v = v,
        !.plan = GoErasing \o lists \o <<"goDeleted", "logged", "soft">>,
        !.reads = {<<p, v>>} \cup {<<"file", path>> : path \in GoFiles(p, v)},
        !.mem = [GoMem(p, v, ext) EXCEPT !.targets = GoFiles(p, v)]]
GoDelete(c) == \E p \in Packages, v \in Versions, ext \in GoSuffixes :
    /\ GoFile(p, v, ext) \in Deletable
    /\ Start(c, GoDeletion(p, v, ext, <<"goReadList", "goDropVersion", "goLatest",
                                        "goAliasInfo", "goAliasMod">>))

\* The three files, one after the other.
GoErase(c, step, path) ==
    /\ At(c, step)
    /\ store' = Drop(store, {path})
    /\ job' = [job EXCEPT ![c].plan = Rest(c),
                          ![c].mem.found = @ \/ path \in DOMAIN store]
    /\ Touch(c, {Key(c), <<"file", path>>})
    /\ UNCHANGED <<worldVars, catalogVars, aux, used, broken>>
GoEraseZip(c) == GoErase(c, "goEraseZip", GoFile(job[c].p, job[c].v, "zip"))
GoEraseMod(c) == GoErase(c, "goEraseMod", GoFile(job[c].p, job[c].v, "mod"))
GoEraseInfo(c) == GoErase(c, "goEraseInfo", GoFile(job[c].p, job[c].v, "info"))

\* From here on an error ends the request.
GoDeleted(c) ==
    /\ At(c, "goDeleted")
    /\ job' = [job EXCEPT ![c].plan = (IF kind = "goProxy" THEN <<"goEvict">> ELSE <<>>) \o <<"goRows", "soft">>,
                          ![c].mem.done = IF job[c].mem.found THEN job[c].mem.targets ELSE {}]
    /\ UNCHANGED <<worldVars, store, catalogVars, aux, used, historyVars>>

\* update_go_version_list: a list without versions is deleted.
GoDropVersion(c) ==
    /\ At(c, "goDropVersion")
    /\ LET left == job[c].mem.list \ {job[c].v} IN
       store' = IF job[c].mem.list = {} THEN store
                ELSE IF left = {} THEN Drop(store, {GoListPath(job[c].p)})
                ELSE Put(store, GoListPath(job[c].p), left)
    /\ Touch(c, {<<"list", job[c].p>>})
    /\ Advance(c)
    /\ UNCHANGED <<worldVars, catalogVars, aux, used, broken>>

GoRows(c) == DeleteVersions(c, "goRows", job[c].mem.targets, FALSE)

GoHostedStep(c) ==
    \/ GoUpload(c) \/ GoPut(c) \/ GoSaveRaw(c) \/ GoSaveZip(c) \/ GoSaveMod(c) \/ GoSaveInfo(c)
    \/ GoReadList(c) \/ GoAddVersion(c) \/ GoPriority(c) \/ GoComplete(c)
    \/ GoLatest(c) \/ GoAliasInfo(c) \/ GoAliasMod(c) \/ GoDone(c) \/ GoGet(c) \/ GoGetLatest(c) \/ GoGetList(c)
    \/ GoDelete(c) \/ GoEraseZip(c) \/ GoEraseMod(c) \/ GoEraseInfo(c) \/ GoDropVersion(c)
    \/ GoDeleted(c) \/ GoRows(c)

-----------------------------------------------------------------------------
GoDisturbed(p) == \/ <<"list", p>> \in raced \cup broken
                  \/ \E v \in Versions : <<p, v>> \in raced \cup broken

\* Once the requests are over, the version list of a module names exactly the versions with an
\* info file, unless rewrites of the list overlapped, a publication and a deletion of one
\* version ran side by side, or a request failed half way.
GoListExact ==
    kind = "go" /\ Quiescent => \A p \in Packages :
        ~GoDisturbed(p) => GoList(p) = {v \in Versions : Has(p, v, "info")}

\* With the same excuses @latest copies the info file of a version that is still listed.
GoLatestListed ==
    kind = "go" /\ Quiescent => \A p \in Packages :
        GoLatestPath(p) \in DOMAIN store /\ ~GoDisturbed(p) =>
            store[GoLatestPath(p)] \in GoList(p)
=============================================================================
