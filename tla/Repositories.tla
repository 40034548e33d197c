----------------------------- MODULE Repositories -----------------------------
(***************************************************************************)
(* The repositories of every kind: what a new one starts with, the steps   *)
(* of its requests, and what changes around it.  One behaviour is the life *)
(* of one repository; the kinds differ in the operations they answer and   *)
(* share the catalog, the deletion of packages, the proxy cache and the    *)
(* faults of the server.                                                   *)
(***************************************************************************)
EXTENDS NpmHosted, NpmProxy, MavenHosted, MavenProxy, CargoHosted, GoHosted, GoProxy,
        HelmHosted, Python, Nuget, Ruby, Php, Deb, DockerProxy, BlobUploads, LocalFiles,
        VirtualRepository

\* What only this kind of repository keeps, at first.
FirstStates(k) ==
    CASE k = "npm" -> {NpmInit}
      [] k = "maven" -> {MavenInit}
      [] k = "mavenProxy" -> {MavenProxyInit}
      [] k = "goProxy" -> {GoProxyInit}
      [] k = "helm" -> HelmInits
      [] k = "nugetProxy" -> {NugetProxyInit}
      [] k = "ruby" -> {RubyInit}
      [] k = "rubyProxy" -> {RubyProxyInit}
      [] k = "php" -> {PhpInit}
      [] k = "phpProxy" -> {PhpProxyInit}
      [] k = "debProxy" -> {DebProxyInit}
      [] k = "dockerProxy" -> {DockerProxyInit}
      [] k = "dockerUploads" -> {UploadsInit}
      [] k = "localFiles" -> {LocalInit}
      [] k \in VirtualKinds -> VirtualInits
      [] OTHER -> {Nothing}

\* What the upstream of a proxy serves, at first.
FirstUpstream(k) ==
    CASE k = "npmProxy" -> NpmUpstream
      [] k = "mavenProxy" -> MavenUpstream
      [] k = "goProxy" -> GoUpstream
      [] k = "pythonProxy" -> PythonUpstream
      [] k = "nugetProxy" -> NugetUpstream
      [] k = "rubyProxy" -> RubyUpstream
      [] k = "phpProxy" -> PhpUpstream
      [] k = "debProxy" -> DebUpstream
      [] k = "dockerProxy" -> DockerUpstream
      [] OTHER -> EmptyMap

Init ==
    /\ RepositoryInit
    /\ store = IF kind \in VirtualKinds THEN VirtualFiles ELSE EmptyMap
    /\ aux \in FirstStates(kind)
    /\ upstream = FirstUpstream(kind)

\* The handlers of each kind of repository.
HandlerStep(c) ==
    \/ kind = "npm" /\ NpmHostedStep(c)
    \/ kind = "npmProxy" /\ NpmProxyStep(c)
    \/ kind = "maven" /\ MavenHostedStep(c)
    \/ kind = "mavenProxy" /\ MavenProxyStep(c)
    \/ kind = "cargo" /\ CargoHostedStep(c)
    \/ kind = "go" /\ GoHostedStep(c)
    \/ kind = "goProxy" /\ GoProxyStep(c)
    \/ kind = "helm" /\ HelmHostedStep(c)
    \/ kind = "python" /\ PythonHostedStep(c)
    \/ kind = "pythonProxy" /\ PythonProxyStep(c)
    \/ kind = "nuget" /\ NugetHostedStep(c)
    \/ kind = "nugetProxy" /\ NugetProxyStep(c)
    \/ kind = "ruby" /\ RubyHostedStep(c)
    \/ kind = "rubyProxy" /\ RubyProxyStep(c)
    \/ kind = "php" /\ PhpHostedStep(c)
    \/ kind = "phpProxy" /\ PhpProxyStep(c)
    \/ kind = "deb" /\ DebHostedStep(c)
    \/ kind = "debProxy" /\ DebProxyStep(c)
    \/ kind = "dockerProxy" /\ DockerProxyStep(c)
    \/ kind = "dockerUploads" /\ BlobUploadStep(c)
    \/ kind = "localFiles" /\ LocalFilesStep(c)
    \/ kind \in VirtualKinds /\ VirtualStep(c)

\* What the handlers share.
SharedStep(c) == CatalogSteps(c) \/ DeletionSteps(c) \/ ProxySteps(c) \/ Logs(c) \/ StepFails(c)

\* What happens by itself: an upstream's releases, entries reaching their age, background work.
WorldStep ==
    \/ kind \in ProxyKinds \ {"dockerProxy"} /\ UpstreamChanges
    \/ kind = "dockerProxy" /\ (DockerTagMoves \/ DockerTtlPasses)
    \/ kind = "goProxy" /\ GoTtlPasses
    \/ kind = "helm" /\ HelmTtlPasses
    \/ kind = "rubyProxy" /\ RubyUpstreamGrows
    \/ kind \in VirtualKinds /\ (MemberChanges \/ VirtualTtlPasses \/ VirtualRestart)
    \/ kind \notin VirtualKinds /\ Restart
    \/ MetaUpdates

Next == WorldStep \/ \E c \in Clients : HandlerStep(c) \/ SharedStep(c)
Spec == Init /\ [][Next]_vars

-----------------------------------------------------------------------------
(* What the repositories promise, each kind in its own terms.              *)

\* The package list and the versions agree: a listed file belongs to a version that exists,
\* and a version that was published or cached without a fault is listed.
ListingAgrees == FileRowsHaveVersions /\ VersionsAreListed

\* What a hosted repository serves as its index (the npm document and its dist-tags, the Maven
\* metadata, the sparse index of Cargo, the Go version list and latest, the Helm index, the
\* compact index of RubyGems, the Composer document) describes what it stores and catalogues,
\* whatever publications, deletions and reads ran before.
IndexesCurrent ==
    /\ NpmTagsResolve /\ NpmDocumentConsistent
    /\ MavenMetaCurrent
    /\ CargoIndexServesArchive
    /\ GoListExact /\ GoLatestListed
    /\ HelmIndexCurrent /\ HelmDigestServed
    /\ RubyIndexCurrent /\ YankedIsGone
    /\ PhpDocumentCurrent

\* The cache of a proxy and the catalog name the same artifacts.
CacheCatalogued == CachedIsCatalogued /\ CataloguedIsCached

\* What a proxy stores and serves is what the upstream had: the compact index of RubyGems is a
\* prefix of the upstream's, a Debian mirror holds every package its index lists, a Docker
\* manifest has the digest it is stored under, and a tag is no older than its TTL.
ProxiedGenuine ==
    /\ RubyIndexGenuine
    /\ DebMirrorComplete
    /\ DockerDigestsGenuine /\ DockerFreshTagRecent /\ DockerTagHasDigest

\* The publish target and the members a virtual repository uses are those of its
\* configuration; what two reloads that overlap leave is excused.
VirtualConfigured == VirtualTargetValid /\ VirtualMemoryCurrent

\* A virtual repository answers with the file of its first member that has it, and lists the
\* versions of all members; a member whose upstream failed is excused.
VirtualAnswers == [][ResolvesRight /\ MergesAll]_vars

\* Without those excuses, as the documentation has it (VirtualTargetAlwaysValid is the third):
\* every download finds the member that has the file, every page is the union of the members'.
DownloadsResolve == [][DownloadResolves]_vars
PagesAreUnions == [][PageIsUnion]_vars

\* A blob is stored under the digest of its content, an upload that is over leaves nothing
\* behind, and the staging budget counts exactly the parts that are staged.
UploadsExact == BlobsMatchDigest /\ UploadsLeaveNothing /\ StagedUnitsExact

\* The metadata beside a local file describes the file as it is, and keeps what was put in it.
LocalMetaCurrent == LocalHashesCurrent /\ LocalPutKept
=============================================================================
