SPECIFICATION Spec
CONSTANTS
    Kinds = {"npmProxy", "mavenProxy", "goProxy", "pythonProxy", "nugetProxy", "rubyProxy",
             "phpProxy", "debProxy", "dockerProxy", "nuget"}
    Workloads <- MCWorkloads
    Clients = {1, 2}
    Packages = {"p"}
    Bodies = {"x", "y"}
CHECK_DEADLOCK FALSE
INVARIANTS CacheCatalogued ProxiedGenuine
PROPERTIES ArtifactsStable
