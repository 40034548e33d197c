SPECIFICATION Spec
CONSTANTS
    Kinds = {"npm", "maven", "cargo", "go", "helm", "python", "nuget", "ruby", "php", "deb",
             "dockerUploads", "localFiles"}
    Workloads <- MCWorkloads
    Clients = {1, 2}
    Packages = {"p"}
    Bodies = {"x", "y"}
CHECK_DEADLOCK FALSE
INVARIANTS ListingAgrees CataloguedIsStored IndexesCurrent UploadsExact LocalMetaCurrent
