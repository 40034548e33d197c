SPECIFICATION Spec
CONSTANTS
    Kinds = {"npmVirtual", "pythonVirtual", "nugetVirtual"}
    Workloads <- MCWorkloads
    Clients = {1, 2}
    Packages = {"p"}
    Bodies = {"x", "y"}
CHECK_DEADLOCK FALSE
INVARIANTS VirtualConfigured
PROPERTIES VirtualAnswers
