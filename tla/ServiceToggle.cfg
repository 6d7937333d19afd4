CONSTANTS
    Services = {"a", "b"}
    Steps = {}
    OwnerOf <- MCOwner
    Templated = {}
    Versions = {1}
    Sessions = {"p", "q"}
    Requires <- MCRequires
    Commands <- MCCommands
SPECIFICATION Spec
INVARIANTS TogglesKept OwedWorkPending
