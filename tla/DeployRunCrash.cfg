CONSTANTS
    Services = {"a", "b"}
    Steps = {"env", "a1", "a2", "b1", "up"}
    FullPlan <- MCPlan
    OwnerOf <- MCOwner
    After <- MCAfter
    EnvStep = "env"
    Versions = {1}
    Editable = {}
    Templated = {}
    Conditional = {}
    Checked = {"up"}
    Producers = {}
    Consumers = {}
    Lenient = {}
    Env = {"crash", "fail", "service_run", "reset", "repair"}
SPECIFICATION Spec
INVARIANTS JournalSound DeployedMeansDone
