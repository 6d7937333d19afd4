CONSTANTS
    Services = {"a", "b"}
    Steps = {"env", "a1", "a2", "b1"}
    FullPlan <- MCShortPlan
    OwnerOf <- MCShortOwner
    After <- MCAfter
    EnvStep = "env"
    Versions = {1}
    Editable = {}
    Templated = {}
    Conditional = {"a2"}
    Checked = {}
    Producers = {"a1"}
    Consumers = {}
    Lenient = {"b1"}
    Env = {"condition", "crash", "fail", "save_error", "gate_error", "when_error"}
SPECIFICATION FairSpec
INVARIANTS OkMeansDeployed Idempotent
PROPERTY ResumePicksUp
