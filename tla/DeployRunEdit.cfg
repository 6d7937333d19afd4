CONSTANTS
    Services = {"a", "b"}
    Steps = {"env", "a1", "a2", "b1"}
    FullPlan <- MCShortPlan
    OwnerOf <- MCShortOwner
    After <- MCAfter
    EnvStep = "env"
    Versions = {1, 2}
    Editable = {"a", "plan"}
    Templated = {"a1"}
    Conditional = {}
    Checked = {}
    Producers = {}
    Consumers = {}
    Lenient = {}
    Env = {"fail", "force", "reset", "repair", "clear"}
SPECIFICATION FairSpec
INVARIANT JournalSound
PROPERTY Resumes
