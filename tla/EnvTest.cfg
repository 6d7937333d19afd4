CONSTANTS
    Scenarios = {s, t}
    Commands = {p, q}
    Workers = {v, w}
    Cleaners = {c}
    Ports = {p1, p2}
    Nobody = Nobody
    MaxRuns = 2
    MaxFaults = 2
SPECIFICATION Spec
SYMMETRY MCSymmetry
INVARIANTS ResourcesRecorded OneEnvironment PortsApart SweptMeansGone
PROPERTY OnlyOwnTeardown
