SPECIFICATION FairSpec
CONSTANTS
    Procs = {p1, p2}
    NoProc = NoProc
INVARIANTS MutualExclusion NoLeak
PROPERTIES ImplementsSection NeverStuck
