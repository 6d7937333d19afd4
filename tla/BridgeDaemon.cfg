SPECIFICATION DaemonSpec
CONSTANTS
    Commands = {c1, c2}
    Daemons = {d1, d2}
    Jobs = {"ensure", "cycle", "stop", "status"}
    Faults = {"kill", "start"}
    Nobody = Nobody
SYMMETRY Symmetry
INVARIANTS EndpointsOwned Served
