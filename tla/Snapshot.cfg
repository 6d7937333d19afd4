SPECIFICATION Spec
CONSTANTS
    Names = {a, b}
    Backups = {b1, b2}
    Olds = {o1}
    Nobody = Nobody
    RequireMatchingConfig = FALSE
    MaxWork = 1
    MaxCommands = 3
    MaxFaults = 2
SYMMETRY Symmetry
CHECK_DEADLOCK FALSE
INVARIANTS GoodSnapshotKept CapturesProject BackupHoldsOriginal RoundTrip CurrentIsThere
