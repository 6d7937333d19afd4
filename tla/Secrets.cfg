SPECIFICATION Spec
CONSTANTS
    Commands = {a, b}
    Keys = {k1, k2, k3}
    Foreign = foreign
    Workspace = ws
    Layers = {ws, defaults}
    Files = {f}
    Texts = {x, y}
    None = None
    Junk = Junk
    MaxCommands = 3
    MaxFaults = 1
SYMMETRY MCSymmetry
CHECK_DEADLOCK FALSE
INVARIANTS RecipientInstalled SealedKeysKept OneRecipient LatestValue ReaderOpens Resumable
