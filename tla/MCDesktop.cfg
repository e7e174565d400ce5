\* Two runs of the program, two keys, two microphones (the name of one is cut
\* after a space), three environments; two presses of the hotkey.
SPECIFICATION Spec
CONSTANTS
    m1 = m1
    Keys = {k1, k2}
    Mics = {m1, m2}
    Padded = {m2}
    Default = Default
    Gone = Gone
    DefaultKey = k1
    Environments <- MCEnvironments
    Positions = {0}
    Volumes = {200}
    MaxPresses = 2
    MaxAsks = 2
    MaxEdits = 1
    MaxPlugs = 1
    MaxRuns = 2
INVARIANTS
    TypeOK
    CopiesAgree
    KeptSettings
PROPERTIES
    SaveOnlyEdits
    ExitIsHeard
\* The program has ended and is not run again.
CHECK_DEADLOCK FALSE
