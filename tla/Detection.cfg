SPECIFICATION Spec
CONSTANTS
    Cameras = {c1, c2}
    Detectors = {d1, d2}
    None = None
    Killed = Killed
    Recovers = TRUE
    MaxFrames = 2
INVARIANTS
    TypeOK
    CleanReadsCurrent
PROPERTY
    ServedUnlessLocked
