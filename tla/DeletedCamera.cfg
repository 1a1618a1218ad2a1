SPECIFICATION Spec
CONSTANTS
    Cameras = {c1, c2}
    Ids = {o1}
    Media = {clip}
    Details = {d1}
    States = {s1}
    None = None
    MaxEvents = 2
    QueueSize = 1
    Ops = {"remove"}
    MaxOps = 1
INVARIANT
    ProcessorAlive
