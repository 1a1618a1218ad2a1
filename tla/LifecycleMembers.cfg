SPECIFICATION Spec
CONSTANTS
    Cameras = {c1}
    Ids = {o1}
    Media = {clip}
    Details = {d1}
    States = {s1}
    None = None
    MaxEvents = 2
    QueueSize = 1
    Ops = {"toggle", "add", "remove", "resize"}
    MaxOps = 3
PROPERTIES
    LostIsForgotten
    SeenOffEndsObjects
CHECK_DEADLOCK FALSE
