SPECIFICATION Spec
CONSTANTS
    Cameras = {c1}
    Ids = {o1}
    Media = {clip, snapshot}
    Details = {d1, d2}
    States = {s1}
    None = None
    MaxEvents = 2
    QueueSize = 1
    Ops = {"media", "restart"}
    MaxOps = 3
PROPERTIES
    MediaNeverLost
    EndClosesRow
    LostIsClosed
