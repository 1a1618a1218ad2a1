SPECIFICATION Spec
CONSTANTS
    Cameras = {c1}
    Ids = {o1, o2}
    Media = {clip}
    Details = {d1}
    States = {s1, s2}
    None = None
    MaxEvents = 2
    QueueSize = 1
    Ops = {"restart"}
    MaxOps = 1
SYMMETRY Symmetry
INVARIANTS
    TypeOK
    LiveIsInProcess
    OneEndPending
    ProcessorAlive
    InProcessIsTracked
PROPERTIES
    MqttInOrder
    ImplementsEventRecord
