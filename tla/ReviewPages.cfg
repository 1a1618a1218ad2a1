SPECIFICATION Spec
CONSTANTS
    Null = Null
    Segs = {"a1", "a2", "d1"}
    Detections = {"d1"}
    Unbegun = {"a2"}
    Jobs = {"j1", "j2"}
    CaseJobs = {"j2"}
    Cams = {"a", "b"}
    SeenLastHour = {"a"}
    SeenAround = {"b"}
    Events = {"e1", "e2"}
    Second = {"e2"}
    MaxReview = 2
    MaxExports = 1
    MaxWaiting = 2
    MaxFields = 1
    MaxDetails = 2
INVARIANTS
    TypeOK
    
    ExportsAgree
    DetailsAgree
CHECK_DEADLOCK FALSE
