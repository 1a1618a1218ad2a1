SPECIFICATION Spec
CONSTANTS
    Null = Null
    MaxSearch = 2
    MaxMotion = 1
    Images = {"i1", "i2", "i3"}
    Categories = {"a", "none"}
    Waiting = {"i2"}
    Coming = {"i3"}
    First = "a"
    SaveAttempts = 1
    MinClasses = 1
    MaxLibrary = 4
    LiveCameras = {"c1", "c2"}
    FirstCamera = "c1"
    MaxEvents = 2
    MaxLive = 3
    MaxLiveElse = 1
    MaxTold = 2
INVARIANTS
    TypeOK
    SearchIsOwn
    ZonesAgree
    LibraryAgrees
    DashboardAgrees
    FootageFollows
CHECK_DEADLOCK FALSE
