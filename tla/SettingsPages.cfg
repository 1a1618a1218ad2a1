SPECIFICATION Spec
CONSTANTS
    Null = Null
    MaxEdits = 2
    MaxSaves = 1
    MaxOthers = 1
    Zones = {"z1"}
    CameraNames = {"x", "y"}
    MaxClone = 4
    MaxManage = 3
    MaxWizard = 5
    MaxElse = 1
    MaxFaults = 1
INVARIANTS
    TypeOK
    SettingsAgree
    CamerasAgree
PROPERTIES
    DraftsSurvive
    SavingEnds
CHECK_DEADLOCK FALSE
