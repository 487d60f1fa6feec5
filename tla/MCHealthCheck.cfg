SPECIFICATION Spec
CONSTANTS
    Names <- MCNames
    Values <- MCValues
    OffValues = {"off"}
    BlankValues = {"blank"}
    Absent = "none"
    Junk = "junk"
    DefaultModels <- MCDefaultModels
    ConfigFiles <- MCConfigFiles
    Processes <- MCProcesses
    Registries <- MCRegistries
    MaxEdits = 1
INVARIANTS OneEnvironment OneProbePerModel VerdictsAreShared PolicyAgreesWithHealth
CHECK_DEADLOCK FALSE
