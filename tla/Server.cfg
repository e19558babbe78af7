SPECIFICATION Spec
CONSTANTS
    Lives <- ThreeLives
    Slots = {s1, s2}
    NoView = NoView
    NoFile = NoFile
    OtherFile = OtherFile
    OldRequest = OldRequest
    NewRequest = NewRequest
    MaxRevision = 2
    MaxFailures = 1
INVARIANTS
    PermitsMatchTasks
    CleanStopKeepsAcknowledged
PROPERTIES
    EditsAreCurrent
    RequestsAreFresh
    RequestEnds
    AutosaveCatchesUp
CHECK_DEADLOCK FALSE
