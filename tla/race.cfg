SPECIFICATION RaceFairSpec
CONSTANTS
    A = A
    B = B
    shell = shell
    kworker = kworker
    None = None
    Tasks <- MCTasks
    Worker = kworker
    Slice <- MCSlice
    DefaultSlice = 2
    Timeout = 12
    Sleepers = {A, shell}
    Attachments <- MCAttachments
    RaceA = A
    RaceB = B
INVARIANTS
    TypeOK
    ProportionalShare
    WaitBound
    NoFalseStall
    StallNoticed
PROPERTIES
    DroppedTaskRecovers
CHECK_DEADLOCK FALSE
