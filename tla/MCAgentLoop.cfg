CONSTANTS
    PipeRoom = 1
    InRoom = 1
    ErrRoom = 1
    MaxResponse = 2
    MaxParts = 1
    MaxOut = 2
    MaxErr = 1
    MaxRequests = 2
    ExitCode = {256}
    Signal = {31}
SPECIFICATION NarrowRunSpec
INVARIANTS
    TypeOK
    Bounded
    EventsLive
    StdinClosedInTime
    WholeConversation
    RunsConfined
    ReportedTruly
PROPERTIES
    Finite
CHECK_DEADLOCK FALSE
