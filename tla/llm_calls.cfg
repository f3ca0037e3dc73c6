\* Every transport; Node's default mode, a turn timer that may be shorter than the
\* request timer.
CONSTANTS
    Calls = {c1, c2}
    None = None
    MaxDeltas = 1
    MaxPieces = 2
    ShortTurnTimeout = TRUE
    ThrowOnUnhandled = TRUE
    Transports = {"responses", "app-server", "claude"}
SPECIFICATION AdaptersFairSpec
CHECK_DEADLOCK FALSE
INVARIANTS
    TypeOK
    AdaptersTypeOK
    NothingStuck
    RacedTimeoutInterrupts
    ServerReaped
PROPERTIES
    ImplementsTransport
    CallsAreIsolated
    DirectCallsAnswer
    AdaptersSettle
