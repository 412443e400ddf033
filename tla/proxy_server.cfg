CONSTANTS
    Clients = {"first", "second"}
    Silent = {"second"}
    MaxStarts = 2
    ServerFaults = {"bindError", "acceptError", "enableError", "verifyError", "restoreError", "closeTimeout"}

SPECIFICATION ProxyFairSpec

INVARIANTS
    ProxyTypeOK
    EndpointFreed
    DesktopServed
    AnswersTruthful
    StreamInOrder
    OverlayStaysInside

PROPERTIES
    CloseEnds

CHECK_DEADLOCK FALSE
