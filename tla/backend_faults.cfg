CONSTANTS
    p1 = p1
    Peers = {p1}
    Modes = {"Tun", "Proxy"}
    Searches = {1}
    MaxInputs = 2
    MaxSession = 2
    MaxPipe = 1
    MaxEvents = 1
    Builds = {"Linux", "Windows"}
    Faults = {"launchError", "workerCrash", "startError", "capabilityError", "peerError", "closeTimeout", "guiCrash"}

SPECIFICATION Spec

INVARIANTS
    TypeInv
    AnnouncementTruthful

PROPERTIES
    StatusOnlyWhileRunning
    LifecycleSafe

CHECK_DEADLOCK FALSE
