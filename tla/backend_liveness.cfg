CONSTANTS
    p1 = p1
    Peers = {p1}
    Modes = {"Tun", "Proxy"}
    Searches = {}
    MaxInputs = 2
    MaxSession = 2
    MaxPipe = 1
    MaxEvents = 1
    Builds = {"Linux", "Windows"}
    Faults = {"launchError", "workerCrash", "startError", "capabilityError", "peerError", "closeTimeout", "guiCrash"}

SPECIFICATION GuiFairSpec

PROPERTIES
    ShutdownCompletes
    LifecycleResolved
    OrphansExit

CHECK_DEADLOCK FALSE
