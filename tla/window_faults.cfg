CONSTANTS
    p1 = p1
    Peers = {p1}
    Modes = {"Tun", "Proxy"}
    Searches = {}
    MaxInputs = 4
    MaxSession = 3
    MaxPipe = 0
    MaxEvents = 0
    Builds = {"Linux", "Windows"}
    Faults = {"launchError", "workerCrash", "startError", "capabilityError", "peerError", "closeTimeout", "guiCrash"}
    InitialConfigs <- Config

SPECIFICATION AppSpec

INVARIANTS
    SessionInv
    OneTunnel
    StoppedMeansDown
    SwitchTruthful
    WindowAgrees
    PeersAgree
    ModeAgrees
    EndIsReported
    AbandonedLinksEnd

CHECK_DEADLOCK FALSE
