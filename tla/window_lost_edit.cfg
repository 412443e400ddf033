CONSTANTS
    p1 = p1
    Peers = {p1}
    Modes = {"Tun"}
    Searches = {}
    MaxInputs = 3
    MaxSession = 2
    MaxPipe = 0
    MaxEvents = 0
    Builds = {"Linux"}
    Faults = {}
    InitialConfigs <- Config

SPECIFICATION AppSpec

INVARIANTS
    PeersAlwaysAgree

CHECK_DEADLOCK FALSE
