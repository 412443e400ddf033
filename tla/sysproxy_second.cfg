CONSTANTS
    old = old
    new = new
    Procs = {"first", "second"}
    Listens = {old, new}
    UserSettings <- OnGSettings
    MaxLaunches = 3
    MaxChanges = 2
    ProxyFaults = {"race"}

SPECIFICATION SysSpec

INVARIANTS
    OnlyStaleRecovered

CHECK_DEADLOCK FALSE
