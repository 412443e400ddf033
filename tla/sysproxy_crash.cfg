CONSTANTS
    old = old
    new = new
    Procs = {"first"}
    Listens = {old, new}
    UserSettings <- OnGSettings
    MaxLaunches = 3
    MaxChanges = 2
    ProxyFaults = {"crash", "race"}

SPECIFICATION SysSpec

INVARIANTS
    BlameJustified

CHECK_DEADLOCK FALSE
