CONSTANTS
    old = old
    new = new
    Procs = {"first"}
    Listens = {old, new}
    UserSettings <- Everywhere
    MaxLaunches = 2
    MaxChanges = 2
    ProxyFaults = {"crash", "snapshotError", "readStateError", "writeStateError", "applyError", "broadcastError", "removeStateError"}

SPECIFICATION SysSpec

INVARIANTS
    SysTypeOK
    RecoveryPossible
    NeverRemembersItself
    SettingsNeverLost
    SettingsRestored

SYMMETRY ListenSymmetry

CHECK_DEADLOCK FALSE
