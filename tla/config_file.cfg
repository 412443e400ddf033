CONSTANTS
    Rests = {"default", "edited"}
    DefaultRest = "default"
    MaxKeys = 3
    MaxEdits = 3
    ConfigFaults = {"saveError", "readError", "existsError", "crash", "powerLoss"}

SPECIFICATION ConfigSpec

INVARIANTS
    ConfigKept
    ShownIsSaved

CHECK_DEADLOCK FALSE
