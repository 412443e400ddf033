CONSTANTS
    Protocols = {"tcp", "quic"}
    Defaults = {"tcp"}
    Addresses = {"reachable", "unprobed", "foreign"}
    ProtocolOf <- Scheme
    Listings <- TwoListings
    MaxProbes = 1
    MaxSearches = 3

SPECIFICATION DiscoverySpec

INVARIANTS
    DiscoveryTypeOK
    CacheTruthful
    DialogCurrent
    RefreshWaitsForOwnSearch
    FoundAsListed

PROPERTIES
    SearchAnswered

CHECK_DEADLOCK FALSE
