--------------------------- MODULE MCDiscovery ---------------------------
EXTENDS Discovery

Scheme == [reachable |-> "tcp", unprobed |-> "quic", foreign |-> "http"]

Entry(address, region, up) == [address |-> address, region |-> region, up |-> up]

\* A peer that two regions list, one that is down in one of them, and an address
\* of no known scheme.
TwoListings ==
    {{Entry("reachable", "DE", TRUE), Entry("reachable", "FR", TRUE),
      Entry("foreign", "DE", TRUE)},
     {Entry("reachable", "SE", FALSE), Entry("reachable", "DE", TRUE),
      Entry("unprobed", "FR", TRUE)}}
=============================================================================
