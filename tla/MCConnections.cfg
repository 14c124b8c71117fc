\* Three places, two for a host.
CONSTANTS
    Conn <- Conns
    IP <- Hosts
    HostOf <- HostsOf
    Thread = {"reader", "writer"}
    MaxMiners = 3
    MaxMinersPerIP = 2
SPECIFICATION FairSpec
INVARIANTS
    CountsAreExact
    WithinLimits
PROPERTIES
    PlaceIsFreed
