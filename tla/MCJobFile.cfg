\* A port that fits an int, every shape of the other keys.
SPECIFICATION Spec
CONSTANTS
    Ips <- Addresses
    INT <- Int18
    Ports <- PortsOfAnInt
    NameSizes <- Sizes
    Entries = {"a", "b"}
    Other = Other
    Missing = Missing
    MAX_FILES = 3
INVARIANTS
    VerdictExact
    PathsListed
