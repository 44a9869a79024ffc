\* A port that an int cannot hold.
SPECIFICATION Spec
CONSTANTS
    Ips <- Addresses
    INT <- Int18
    Ports <- PortsBeyond
    NameSizes <- Sizes
    Entries = {"a", "b"}
    Other = Other
    Missing = Missing
    MAX_FILES = 2
INVARIANTS
    PortValidated
