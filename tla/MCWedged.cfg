\* Three runs in one directory, started at any time and killed at any time.
SPECIFICATION OverlapSpec
CONSTANTS
    p1 = p1
    p2 = p2
    p3 = p3
    n1 = n1
    n2 = n2
    f1 = f1
    Procs = {p1, p2, p3}
    Names = {n1}
    Paths = {f1}
    FileNames = {f1}
    FileName <- OwnNames
    FileLists <- NoFiles
    MAX_CRC_ATTEMPTS = 1
    Faults = {}
SYMMETRY RunSymmetry
INVARIANT BadCredentialsReplaced
