\* Two runs of a file with a server that may answer anything.
SPECIFICATION FairSpec
CONSTANTS
    p1 = p1
    p2 = p2
    p3 = p3
    n1 = n1
    n2 = n2
    f1 = f1
    f2 = f2
    f3 = f3
    Procs = {p1, p2}
    Names = {n1}
    Paths = {f1}
    FileNames = {f1}
    FileName <- OwnNames
    FileLists <- OneFile
    MAX_CRC_ATTEMPTS = 1
    Faults = {"faulty"}
PROPERTY Termination
