\* Three runs share the disk, are killed and meet write errors; the server is honest.
SPECIFICATION Spec
CONSTANTS
    p1 = p1
    p2 = p2
    p3 = p3
    n1 = n1
    n2 = n2
    f1 = f1
    f2 = f2
    f3 = f3
    Procs = {p1, p2, p3}
    Names = {n1, n2}
    Paths = {f1}
    FileNames = {f1}
    FileName <- OwnNames
    FileLists <- NoFiles
    MAX_CRC_ATTEMPTS = 1
    Faults = {"crash", "disk"}
SYMMETRY RunSymmetry
INVARIANTS
    TypeOK
    KeyAgreement
    IdentityConsistent
    RunRecovers
 
