\* Two runs send up to three files over links that break to a server that corrupts them.
SPECIFICATION Spec
CONSTANTS
    p1 = p1
    p2 = p2
    p3 = p3
    n1 = n1
    n2 = n2
    f1 = f1
    f2 = f2
    f3 = f3
    Procs = {p1, p2}
    Names = {n1}
    Paths = {f1, f2, f3}
    FileNames = {f1, f2}
    FileName <- SharedNames
    FileLists <- SharedLists
    MAX_CRC_ATTEMPTS = 4
    Faults = {"config", "crash", "file", "link", "corrupt"}
SYMMETRY RunSymmetry
INVARIANTS
    Lockstep
    VerifiedIntact
    KeptUnlessReplaced
PROPERTY PromiseKept
