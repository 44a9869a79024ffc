\* Files of every kind, some of which change twice, at any moment.
SPECIFICATION Spec
CONSTANTS
    Contents <- AllBuffers
    Rewritten <- NewVersion
    Absent = Absent
    Zero = 0
    BLOCK = 16
    MAX_CHANGES = 2
    LongBits = {32, 64}
INVARIANTS
    TypeOK
    StableFileExact
    WholeBlocks
    IndexInTable
    RegisterIsRemainder
    IsPosixCksum
