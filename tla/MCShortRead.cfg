\* A file that is cut short while it is read.
SPECIFICATION Spec
CONSTANTS
    Contents <- Versions
    Rewritten <- NewVersion
    Absent = Absent
    Zero = 0
    BLOCK = 16
    MAX_CHANGES = 1
    LongBits = {32}
INVARIANT FullContentRead
