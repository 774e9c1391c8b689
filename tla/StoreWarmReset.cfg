\* The machine restarts while the drive keeps its cache.
SPECIFICATION WarmSpec
CONSTANTS
    File = {f1}
    LastLogical = 0
    Block = {b1, b2, b3}
    Value = {u, v}
    Zero = Zero
    Junk = Junk
    Hole = Hole
    Absent = Absent
    Blank = Blank
    Clean = Clean
    M = 4
    ReadFaults = FALSE
SYMMETRY Symmetry
VIEW View
INVARIANT MountedRootIsDurable
