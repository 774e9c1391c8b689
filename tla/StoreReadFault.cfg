\* A sector of a slot is unreadable during one boot and readable in the next.
SPECIFICATION Spec
CONSTANTS
    File = {f1}
    LastLogical = 0
    Block = {b1, b2, b3}
    Value = {u, v}
    Zero = Zero
    Junk = Junk
    Hole = Hole
    Absent = Absent
    Blank = Blank
    Clean = Clean
    M = 4
    ReadFaults = TRUE
SYMMETRY Symmetry
VIEW View
PROPERTY CommittedRootsUntouched
