\* Two names of one block, three blocks, two values, generations modulo 4.
SPECIFICATION Spec
CONSTANTS
    File = {f1, f2}
    LastLogical = 0
    Block = {b1, b2, b3}
    Value = {u, v}
    Zero = Zero
    Junk = Junk
    Hole = Hole
    Absent = Absent
    Blank = Blank
    Clean = Clean
    M = 4
    ReadFaults = FALSE
SYMMETRY Symmetry
VIEW View
INVARIANTS TypeOK BodyBeforeHeader RootsOneSaveApart CrashReady
PROPERTIES CommittedRootsUntouched CopyOnWrite Promise
