\* Files of five nodes or of three cells, nine pages, one NVMe controller with
\* queues of two entries, two AHCI ports, three USB ports.
SPECIFICATION MCSpec
CONSTANTS
    Name = {a, b}
    Handle = {h1}
    Value = {1}
    Unit = 2
    Limits <- Small
    Closed = Closed
    Blank = Blank
    Managed = {3, 9}
    Split = 4
    MaxOrder = 2
    Entries = 2
    Cids = 2
    Ports = 2
    DmaPage = {1, 2, 3, 4, 5, 6}
    Sector = {s, t}
    Zero = Zero
    None = None
    D = 3
    Kinds = {"keyboard", "mouse", "hub"}
SYMMETRY Symmetry
VIEW Fingerprint
INVARIANTS FilesSound MemorySound NoStrayDma 
PROPERTIES FilesPromise AnswersTrue
CHECK_DEADLOCK FALSE
