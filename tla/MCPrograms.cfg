\* A desktop with an application and its child; a program with three pages of
\* mappings beside another process, in thirteen pages; documents of up
\* to three characters, undo of two.
SPECIFICATION MCSpec
CONSTANTS
    desktop = desktop
    app = app
    child = child
    Procs = {desktop, app, child}
    Manager = desktop
    Nobody = Nobody
    Parent <- ParentOf
    KeyRoom = 3
    PointerRoom = 2
    Places = {1, 2}
    Slots = {s1, s2}
    Heights = {1, 2}
    EventRoom = 2
    MaxFrame = 3
    MaxSerial = 3
    Workloads <- All
    Inputs <- Sent
    Memory = {13}
    Levels = 3
    Fan = 2
    HeapMax = 1
    MapBase = 5
    VmaMax = 2
    MemoryMax = 3
    StackPages = 2
    Kinds = {"anon", "shared"}
    None = None
    Kernel = Kernel
    Width = 2
    PageRows = 2
    Depth = 2
    Works <- Documents
VIEW Fingerprint
INVARIANTS WholeFrames ClientsInformed InputKept
    SpacesSound EditorSound
PROPERTIES FailsWhole EditorPromise
