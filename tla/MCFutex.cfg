SPECIFICATION Spec
CONSTANTS
    Slots = 3
    Nobody = Nobody
    FD = {3, 4}
    Node = {1, 2}
    Signals = {10}
    MaxDepth = 2
    Workloads = {"files", "signals", "sync"}
    MaxSeq = 1
    Idle = 1
    MaxCuts = 2
 
PROPERTY EverybodyFinishes
