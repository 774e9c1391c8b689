\* Four slots; after pid 4 comes pid 2; Linux programs may WAIT.
SPECIFICATION Spec
CONSTANTS
    Slots = 4
    MaxPid = 4
    NativeThreads = {"wait"}
VIEW View
CONSTRAINT FewSleepers
INVARIANTS WaitersWillWake GroupsCounted ParentsUndead PidsUnique StackUnderFoot
PROPERTY UnclaimedKept
