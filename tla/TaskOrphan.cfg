\* A Linux thread may spawn a native child.
SPECIFICATION Spec
CONSTANTS
    Slots = 4
    MaxPid = 4
    NativeThreads = {"spawn"}
VIEW View
INVARIANT ParentsUndead
