\* A Linux thread may use STOP.
SPECIFICATION Spec
CONSTANTS
    Slots = 4
    MaxPid = 4
    NativeThreads = {"stop"}
VIEW View
INVARIANT CallerSurvivesStop
