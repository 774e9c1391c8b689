\* Three slots, under the fairness of the timer and of schedule.
SPECIFICATION FairSpec
CONSTANTS
    Slots = 3
    MaxPid = 3
    NativeThreads = {}
PROPERTY ReadyRuns
