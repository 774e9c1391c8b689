\* Three users for two accounts; after two failures a wait of 1, 2 and 3 ticks.
SPECIFICATION Spec
CONSTANTS
    Names = {u1, u2, u3}
    Passwords = {right, wrong}
    NoOne = NoOne
    MaxAccounts = 2
    FreeFailures = 2
    MaxFailures = 4
    BaseDelay = 1
    MaxDelay = 3
SYMMETRY Alike
INVARIANTS AccountsSound JobStillAuthorized OnlySessionProcesses
    Published GuessesDelayed
PROPERTIES ProvenSession EstablishedKept
