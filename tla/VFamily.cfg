CONSTANTS
    Machines <- MCMachines
    Commands <- MCCommands
    APIArgs <- MCAPIArgs
SPECIFICATION Spec
INVARIANT FamilyKept
