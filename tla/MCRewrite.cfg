CONSTANTS
    Machines <- MCMachines
    Commands <- MCCommands
    APIArgs <- MCAPIArgs
SPECIFICATION Spec
INVARIANTS TypeOK FilesKept TargetFits TargetRuns ParamsKept
