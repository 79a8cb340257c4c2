CONSTANTS
    a1 = a1
    a2 = a2
    small = small
    large = large
    Actors <- MCActors
    Commands <- MCCommands
    Machines <- MCMachines
    Memory <- MCMemory
    Resources <- MCResources
    Overrides <- MCOverrides
    Requests <- MCRequests
    Bases <- MCBases
    MaxEvents = 2
    Broken = Broken
    None = None
SPECIFICATION Spec
INVARIANTS TypeOK AskSafe LimitsChosen TunedMeasured
