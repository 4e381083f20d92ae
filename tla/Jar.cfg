CONSTANTS
    MaxTag = 4
    Renamed = 3
SPECIFICATION Spec
INVARIANTS TypeOK RunFits
