SPECIFICATION Spec
CONSTANTS
    Freqs = {1, 2}
    Modes = {11, 12}
    ModeOf <- MCModeOf
    FreqOnly = FALSE
    Manual = FALSE
    MaxQueue = 2
    MaxFaults = 1
    MaxChanges = 1
INVARIANTS TypeOK KeyedAsKnown OffRestores
