SPECIFICATION Spec
CONSTANTS
    Size = 3
    Lengths = {1, 2}
    Resetters = {z1, z2}
    z1 = z1
    z2 = z2
    MaxWritten = 5
    MaxResets = 2
INVARIANT TypeOK
PROPERTIES ImplementsFifo RefusesOnlyWhenItMust
