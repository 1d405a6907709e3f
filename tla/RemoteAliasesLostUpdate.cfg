\* Two handles on one dataset, writes never fail: each writes back its
\* whole copy of the config.
CONSTANTS
    i1 = i1
    i2 = i2
    r1 = r1
    r2 = r2
    NONE = NONE
    CORRUPT = CORRUPT
    Instances <- MCTwoInstances
    Aliases <- MCAliases
    Kinds <- MCKinds
    WriteFaults = {}

SYMMETRY MCSymmetry
SPECIFICATION Spec
INVARIANT AcknowledgedChangesDurable
