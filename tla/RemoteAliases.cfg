\* One handle at a time per dataset, with write_config failing at the
\* create or half-way through the write; the caller re-obtains the handle.
CONSTANTS
    i1 = i1
    i2 = i2
    r1 = r1
    r2 = r2
    NONE = NONE
    CORRUPT = CORRUPT
    Instances <- MCOneInstance
    Aliases <- MCAliases
    Kinds <- MCKinds
    WriteFaults = {"create", "write"}

SYMMETRY MCSymmetry
SPECIFICATION Spec
INVARIANT TypeOK
INVARIANT AcknowledgedChangesDurable
