\* One handle, File::create may fail: a retried add compares with the copy
\* the failed call already changed.
CONSTANTS
    i1 = i1
    i2 = i2
    r1 = r1
    r2 = r2
    NONE = NONE
    CORRUPT = CORRUPT
    Instances <- MCOneInstance
    Aliases <- MCAliases
    Kinds <- MCKinds
    WriteFaults = {"create"}

SYMMETRY MCSymmetry
SPECIFICATION Spec
INVARIANT AnswersTruthful
