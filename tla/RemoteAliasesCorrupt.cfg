\* One handle, the serialisation may fail after File::create truncated
\* the file.
CONSTANTS
    i1 = i1
    i2 = i2
    r1 = r1
    r2 = r2
    NONE = NONE
    CORRUPT = CORRUPT
    Instances <- MCOneInstance
    Aliases <- MCAliases
    Kinds <- MCKinds
    WriteFaults = {"write"}

SYMMETRY MCSymmetry
SPECIFICATION Spec
INVARIANT ConfigReadable
