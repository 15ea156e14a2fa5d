SPECIFICATION Spec
CONSTANTS
    Procs = {p1, p2, p3}
    Inodes = {i1, i2, i3, i4}
    None = None
SYMMETRY MCSymmetry
INVARIANTS TypeOK Exclusive NotPhantom HolderNamed
PROPERTIES IsLock
