SPECIFICATION Spec
CONSTANTS
    Tapes = {t1, t2}
    Files = {f1}
    CopyNbs = {n1, n2}
    Clients = {c1, c2}
    MaxFSeq = 2
    MaxWrites = 3
    MaxOps = 3
SYMMETRY Symmetry
INVARIANTS RowsAreTrue RecycledAreTrue OneRowPerCopy
PROPERTY EntryPerDeletedFile
CHECK_DEADLOCK FALSE
