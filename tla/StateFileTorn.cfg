\* Two saves that overlap.
SPECIFICATION Spec
CONSTANTS
    fresh = fresh
    traded = traded
    stopped = stopped
    Procs = {p1, p2}
    Docs = {fresh, traded, stopped}
    Empty = fresh
    Size <- MCSize
    Inodes = {i1, i2, i3, i4}
    NoFile = NoFile
    NoDoc = NoDoc
    Unknown = Unknown
INVARIANT FileIsNeverTorn
