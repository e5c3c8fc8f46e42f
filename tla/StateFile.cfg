\* Saves and loads by three threads, with crashes and full disks.
SPECIFICATION Spec
CONSTANTS
    fresh = fresh
    traded = traded
    stopped = stopped
    Procs = {p1, p2}
    Docs = {fresh, traded, stopped}
    Empty = fresh
    Size <- MCSize
    Inodes = {i1, i2, i3, i4}
    NoFile = NoFile
    NoDoc = NoDoc
    Unknown = Unknown
SYMMETRY Symmetry
INVARIANTS
    TypeOK
    CleanFileIsLastSave
PROPERTY ImplementsRegister
