CONSTANTS
    Null = Null
    m1 = m1
    m2 = m2
    m3 = m3
    ElfModules = {m1, m2, m3}
    SmNames = {"a", "b"}
    MaxSms = 3
    MaxLoads = 3
    MaxFailures = 1
    DataEndRom <- RomStart
    StaticSymbols <- Puts
    DmemBases <- Slots
    Files <- MCFiles
    Existing <- Linked
SPECIFICATION Spec
SYMMETRY Symmetry
\* A run stops after MaxLoads loads, or when nothing is known any more.
CHECK_DEADLOCK FALSE
INVARIANTS
    TypeOK
    Owned
    NoOverlap
    RefsBound
    LayoutsKept
PROPERTIES
    TableSpec
