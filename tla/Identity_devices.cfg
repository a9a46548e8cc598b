SPECIFICATION FairSpec
CONSTANTS
    m1 = m1
    m2 = m2
    Machines = {m1, m2}
    NoRow = NoRow
    MaxUpsets = 2
    MaxResets = 1
    MaxFull = 1
INVARIANTS
    RowAgrees
PROPERTIES
    BarredStaysOut
    NamedIsRevoked
    HandleRevives
CHECK_DEADLOCK FALSE
