SPECIFICATION Spec
CONSTANTS
    Threads = {t1, t2, t3, t4}
    Values = {a, b}
    None = None
    N = 2
INVARIANTS
    TypeOK
    NoLostWakeup
    AbortReleases
    NotBothSidesStuck
PROPERTIES
    IsChannel
    Serves
