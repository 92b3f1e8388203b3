\* spec.md 7: a failing promote returns an error, it does not crash.
CONSTANTS
    a1 = a1  r1 = r1  r2 = r2  w1 = w1  w2 = w2
    Absent = Absent  NoItem = NoItem
    Amis <- MCAmis
    RIds <- MCRIds
    Workers <- MCWorkers
    InitCreated <- MCInitCreated
    PageSize = 1
    MaxTime = 4
SPECIFICATION Spec
SYMMETRY WorkerSymmetry
INVARIANTS
    PromoteNeverPanics
