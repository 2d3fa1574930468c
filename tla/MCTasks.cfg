SPECIFICATION Spec
CONSTANTS
    Threads = {t1, t2}
    Workers = {w1, w2}
    MaxTasks = 4
    MaxHistory = 1
    NoTask = NoTask
SYMMETRY Symmetry
INVARIANTS WorkIsKept WokenSeesEnd HistoryBound
