\* Three ticks over two minutes of the window and one outside, every fault.
SPECIFICATION FairSpec
CONSTANTS
    t1 = t1
    t2 = t2
    t3 = t3
    open = open
    later = later
    closed = closed
    NoTick = NoTick
    Ticks = {t1, t2, t3}
    Minutes = {open, later, closed}
    Window = {open, later}
    Faults = {"mkdtemp", "dump", "stat", "send", "answer", "cleanup", "crash"}
INVARIANTS
    OneRunPerMinute
    CompletedWasMailed
    DuplicatesNeedDoubt
    LeftoversNeedFault
PROPERTY TicksAnswered
