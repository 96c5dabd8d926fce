\* More pages than frames and more threads than frames: evictions, reloads,
\* flushes in flight, full pools, and a disk operation that fails, after
\* which callers may wait forever. Unpinning is not interrupted.
CONSTANTS
    t1 = t1  t2 = t2  t3 = t3  t4 = t4
    f1 = f1  f2 = f2
    p1 = p1  p2 = p2  p3 = p3
    v1 = v1  v2 = v2
    Threads <- ThreeThreads
    Frames <- TwoFrames
    Pages <- ThreePages
    Existing <- TwoPages
    Values <- TwoValues
    Initial = v1
    Zero = Zero  Absent = Absent  Unwritten = Unwritten
    NoThread = NoThread  NoFrame = NoFrame  NoPage = NoPage
    MaxOps = 5
    MaxFaults = 1
    Preemptive = FALSE
SPECIFICATION Spec
SYMMETRY Symmetry
CHECK_DEADLOCK FALSE
INVARIANTS
    PinnedNotEvictable
    PinnedResident
    CoherentGuards
    InFlightExact
    NoPinLeak
PROPERTIES
    NoLostUpdate
    ImplementsPageStore
