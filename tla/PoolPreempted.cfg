\* The code's own granularity, with a disk error and panics, from the start
\* and from a state that the unpin race leads to. After a failed read, and
\* for a channel that was replaced, callers wait forever: the pool may stop.
CONSTANTS
    t1 = t1  t2 = t2  t3 = t3  t4 = t4
    f1 = f1  f2 = f2
    p1 = p1  p2 = p2  p3 = p3
    v1 = v1  v2 = v2
    Threads <- FourThreads
    Frames <- TwoFrames
    Pages <- ThreePages
    Existing <- TwoPages
    Values <- TwoValues
    Initial = v1
    Zero = Zero  Absent = Absent  Unwritten = Unwritten
    NoThread = NoThread  NoFrame = NoFrame  NoPage = NoPage
    MaxOps = 4
    MaxFaults = 1
    Preemptive = TRUE
SPECIFICATION PreemptedSpec
SYMMETRY Symmetry
CHECK_DEADLOCK FALSE
INVARIANTS
    TypeOK
    
    PinsCoverHolders
    NoFrameLost
