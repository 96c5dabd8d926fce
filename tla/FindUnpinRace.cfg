\* The code's own granularity: a thread is preempted between the decrement
\* of the pin count and the call of the evictor.
CONSTANTS
    t1 = t1  t2 = t2  t3 = t3  t4 = t4
    f1 = f1  f2 = f2
    p1 = p1  p2 = p2  p3 = p3
    v1 = v1  v2 = v2
    Threads <- ThreeThreads
    Frames <- OneFrame
    Pages <- TwoPages
    Existing <- TwoPages
    Values <- TwoValues
    Initial = v1
    Zero = Zero  Absent = Absent  Unwritten = Unwritten
    NoThread = NoThread  NoFrame = NoFrame  NoPage = NoPage
    MaxOps = 4
    MaxFaults = 0
    Preemptive = TRUE
SPECIFICATION Spec
CHECK_DEADLOCK FALSE
INVARIANTS
    PinnedNotEvictable
