\* One failed disk operation.
CONSTANTS
    t1 = t1  t2 = t2  t3 = t3  t4 = t4
    f1 = f1  f2 = f2
    p1 = p1  p2 = p2  p3 = p3
    v1 = v1  v2 = v2
    Threads <- TwoThreads
    Frames <- OneFrame
    Pages <- TwoPages
    Existing <- TwoPages
    Values <- TwoValues
    Initial = v1
    Zero = Zero  Absent = Absent  Unwritten = Unwritten
    NoThread = NoThread  NoFrame = NoFrame  NoPage = NoPage
    MaxOps = 2
    MaxFaults = 1
    Preemptive = FALSE
SPECIFICATION Spec
CHECK_DEADLOCK FALSE
INVARIANTS
    ChannelsInFlight
