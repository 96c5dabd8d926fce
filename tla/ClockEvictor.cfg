\* Four frames: two turns of the hand, wrap-around, and several frames with
\* and without a second chance at once.
CONSTANTS
    pool_size = 4
    None = None
    Unit = Unit
SPECIFICATION Spec
INVARIANTS
    SizeExact
    NoStarvation
PROPERTIES
    SecondChanceHonoured
    ImplementsEvictor
    SweepIsLoop
