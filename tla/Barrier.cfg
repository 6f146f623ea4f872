CONSTANTS
    Participant = {p1, p2, p3}
    MaxRounds = 3
SPECIFICATION Spec
INVARIANTS BarrierInv
PROPERTIES IsBarrier
