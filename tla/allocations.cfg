\* Two allocations, two handlers, crashes.
SPECIFICATION Spec
CONSTANTS
    Allocations = {a1, a2}
    Handlers = {h1, h2}
    Amount = 3
    Parts = {1, 2}
SYMMETRY Symmetry
INVARIANTS
    NeverOverAllocated
    UtilizationIsCurrent
    CompletedIsDated
CHECK_DEADLOCK FALSE
