\* Two requests at once, two reflections, of which a bundle looks at the newest or at both.
SPECIFICATION Spec
CONSTANTS
    None = None
    Callers = {c1, c2}
    Turns = {t1, t2}
    Advices = {a1, a2}
    Priorities = {2}
    HasClient = TRUE
    MaxItems = 2
    ListLimits = {1, 2}
    Patience = {TRUE, FALSE}
    MaxCreated = 2
    MaxRequests = 3
SYMMETRY Symmetric
CHECK_DEADLOCK FALSE
INVARIANTS
  MemoryRecordsAgree
PROPERTIES
  AdviceAndProofsStay
