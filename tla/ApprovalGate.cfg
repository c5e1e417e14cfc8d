CONSTANTS
    c1 = c1
    c2 = c2
    Ops = {o1, o2}
    Callers = {c1, c2}
    None = None
    MaxRows = 3
SYMMETRY Symmetry
SPECIFICATION Spec
INVARIANTS PassesEarned AsksBounded
