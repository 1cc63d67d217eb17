\* Two review pages, stale at will, against analyses, failing saves, a death of the
\* process in a save or between two, and starts.
SPECIFICATION Spec
CONSTANTS
    a = a
    b = b
    c = c
    p1 = p1
    p2 = p2
    Patterns = {a, b, c}
    Pages = {p1, p2}
    MaxFound = 2
    MaxChanges = 5
    MaxMishaps = 3
SYMMETRY Symmetry
INVARIANTS TypeOK NoDuplicateRules RulesAreSaved  IndicesStayGood
CHECK_DEADLOCK FALSE
