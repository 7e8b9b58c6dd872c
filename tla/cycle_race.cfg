SPECIFICATION Spec
CONSTANTS
    Root = Root
    Absent = Absent
    Gone = Gone
    Miss = Miss
    Categories = {a, b}
    Workers = {w1, w2}
    MaxFailures = 0
INVARIANTS
    TreeIsWhole
