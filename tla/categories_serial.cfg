SPECIFICATION Spec
CONSTANTS
    Root = Root
    Absent = Absent
    Gone = Gone
    Miss = Miss
    Categories = {a, b, c, d}
    Workers = {w1}
    MaxFailures = 0
INVARIANTS
    TypeOK
    TreeIsWhole
    TraversalsMeetAll
    CurrentBetweenRequests
