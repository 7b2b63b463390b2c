CONSTANTS
    i1 = i1  i2 = i2  j1 = j1  j2 = j2  e1 = e1  d1 = d1  d2 = d2  t1 = t1
    Idea = {i1, i2}
    Job = {j1, j2}
    Editor = {e1}
    Digest = {d1, d2}
    Title = {t1}
    MaxBody = 2
    MaxClock = 6
    SharedBody = 1
    SharedClock = 5
    Nothing = Nothing
SYMMETRY Symmetry
SPECIFICATION Spec
CONSTRAINT Focus
INVARIANT CurrentUnlessRaced
PROPERTY PageNeverRegresses
CHECK_DEADLOCK FALSE
