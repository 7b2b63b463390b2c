CONSTANTS
    i1 = i1  i2 = i2  w1 = w1  w2 = w2  p1 = p1  d1 = d1  s1 = s1  s2 = s2
    Idea = {i1, i2}
    Emitter = {w1, w2}
    Pusher = {p1}
    Device = {d1}
    Slot = {s1, s2}
    FeedCap = 1
    FeedPage = 1
    MaxSeq = 2
    NoOne = NoOne
SPECIFICATION FairSpec
CONSTRAINT Focus
INVARIANTS RowsHaveOps CoversUnlessOvertaken
PROPERTY Delivered
