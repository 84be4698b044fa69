SPECIFICATION FairSpec
CONSTANTS
    master = master
    school = school
    r1 = r1
    r2 = r2
    w1 = w1
    w2 = w2
    Keys = {master, school}
    Readers = {r1, r2}
    Writers = {w1, w2}
    MaxWrites = 2
    Empty = Empty
INVARIANTS
    TypeOK
    FreshUnlessExcused
PROPERTIES
    EventuallyFresh
