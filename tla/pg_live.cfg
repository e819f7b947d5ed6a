CONSTANTS
    a = a
    b = b
    Items = {a}
    Digests = {d1}
    Openings <- Single
    MaxItems = 1
    TimeLimit = 1
    MaxTime = 2
    Clients = {c1, c2}
    Spellings = {s1}
SPECIFICATION FairSpec
PROPERTIES EveryCallReturns
