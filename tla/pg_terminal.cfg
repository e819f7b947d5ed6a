CONSTANTS
    a = a
    b = b
    Items = {a, b}
    Digests = {d1, d2}
    Openings <- Pairs
    MaxItems = 2
    TimeLimit = 1
    MaxTime = 2
    Clients = {c1, c2}
    Spellings = {s1, s2}
SPECIFICATION Spec
PROPERTIES TerminalIsFinal
