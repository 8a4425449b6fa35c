SPECIFICATION FairSpec
CONSTANTS
    l1 = l1  l2 = l2  l3 = l3  s1 = s1  c1 = c1  c2 = c2  c3 = c3
    Lists = {l1, l2, l3}
    Singles = {s1}
    Conns = {c1, c2, c3}
    Free = Free
    MaxRows = 2
INVARIANTS TypeOK ConnectionsReturned StarvedIff
PROPERTY AnsweredOrStarved
CHECK_DEADLOCK FALSE
