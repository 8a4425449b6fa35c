SPECIFICATION Spec
CONSTANTS
    u1 = u1  u2 = u2  u3 = u3
    a1 = a1
    c1 = c1  c2 = c2  c3 = c3
    t1 = t1  t2 = t2
    Users = {u1, u2, u3}
    Arguments = {a1}
    Comments = {c1, c2, c3}
    Txs = {t1}
    Author <- MCAuthor
    ArgOf <- MCArgOf
    Creator <- MCCreator
    InitialComments = {c1}
    InitialScore = 1
    MaxRequests = 7
CHECK_DEADLOCK FALSE
INVARIANTS NoMissedConsensus ConsensusOnce
PROPERTY FollowsTheRule
