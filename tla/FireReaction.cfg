SPECIFICATION FairSpec
CONSTANTS
    u1 = u1  u2 = u2  u3 = u3
    a1 = a1
    c1 = c1  c2 = c2  c3 = c3
    t1 = t1  t2 = t2
    Users = {u1, u2, u3}
    Arguments = {a1}
    Comments = {c1, c2, c3}
    Txs = {t1, t2}
    Author <- MCAuthor
    ArgOf <- MCArgOf
    Creator <- MCCreator
    InitialComments = {c1, c2}
    InitialScore = 30
    MaxRequests = 4
CHECK_DEADLOCK FALSE
INVARIANTS TypeOK LedgerReconciles AllOrNothing PayoutsBounded
PROPERTIES Answered SettlesAtomically
