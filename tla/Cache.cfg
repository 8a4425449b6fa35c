SPECIFICATION FairSpec
CONSTANTS
    u1 = u1  u2 = u2
    fire = fire  comment = comment  read = read  watch = watch  argument = argument
    r1 = r1  r2 = r2
    Users = {u1, u2}
    Keys <- MCKeys
    Readers = {r1, r2}
    Requests = {fire, comment, read, watch, argument}
    Kind <- MCKind
    Who <- MCWho
    Notified <- MCNotified
    NoKey = NoKey
    TTL = 1
CONSTRAINT Bounded
CHECK_DEADLOCK FALSE
INVARIANTS TypeOK StaleOnlyIf
PROPERTY Converges
