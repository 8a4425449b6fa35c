SPECIFICATION FairSpec
CONSTANTS
    r1 = r1  r2 = r2  out = out  a = a  b = b
    Requests = {r1, r2, out}
    Logouts = {out}
    Users = {a, b}
    Guest = Guest  NoToken = NoToken  NoCookie = NoCookie
    MaxSignIns = 2
INVARIANTS TypeOK QueueHasRefresher TokenOfUser ActsForIssuer
PROPERTY Settles
CHECK_DEADLOCK FALSE
