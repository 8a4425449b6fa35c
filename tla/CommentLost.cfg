SPECIFICATION Spec
CONSTANTS
    k1 = k1  k2 = k2  p1 = p1  p2 = p2  f1 = f1  f2 = f2  f3 = f3
    author = author  owner = owner  viewer = viewer
    NoMsg = NoMsg
    Conns = {k1, k2}
    Cap = 1
    Posts = {p1}
    Fires = {f1}
    FireUser <- MCFireUser
    UserId <- MCUserId
    Poster <- MCPoster
    Owner <- MCOwner
CHECK_DEADLOCK FALSE
INVARIANT SavedCommentsAreBroadcast
