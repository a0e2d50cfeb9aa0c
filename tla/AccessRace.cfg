CONSTANTS
    u1 = u1
    u2 = u2
    g1 = g1
    r1 = r1
    w1 = w1
    w2 = w2
    Users = {u1, u2}
    Groups = {g1}
    Resources = {r1}
    Special = {}
    Workers = {w1, w2}
SPECIFICATION Spec
INVARIANT RevokedAtOnce
CHECK_DEADLOCK FALSE
