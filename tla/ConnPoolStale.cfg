\* A flight joined late returns a connection that is already closed.
CONSTANTS
    c1 = c1
    c2 = c2
    c3 = c3
    u1 = u1
    n1 = n1
    n2 = n2
    Callers = {c1, c2, c3}
    URLs = {u1}
    Conns = {n1, n2}
    None = None
SPECIFICATION HSpec
PROPERTIES NeverReturnsClosed
