\* Safety and liveness: two goroutines, two clusters of which one may never answer a
\* dial, three dials.
CONSTANTS
    c1 = c1
    c2 = c2
    u1 = u1
    u2 = u2
    n1 = n1
    n2 = n2
    n3 = n3
    Callers = {c1, c2}
    URLs = {u1, u2}
    Conns = {n1, n2, n3}
    None = None
SPECIFICATION SlowDial
INVARIANTS IInv NoLeak SingleConnection
PROPERTIES Implements OtherClustersServed
