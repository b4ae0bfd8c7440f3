----------------------------- MODULE MCCallPath -----------------------------
\* Two connections of one process and one of another, under two service
\* principals.
EXTENDS CallPath
CONSTANTS p1, p2, c1, c2, k1, k2, k3, alice, bob
MCProcessOf == [k \in {k1, k2, k3} |-> IF k = k3 THEN p2 ELSE p1]
MCHomes == {[c \in {c1, c2} |-> IF c = c1 THEN k1 ELSE k] : k \in {k1, k2, k3}}
MCKeyOf == [p \in {p1, p2} |-> IF p = p1 THEN alice ELSE bob]
=============================================================================
