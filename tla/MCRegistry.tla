----------------------------- MODULE MCRegistry -----------------------------
EXTENDS Registry, TLC

CONSTANTS a1, a2, k1, k2, k3, h1, h2, d1, d2, d3, p1, p2, p3, t1

\* The users are on the boundary of the lower level.
AtLevel == [a \in Apps |-> 50]

Sym == Permutations({a1, a2}) \cup Permutations({h1, h2})
       \cup Permutations({p1, p2, p3})
=============================================================================
