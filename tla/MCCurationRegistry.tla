-------------------------- MODULE MCCurationRegistry --------------------------
EXTENDS CurationRegistry, TLC

CONSTANTS p1, p2, p3, c1, c2, s1, k1, k2, a, b

Of(k, v) == [key |-> k, value |-> v]

\* Two files in opposite orders, one that repeats a spelling.
SomeFiles ==
    {[project |-> c1, decisions |-> <<Of(k1, a), Of(k2, a)>>],
     [project |-> c1, decisions |-> <<Of(k2, b), Of(k1, b), Of(k2, a)>>],
     [project |-> c1, decisions |-> <<Of(k1, b)>>]}

Symmetry == Permutations({p1, p2})
================================================================================
