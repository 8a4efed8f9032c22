----------------------------- MODULE MCSelection -----------------------------
EXTENDS UNLSelection

\* A cutoff somebody misses, at most as many seats as validators but one, and
\* each of no gap, the smallest and one of two points.
MCRules == [cutoff : {1}, maxSize : 1 .. 3, minGap : 0 .. 2]
==============================================================================
