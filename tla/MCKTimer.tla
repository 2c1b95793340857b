------------------------------ MODULE MCKTimer ------------------------------
EXTENDS KTimer, TLC

CONSTANTS st, r1, r2, o1, o2, o3, p1, p2, p3

Ring2 == <<o1, o2>>
Ring3 == <<o1, o2, o3>>
TwoIntervals == [n \in RtTimers |-> IF n = r1 THEN 5 ELSE 7]
AnySleeper == Permutations(Sleepers)
=============================================================================
