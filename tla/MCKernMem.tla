----------------------------- MODULE MCKernMem -----------------------------
EXTENDS KernMem, TLC

CONSTANTS t1, t2

\* Both contexts on one CPU, and one context on each CPU.
OneCpu == [t \in Contexts |-> 0]
TwoCpus == [t \in Contexts |-> IF t = t1 THEN 0 ELSE 1]

\* Any range of frames, and none.
AnyRange == {a..b : a \in Frames, b \in Frames}
EmptyRange == {{}}
EdgeRanges == {{}, {1}}

\* Which task is which makes no difference on one CPU.
Either == Permutations(Contexts)
=============================================================================
