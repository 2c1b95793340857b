------------------------------ MODULE MCSched ------------------------------
EXTENDS Sched, TLC

CONSTANTS idle, shell, worker, c1, c2, r1, r2, o1

\* The code's priorities are 16 for idle, 2 for the shell, 4 for the worker and 8
\* and 4 for the dummy tasks; smaller powers of two in the same order keep the
\* keys few.
MCPriority ==
  [t \in CfsTasks |-> CASE t = Idle -> 4 [] t = Shell -> 1 [] t = c1 -> 2 [] OTHER -> 2]

\* One priority for everybody, for the runs that are not about the keys.
MCEqual == [t \in CfsTasks |-> 1]
=============================================================================
