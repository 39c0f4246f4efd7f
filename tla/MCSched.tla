------------------------------- MODULE MCSched -------------------------------
(* Model-checking instance of Sched: the idle thread, the main thread and  *)
(* one thread the others may create, join and wake.                        *)
EXTENDS Sched, TLC

CONSTANTS i, m, t1

MCThreads == {i, m, t1}

=============================================================================
