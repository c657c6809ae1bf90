------------------------- MODULE MCCallstackSignal -------------------------
(* Three threads: two that may call, and one that is only asked.           *)
EXTENDS CallstackSignal, TLC

CONSTANTS t1, t2, t3

MCThreads == {t1, t2, t3}
MCTwoThreads == {t1, t2}
MCNobody == {}
MCCallers == Permutations(MCTwoThreads)
=============================================================================
