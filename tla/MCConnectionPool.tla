--------------------------- MODULE MCConnectionPool ---------------------------
(* A small instance of ConnectionPool for TLC: the threads are model values  *)
(* that nothing tells apart, so permuting them is a symmetry.                *)
EXTENDS ConnectionPool, TLC

CONSTANTS t1, t2, t3

MCThreads == {t1, t2, t3}

ThreadSymmetry == Permutations(MCThreads)
===============================================================================
