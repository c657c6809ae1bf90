-------------------------- MODULE MCThreadRegistry --------------------------
(* Three handles, one of which callers also register by its id; the array  *)
(* holds two, so that it is full while a third handle still asks to join.  *)
EXTENDS ThreadRegistry, TLC

CONSTANTS t1, t2, t3

MCThreads == {t1, t2, t3}
MCById == {t3}
MCReaders == {t1}
=============================================================================
