--------------------------- MODULE MCTermination ---------------------------
(* Two threads that may fail, one of which installs the handlers.          *)
EXTENDS Termination

CONSTANTS t1, t2

MCThreads == {t1, t2}
MCAnywhere == Labels
=============================================================================
