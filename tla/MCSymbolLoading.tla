-------------------------- MODULE MCSymbolLoading --------------------------
(* Two callers of getSymbols and clearSymbols and a thread that decodes    *)
(* addresses and runs commands of its own.                                 *)
EXTENDS SymbolLoading

CONSTANTS u1, u2, d1

MCUsers == {u1, u2}
MCDecoders == {d1}
=============================================================================
