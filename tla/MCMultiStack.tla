--------------------------- MODULE MCMultiStack ---------------------------
(* Frames of a program and of the code that acquires its stacks.  The      *)
(* addresses of the other process are shifted, their offsets are not.      *)
EXTENDS MultiStack

Frame(a, look) == [addr |-> a, off |-> a, obj |-> 1, look |-> look]
Elsewhere(f) == [f EXCEPT !.addr = @ + 100]
Shifted(s) == [i \in DOMAIN s |-> Elsewhere(s[i])]

A == Frame(1, "show")
B == Frame(2, "show")
C == Frame(3, "show")
Y == Frame(4, "show")
X == Frame(5, "hide")
W == Frame(6, "hide")
Z == Frame(7, "drop")
G == Frame(8, "cut")

MCLocal == {<<B, A>>, <<C, A>>, <<B, X, A>>, <<B, A, W>>, <<Z, X, A>>, <<C, G>>}
MCRemote == {Shifted(<<B, A>>), Shifted(<<C, X, A>>)}
MCAliased == {<<B, Y, X, A>>, <<C, Y, X, A>>, <<Z, X, A>>, <<A, W>>}
MCNoStacks == {}
=============================================================================
