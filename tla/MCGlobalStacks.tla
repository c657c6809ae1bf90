-------------------------- MODULE MCGlobalStacks --------------------------
(* Two ranks that ask each other for their stacks, with one tag or two.    *)
EXTENDS GlobalStacks

CONSTANTS r1, r2, tagA, tagB

MCTwoRanks == {r1, r2}
MCOneTag == {tagA}
MCTwoTags == {tagA, tagB}
=============================================================================
