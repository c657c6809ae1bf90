---------------------------- MODULE MCStackEntry ----------------------------
(* Names of functions: every sort of argument, alone and in pairs, every   *)
(* duration, and make_shared of every type that is no duration.            *)
EXTENDS StackEntry

Number == Plain("int")
Text == StringOf("char", "__cxx11::")
Pair == LET p == <<"std::pair", "<", "int", ",", " ", "int", ">">> IN Name(p, p, 0, FALSE)

Types == {Number, Pair, Text, StringOf("wchar_t", "__1::"), StringOf("char16_t", "__cxx11::"),
          VectorOf(Number), VectorOf(Text), VectorOf(VectorOf(Number))}
Spans == {DurationOf(rep, u) : rep \in {"int", "long"}, u \in DOMAIN Ratio}
Lists == {<<>>} \union {<<t>> : t \in Types \union Spans} \union {<<t, s>> : t, s \in Types}

MCSymbols ==
  {FunctionOf(l) : l \in Lists}
    \union {SleepOf(rep, u) : rep \in {"int", "long"}, u \in DOMAIN Ratio}
    \union {MakeSharedOf(t, l) : t \in Types, l \in {k \in Lists : Len(k) < 2}}
MCMakeShared == {MakeSharedOf(Number, l) : l \in {<<>>, <<Text>>}}
MCWidths == {2, 3, 5, 25}
=============================================================================
