--------------------------- MODULE FunctionNames ---------------------------
(***************************************************************************)
(* cleanupFunctionName of StackTrace.cpp: a demangled name is rewritten in *)
(* place, rule after rule, to one that can be read.                        *)
(*                                                                         *)
(* A name is a sequence of cells, each a piece of its text.  A word has as *)
(* many cells as it takes for each rule to make a name longer in cells     *)
(* exactly when it makes it longer in characters ("seconds" has three,     *)
(* "long" one, "nanoseconds" one).  The rules are those of the code for    *)
(* one unit of every kind; a group of rules that the code skips has none   *)
(* that would match, and the rules for string_view name nothing that       *)
(* exists (std::basic_std::string_view).                                   *)
(***************************************************************************)
EXTENDS TextReplace, SequencesExt

\* The first cell, from one on, where a pattern occurs, or 0 for npos.
First(text, pattern, from) ==
  LET n == Len(pattern)
      at == {i \in from .. Len(text) - n + 1 : SubSeq(text, i, i + n - 1) = pattern}
  IN  IF at = {} THEN 0 ELSE Min(at)

\* findMatching(): the cell of the > that closes the < at i, or the last cell.
Matching(text, i) ==
  LET Count(c, j) == Cardinality({k \in i .. j : text[k] = c})
      closed == {j \in i + 1 .. Len(text) : Count("<", j) = Count(">", j)}
  IN  IF closed = {} THEN Len(text) ELSE Min(closed)

\* strrep(): as long as old occurs, its first occurrence becomes new.
Strrep(text, old, new) ==
  LET all[t \in Seq(STRING)] ==
        LET at == First(t, old, 1)
        IN  IF at = 0 THEN t ELSE all[Replace(t, at - 1, Len(old), new)]
  IN  all[text]

Rule(old, new) == [old |-> old, new |-> new]
Rewrite(text, rules) ==
  FoldLeft(LAMBDA t, rule : Strrep(t, rule.old, rule.new), text, rules)

SpaceRules == <<Rule(<<" ", ">">>, <<">">>), Rule(<<"<", " ">>, <<"<">>)>>

\* std::ratio, by unit: one with a duration of its own, one without, the unit
\* itself, one that stays a ratio, and one without a rule.
Ratio == [nano |-> "std::ratio<1l, 1000000000l>", deci |-> "std::ratio<1l, 10l>",
          one |-> "std::ratio<1l, 1l>", minute |-> "std::ratio<60l, 1l>",
          third |-> "std::ratio<1l, 3l>"]
Named == [nano |-> <<"std::nano">>, deci |-> <<"std::deci">>, one |-> <<>>,
          minute |-> <<"std::ratio<60>">>, third |-> <<Ratio.third>>]
RatioRules ==
  SetToSeq({Rule(<<Ratio[u]>>, Named[u]) : u \in DOMAIN Ratio \ {"third"}}) \o SpaceRules

\* <rep, ratio> when the ratio is rewritten: <long,> for a ratio of one.
Count(rep, u) ==
  <<"<", rep, ",">> \o (IF u = "one" THEN <<>> ELSE <<" ">> \o Named[u]) \o <<">">>

Durations == [nano |-> <<"nanoseconds">>, one |-> <<"sec", "ond", "s">>,
              minute |-> <<"minutes">>]
DurationRules ==
  SetToSeq({Rule(<<"std::chrono::duration">> \o Count("long", u),
                 <<"std::chrono::">> \o Durations[u]) : u \in DOMAIN Durations})
  \o SpaceRules

\* First the parameter gets its short name, then it goes if the argument shows
\* it.  The rule for minutes looks for milliseconds, and finds nothing.
SleepRules ==
  LET Sleep(word) == <<"::sleep_for", "<">> \o word \o <<">">>
      Goes(u) == Rule(Sleep(Durations[u]) \o <<"(", "std::chrono::">> \o Durations[u],
                      <<"::sleep_for", "(", "std::chrono::">> \o Durations[u])
  IN  SetToSeq({Rule(<<"::sleep_for">> \o Count("long", u), Sleep(Durations[u])) :
                  u \in DOMAIN Durations})
      \o <<Goes("nano"), Goes("one"),
           Rule(Sleep(<<"milliseconds">>) \o <<"(", "std::chrono::", "minutes">>,
                <<"::sleep_for", "(", "std::chrono::", "milliseconds">>)>>

\* Variant: the closing bracket stays.
StringsShort(text) ==
  LET all[t \in Seq(STRING), from \in Nat] ==
        LET at == First(t, <<"std::", "basic_string", "<">>, from)
            close == Matching(t, at + 2)
        IN  IF at = 0 THEN t
            ELSE all[Replace(t, at - 1, close - at, <<"std::string">>), at + 1]
  IN  all[text, 1]

\* std::basic_string<...>.  strncmp( ..., "char", 4 ) comes first and holds for
\* char16_t and char32_t as well.
Strings(text) ==
  LET Alias(c) == IF c = "wchar_t" THEN <<"std::wstring">> ELSE <<"std::string">>
      all[t \in Seq(STRING), from \in Nat] ==
        LET at == First(t, <<"std::", "basic_string", "<">>, from)
            close == Matching(t, at + 2)
        IN  IF at = 0 THEN t
            ELSE all[Replace(t, at - 1, close - at + 1, Alias(t[at + 3])), at + 1]
  IN  all[text, 1]

\* The length of the name is npos, and the next search leaves its memory.
PastEnd == <<"past the end">>

\* std::make_shared<T, arguments>: from the first comma to the parenthesis.
\* Without a comma, replace() writes nothing and returns npos.
MakeShared(text) ==
  LET at == First(text, <<"std::make_shared", "<">>, 1)
      comma == First(text, <<",">>, at)
      paren == First(text, <<"(">>, at)
  IN  IF at = 0 THEN text
      ELSE IF comma = 0 THEN PastEnd
      ELSE Replace(text, comma - 1, paren - comma, <<">">>)

\* The allocator of the first std::vector of the name.
Vectors(text) ==
  LET at == First(text, <<"std::vector", "<">>, 1)
      comma == First(text, <<",", " ", "std::allocator">>, at)
      close == Matching(text, at + 1)
  IN  IF at = 0 \/ comma = 0 THEN text
      ELSE Replace(text, comma - 1, close - comma + 1, <<">">>)

cleanupFunctionName(name) ==
  LET units == Rewrite(name, SpaceRules \o <<Rule(<<"std::", "__1::">>, <<"std::">>)>>
                         \o RatioRules \o DurationRules \o SleepRules)
      plain == Rewrite(units, <<Rule(<<"[abi:cxx11]">>, <<>>),
                 Rule(<<"std::", "__cxx11::", "basic_string", "<">>,
                      <<"std::", "basic_string", "<">>)>>)
  IN  Vectors(MakeShared(Strings(plain)))

-----------------------------------------------------------------------------
(* What the demangler writes for types and functions (raw) and what their  *)
(* abbreviations are (short): the reference for the rules.  vectors counts *)
(* the vectors, misread says that the rules are known to garble the name.  *)

Name(raw, short, vectors, misread) ==
  [raw |-> raw, short |-> short, vectors |-> vectors, misread |-> misread]
Plain(word) == Name(<<word>>, <<word>>, 0, FALSE)

\* The demangler puts a space between two closing brackets.
Close(raw) == (IF Last(raw) = ">" THEN <<" ">> ELSE <<>>) \o <<">">>

\* "a, b", from the raw or short texts of a sequence of names.
List(names, Text(_)) ==
  FoldLeft(LAMBDA text, n : text \o (IF text = <<>> THEN <<>> ELSE <<",", " ">>) \o Text(n),
           <<>>, names)
Raw(n) == n.raw
Short(n) == n.short

\* Only one vector of a name loses its allocator.
Garbled(names) ==
  \/ \E i \in DOMAIN names : names[i].misread
  \/ FoldLeft(LAMBDA n, name : n + name.vectors, 0, names) > 1

StringNames == [char |-> "std::string", wchar_t |-> "std::wstring",
                char16_t |-> "std::u16string"]
StringOf(c, space) ==
  Name(<<"std::", space, "basic_string", "<", c, ",", " ", "std::allocator", "<",
         c, ">", " ", ">">>,
       <<StringNames[c]>>, 0, c = "char16_t")

VectorOf(t) ==
  Name(<<"std::vector", "<">> \o t.raw \o <<",", " ", "std::allocator", "<">> \o t.raw
         \o Close(t.raw) \o <<" ", ">">>,
       <<"std::vector", "<">> \o t.short \o <<">">>, 1 + 2 * t.vectors, t.misread)

\* std::chrono::duration<rep, std::ratio<...>>
DurationOf(rep, u) ==
  Name(<<"std::chrono::duration", "<", rep, ",", " ", Ratio[u], " ", ">">>,
       IF rep = "long" /\ u \in DOMAIN Durations THEN <<"std::chrono::">> \o Durations[u]
       ELSE <<"std::chrono::duration">> \o Count(rep, u),
       0, FALSE)

\* f[abi:cxx11]( arguments )
FunctionOf(args) ==
  Name(<<"f", "[abi:cxx11]", "(">> \o List(args, Raw) \o <<")">>,
       <<"f", "(">> \o List(args, Short) \o <<")">>, 0, Garbled(args))

\* sleep_for<rep, period>( duration ).  A period of one is shorter than the name
\* that the rule puts in its place.
SleepOf(rep, u) ==
  LET d == DurationOf(rep, u)
      parameter == IF rep # "long" \/ u \notin DOMAIN Durations THEN Count(rep, u)
                   ELSE IF u = "minute" THEN <<"<", "minutes", ">">>
                   ELSE <<>>
  IN  Name(<<"void ", "::sleep_for", "<", rep, ",", " ", Ratio[u], " ", ">", "(">>
             \o d.raw \o <<" const&", ")">>,
           <<"void ", "::sleep_for">> \o parameter \o <<"(">> \o d.short
             \o <<" const&", ")">>,
           0, rep = "long" /\ u = "one")

\* std::make_shared<t, arguments>( arguments )
MakeSharedOf(t, args) ==
  LET list == List(<<t>> \o args, Raw)
  IN  Name(<<"std::shared_ptr", "<">> \o t.raw \o Close(t.raw)
             \o <<" ", "std::make_shared", "<">> \o list \o Close(list)
             \o <<"(">> \o List(args, Raw) \o <<")">>,
           <<"std::shared_ptr", "<">> \o t.short \o <<">", " ", "std::make_shared", "<">>
             \o t.short \o <<">", "(">> \o List(args, Short) \o <<")">>,
           0, args = <<>> \/ t.misread \/ t.vectors > 0
              \/ "," \in ToSet(t.short) \/ Garbled(args))
=============================================================================
