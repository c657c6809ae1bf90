------------------------- MODULE StackEntryProofs -------------------------
(***************************************************************************)
(* What replace() of StackTrace.cpp does to any text, and what becomes of  *)
(* an entry with any names: its address is looked up, and the line that    *)
(* print writes is read back.                                              *)
(***************************************************************************)
EXTENDS StackEntry, AddressLookupProofs, SequenceTheorems, TLAPS

-----------------------------------------------------------------------------
(* replace() *)

\* A replacement that is not longer than what it replaces gives the text that
\* every caller of replace() means: cleanupFunctionName's rules that shorten a
\* name are right for every name, whatever else it contains.
THEOREM ReplaceSplices ==
  ASSUME NEW S, NEW str \in Seq(S), NEW r \in Seq(S), NEW pos \in Nat,
         NEW len \in Nat, pos + len <= Len(str), Len(r) <= len
  PROVE  Replace(str, pos, len, r) = Splice(str, pos, len, r)
<1> DEFINE d == Len(r) - len
           n == Len(str) + d
           before == SubSeq(str, 1, pos)
           after == SubSeq(str, pos + len + 1, Len(str))
<1>1. /\ Len(str) \in Nat /\ Len(r) \in Nat /\ d \in Int /\ d <= 0
      /\ n \in Nat /\ pos \in 0 .. Len(str)
  OBVIOUS
<1>2. before \in Seq(S) /\ Len(before) = pos
      /\ \A k \in 1 .. pos : before[k] = str[k]
  BY <1>1
<1>3. after \in Seq(S) /\ Len(after) = Len(str) - pos - len
      /\ \A k \in 1 .. Len(str) - pos - len : after[k] = str[pos + len + k]
  BY <1>1
<1>4. Splice(str, pos, len, r) = (before \o r) \o after
  BY DEF Splice
<1>5. Replace(str, pos, len, r)
        = [k \in 1 .. n |-> IF k <= pos THEN str[k]
                            ELSE IF k <= pos + Len(r) THEN r[k - pos]
                            ELSE str[k - d]]
  BY <1>1 DEF Replace
<1> HIDE DEF before, after
<1> DEFINE first == before \o r
<1>6. /\ first \in Seq(S) /\ Len(first) = pos + Len(r)
      /\ \A k \in 1 .. pos + Len(r) :
           first[k] = IF k <= pos THEN before[k] ELSE r[k - pos]
  BY <1>1, <1>2, ConcatProperties
<1> HIDE DEF first
<1>7. Len(first) + Len(after) = n
  BY <1>1, <1>3, <1>6
<1>8. /\ first \o after \in Seq(S)
      /\ Len(first \o after) = Len(first) + Len(after)
      /\ \A k \in 1 .. Len(first) + Len(after) : (first \o after)[k]
           = IF k <= Len(first) THEN first[k] ELSE after[k - Len(first)]
  <2>1. first \in Seq(S) /\ after \in Seq(S)
    BY <1>3, <1>6
  <2>. QED BY ONLY <2>1, ConcatProperties
<1>9. ASSUME NEW k \in 1 .. n
      PROVE  (first \o after)[k]
               = IF k <= pos THEN str[k]
                 ELSE IF k <= pos + Len(r) THEN r[k - pos]
                 ELSE str[k - d]
  <2>0. (first \o after)[k]
          = IF k <= pos + Len(r) THEN first[k] ELSE after[k - (pos + Len(r))]
    BY <1>6, <1>7, <1>8
  <2>1. CASE k <= pos
    BY <2>0, <2>1, <1>1, <1>2, <1>6
  <2>2. CASE k > pos /\ k <= pos + Len(r)
    BY <2>0, <2>2, <1>1, <1>6
  <2>3. CASE k > pos + Len(r)
    <3>1. k - (pos + Len(r)) \in 1 .. Len(str) - pos - len
      BY <2>3, <1>1
    <3>2. pos + len + (k - (pos + Len(r))) = k - d
      BY <1>1
    <3>3. after[k - (pos + Len(r))] = str[k - d]
      BY <3>1, <3>2, <1>3
    <3>. QED BY <2>0, <2>3, <3>3, <1>1
  <2>4. k <= pos \/ (k > pos /\ k <= pos + Len(r)) \/ k > pos + Len(r)
    BY <1>1
  <2>. QED BY <2>1, <2>2, <2>3, <2>4
<1>10. Replace(str, pos, len, r) = [k \in 1 .. n |-> (first \o after)[k]]
  BY <1>5, <1>9
<1>11. first \o after = [k \in 1 .. n |-> (first \o after)[k]]
  <2> DEFINE t == first \o after
  <2>1. t \in Seq(S) /\ Len(t) = n
    BY <1>7, <1>8
  <2> HIDE DEF t, n
  <2>2. t = [k \in 1 .. Len(t) |-> t[k]]
    BY <2>1
  <2>. QED BY <2>1, <2>2 DEF t
<1>. QED BY <1>4, <1>10, <1>11 DEF first

\* A longer replacement destroys the rest of the text: the name keeps its
\* length, and what follows the replacement are copies of its last cells.
THEOREM LongerReplacementEchoes ==
  ASSUME NEW S, NEW str \in Seq(S), NEW r \in Seq(S), NEW pos \in Nat,
         NEW len \in Nat, pos + len <= Len(str), Len(r) > len
  PROVE  /\ Len(Replace(str, pos, len, r)) = Len(str)
         /\ \A k \in pos + Len(r) + 1 .. Len(str) :
              \E i \in len + 1 .. Len(r) : Replace(str, pos, len, r)[k] = r[i]
<1> DEFINE d == Len(r) - len
<1>1. Len(str) \in Nat /\ Len(r) \in Nat /\ d \in Nat /\ d > 0
  OBVIOUS
<1>2. DOMAIN Replace(str, pos, len, r) = 1 .. Len(str)
  BY <1>1 DEF Replace
<1>3. Len(Replace(str, pos, len, r)) = Len(str)
  BY <1>1, <1>2
<1>4. ASSUME NEW k \in pos + Len(r) + 1 .. Len(str)
      PROVE  \E i \in len + 1 .. Len(r) : Replace(str, pos, len, r)[k] = r[i]
  <2> DEFINE m == (k - pos - Len(r) - 1) % d
  <2>1. k - pos - Len(r) - 1 \in Nat
    BY <1>1
  <2>2. m \in 0 .. d - 1
    BY <1>1, <2>1
  <2>3. len + m + 1 \in len + 1 .. Len(r) /\ len + m \in Nat
    BY <1>1, <2>2
  <2>4. Replace(str, pos, len, r)[k] = r[len + m + 1]
    BY <1>1, <2>3 DEF Replace
  <2>. QED BY <2>3, <2>4
<1>. QED BY <1>3, <1>4

-----------------------------------------------------------------------------
(* The symbol of an entry *)

\* Only an entry that dladdr does not know is looked up, and one that it knows has
\* no address inside the table of symbols.
LookedUp ==
  /\ phase = "search" => Enclosed
  /\ Enclosed \/ (address[0] = 0 /\ target = 0)

LEMMA LookedUpInit == Pairs /\ EntryInit => LookedUp
<1> SUFFICES ASSUME Pairs, EntryInit PROVE LookedUp
  OBVIOUS
<1>1. CASE phase = "search" /\ Init
  BY <1>1, InitEncloses DEF LookedUp
<1>2. CASE phase = "known" /\ size = MinSize /\ target = 0
           /\ address = [i \in 0 .. size - 1 |-> 0]
  BY <1>2, LookupAssumption DEF LookedUp
<1>. QED
  BY <1>1, <1>2 DEF EntryInit

LEMMA LookedUpStep == LookedUp /\ [EntryNext]_<<vars, entryVars>> => LookedUp'
<1> SUFFICES ASSUME LookedUp, [EntryNext]_<<vars, entryVars>> PROVE LookedUp'
  OBVIOUS
<1>1. CASE Search
  <2>1. Enclosed'
    BY <1>1, StepEncloses DEF Search, LookedUp
  <2>. QED
    BY <2>1 DEF LookedUp
<1>2. CASE UNCHANGED vars /\ (phase' # "search" \/ UNCHANGED phase)
  <2>1. Enclosed => Enclosed'
    BY <1>2, StepEncloses
  <2>. QED
    BY <1>2, <2>1 DEF LookedUp, vars
<1>3. (FromTable \/ FromDladdr \/ Locate \/ PrintLine \/ ParseLine) => phase' # "search"
  BY DEF FromTable, FromDladdr, Locate, PrintLine, ParseLine
<1>. QED
  BY <1>1, <1>2, <1>3 DEF EntryNext, entryVars

\* getDataFromGlobalSymbols as getStackInfo uses it: the symbol that names an entry
\* is the last one before its address.
THEOREM EntryPreceding == Pairs => (EntrySpec => []Preceding)
<1> SUFFICES ASSUME Pairs PROVE EntrySpec => []Preceding
  OBVIOUS
<1>1. LookedUp => Preceding
  <2>1. Enclosed => Preceding
    BY EnclosedPrecedes
  <2>2. address[0] = 0 /\ target = 0 => Preceding
    BY DEF Preceding
  <2>. QED
    BY <2>1, <2>2 DEF LookedUp
<1>. QED
  BY <1>1, LookedUpInit, LookedUpStep, PTL DEF EntrySpec

\* The search that getStackInfo makes is getDataFromGlobalSymbols, and nothing else
\* that becomes of the entry disturbs it: every turn halves what is left.
THEOREM EntryHalves == Pairs => (EntrySpec => Halves)
<1>1. ASSUME LookedUp, [EntryNext]_<<vars, entryVars>>
      PROVE  [done' \/ 2 * (upper' - lower') <= upper - lower + 1]_vars
  BY <1>1, HalveHalves DEF LookedUp, EntryNext, Search, Next, Leave
<1>. QED
  BY <1>1, LookedUpInit, LookedUpStep, PTL DEF EntrySpec, Halves

-----------------------------------------------------------------------------
(* The line of an entry *)

\* What print has written is the entry, and what parseLine reads is the line.
Written ==
  /\ phase \in {"search", "known", "named", "located", "printed", "parsed"}
  /\ phase \in {"named", "located", "printed", "parsed"} => object \in Nat \ {0}
  /\ phase \in {"printed", "parsed"} => printed = [gap |-> Gap, words |-> Words]
  /\ phase = "parsed" => parsed = Read(printed.words, printed.gap + 1 > Column)

LEMMA WrittenStep == Written /\ [EntryNext]_<<vars, entryVars>> => Written'
<1> SUFFICES ASSUME Written, [EntryNext]_<<vars, entryVars>> PROVE Written'
  OBVIOUS
<1> USE DEF Written, entry
<1>1. CASE UNCHANGED entryVars
  BY <1>1 DEF entryVars, Gap, Words
<1>2. CASE FromTable \/ FromDladdr
  BY <1>2, EntryAssumption DEF FromTable, FromDladdr
<1>3. CASE Locate
  BY <1>3 DEF Locate
<1>4. CASE PrintLine
  BY <1>4 DEF PrintLine, Gap, Words
<1>5. CASE ParseLine
  BY <1>5 DEF ParseLine, Gap, Words
<1>. QED
  BY <1>1, <1>2, <1>3, <1>4, <1>5 DEF EntryNext, Search

\* The blanks of a line without a function and a file: parseLine takes its word for
\* an object when the name has three characters or more.
LEMMA ObjectIndent ==
  ASSUME object \in Nat \ {0}
  PROVE  Gap + 1 > Column <=> object < 3
  BY DEF Gap, Column

\* Words side by side.
LEMMA SideBySide ==
  ASSUME NEW a, NEW b, NEW c
  PROVE  /\ <<a>> \o <<b>> \o <<c>> = <<a, b, c>>
         /\ <<a>> \o <<b>> \o <<>> = <<a, b>>
         /\ <<a>> \o <<>> \o <<>> = <<a>>
<1> DEFINE S == {a, b, c}
<1>1. \A x, y \in S : <<x>> \in Seq(S) /\ <<x, y>> \in Seq(S)
  OBVIOUS
<1>2. \A s \in Seq(S) : s \o <<>> = s
  BY ConcatEmptySeq
<1>3. ASSUME NEW s \in Seq(S), NEW x \in S PROVE s \o <<x>> = Append(s, x)
  BY AppendIsConcat
<1>4. Append(<<a>>, b) = <<a, b>>
  <2> DEFINE s == Append(<<a>>, b)
             t == <<a, b>>
  <2>1. s \in Seq(S) /\ Len(s) = 2 /\ s[1] = a /\ s[2] = b
    OBVIOUS
  <2>2. t \in Seq(S) /\ Len(t) = 2 /\ t[1] = a /\ t[2] = b
    OBVIOUS
  <2> HIDE DEF s, t, S
  <2>3. \A i \in 1 .. Len(s) : s[i] = t[i]
    BY <2>1, <2>2
  <2>4. s = t
    BY <2>1, <2>2, <2>3, SeqEqual
  <2>. QED
    BY <2>4 DEF s, t
<1>5. Append(<<a, b>>, c) = <<a, b, c>>
  <2> DEFINE s == Append(<<a, b>>, c)
             t == <<a, b, c>>
  <2>1. s \in Seq(S) /\ Len(s) = 3 /\ s[1] = a /\ s[2] = b /\ s[3] = c
    OBVIOUS
  <2>2. t \in Seq(S) /\ Len(t) = 3 /\ t[1] = a /\ t[2] = b /\ t[3] = c
    OBVIOUS
  <2> HIDE DEF s, t, S
  <2>3. \A i \in 1 .. Len(s) : s[i] = t[i]
    BY <2>1, <2>2
  <2>4. s = t
    BY <2>1, <2>2, <2>3, SeqEqual
  <2>. QED
    BY <2>4 DEF s, t
<1>6. a \in S /\ b \in S /\ c \in S
  OBVIOUS
<1> HIDE DEF S
<1>. QED
  BY <1>1, <1>2, <1>3, <1>4, <1>5, <1>6

\* print and parseLine (StackTrace.cpp): whatever the names of its object and its
\* function are, the line of an entry is read back as the entry, unless the entry
\* has a file but no function, or an object of one or two characters and less than
\* three words.
THEOREM LinesReadBack == EntrySpec => []LineReadBack
<1>1. Written => LineReadBack
  <2> SUFFICES ASSUME Written, phase = "parsed",
                      ~(function = <<>> /\ file # NoFile),
                      ~(object < 3 /\ Len(printed.words) < 3)
               PROVE  parsed = Fields(<<<<"object", object>>, function, file>>)
    BY DEF LineReadBack
  <2> DEFINE first == <<"object", object>>
  <2>1. /\ object \in Nat \ {0} /\ printed.words = Words
        /\ parsed = Read(Words, object < 3)
    BY ObjectIndent DEF Written
  <2> HIDE DEF first
  <2>2. CASE function # <<>> /\ file # NoFile
    <3>1. Words = <<first, function, file>>
      BY <2>1, <2>2, SideBySide DEF Words, first
    <3>. QED
      BY <2>1, <3>1 DEF Read, first
  <2>3. CASE function # <<>> /\ file = NoFile
    <3>1. Words = <<first, function>>
      BY <2>1, <2>3, SideBySide DEF Words, first
    <3>2. ~(object < 3)
      BY <2>1, <3>1
    <3>. QED
      BY <2>1, <2>3, <3>1, <3>2 DEF Read, Fields, NoFile, first
  <2>4. CASE function = <<>> /\ file = NoFile
    <3>1. Words = <<first>>
      BY <2>1, <2>4, SideBySide DEF Words, first
    <3>2. ~(object < 3)
      BY <2>1, <3>1
    <3>. QED
      BY <2>1, <2>4, <3>1, <3>2 DEF Read, Fields, NoFile, first
  <2>. QED
    BY <2>2, <2>3, <2>4
<1>2. EntryInit => Written
  BY DEF EntryInit, Written
<1>. QED
  BY <1>1, <1>2, WrittenStep, PTL DEF EntrySpec
=============================================================================
