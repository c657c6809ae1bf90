----------------------- MODULE AddressDecodingProofs -----------------------
(***************************************************************************)
(* Proofs about getStackInfo2, for every stack, every capacity of lists,   *)
(* windows and commands, and any other threads: the SIGINT handler of the  *)
(* program; that no entry gets the line of another; and that each entry is *)
(* asked about once and gets its line.                                     *)
(***************************************************************************)
EXTENDS AddressDecoding, SequenceTheorems, FiniteSetTheorems,
        WellFoundedInduction, TLAPS

Entries == 1 .. Len(frames)
Infos == [object : Nat, line : Nat]

-----------------------------------------------------------------------------
(* SIGINT *)

\* As long as no two threads were inside at once, the one that is has saved
\* the disposition of the program.
SigintInv ==
  /\ prev \in [Others \union {Decoder} -> {"program", "exit"}]
  /\ ~overlap =>
       \/ inside = {} /\ sigint = "program"
       \/ \E t \in Others \union {Decoder} : inside = {t} /\ prev[t] = "program"

LEMMA SigintStep ==
  ASSUME SigintInv, sigint \in {"program", "exit"}, [Next]_vars
  PROVE  SigintInv' /\ sigint' \in {"program", "exit"}
<1>1. ASSUME NEW t \in Others \union {Decoder}, Enter(t)
      PROVE  SigintInv' /\ sigint' \in {"program", "exit"}
  <2>1. prev' \in [Others \union {Decoder} -> {"program", "exit"}]
    BY <1>1 DEF SigintInv, Enter
  <2>2. ASSUME ~overlap' PROVE inside' = {t} /\ prev'[t] = "program"
    BY <1>1, <2>2 DEF SigintInv, Enter
  <2> QED BY <1>1, <2>1, <2>2 DEF SigintInv, Enter
<1>2. ASSUME NEW t \in Others \union {Decoder}, Leave(t)
      PROVE  SigintInv' /\ sigint' \in {"program", "exit"}
  BY <1>2 DEF SigintInv, Leave
<1>3. ASSUME UNCHANGED signals
      PROVE  SigintInv' /\ sigint' \in {"program", "exit"}
  BY <1>3 DEF SigintInv, signals
<1> QED
  BY <1>1, <1>2, <1>3
  DEF Next, Begin, Describe, Window, Scan, Rest, End, vars

\* getStackInfo2 gives SIGINT back to the program when its calls are over,
\* whatever the number of threads, unless two calls overlapped.
THEOREM SigintRestored == Spec => []SigintRestoredUnlessOverlap
<1> DEFINE Inv == SigintInv /\ sigint \in {"program", "exit"}
<1>1. Init => Inv
  BY DEF Init, SigintInv
<1>2. Inv /\ [Next]_vars => Inv'
  BY SigintStep
<1>3. Inv => SigintRestoredUnlessOverlap
  BY DEF SigintInv, SigintRestoredUnlessOverlap
<1> QED BY <1>1, <1>2, <1>3, PTL DEF Spec
-----------------------------------------------------------------------------
(* Operators of the libraries *)

LEMMA SequenceOfFunction ==
  ASSUME NEW S, NEW n \in Nat, NEW f \in [1 .. n -> S]
  PROVE  f \in Seq(S) /\ Len(f) = n
<1>1. f \in Seq(S)
  BY SeqDef
<1> QED BY <1>1, LenProperties

LEMMA Least ==
  ASSUME NEW S, S \subseteq Nat, S # {}
  PROVE  \E x \in S : \A y \in S : x <= y
<1> DEFINE less == OpToRel(<, Nat)
<1>1. PICK x \in S : \A y \in S : <<y, x>> \notin less
  <2>1. IsWellFoundedOn(less, Nat)
    BY NatLessThanWellFounded
  <2> HIDE DEF less
  <2> QED BY <2>1, WFMin
<1>2. \A y, z \in Nat : y < z => <<y, z>> \in less
  BY DEF OpToRel
<1> HIDE DEF less
<1>3. ASSUME NEW y \in S PROVE x <= y
  <2>1. ~ (y < x)
    BY <1>1, <1>2
  <2> QED BY <2>1
<1> QED BY <1>3

LEMMA MinFacts ==
  ASSUME NEW S, S \subseteq Nat, S # {}
  PROVE  Min(S) \in S /\ \A y \in S : Min(S) <= y
  BY Least DEF Min

LEMMA MaxFacts ==
  ASSUME NEW n \in Nat, NEW S, S \subseteq 0 .. n, S # {}
  PROVE  Max(S) \in S
<1> DEFINE T == {n - x : x \in S}
<1>1. T \subseteq Nat /\ T # {}
  OBVIOUS
<1>2. PICK y \in T : \A z \in T : y <= z
  BY <1>1, Least
<1>3. PICK x \in S : y = n - x
  BY <1>2
<1>4. ASSUME NEW w \in S PROVE x >= w
  <2>1. n - w \in T
    OBVIOUS
  <2>2. n - x <= n - w
    BY <1>2, <1>3, <2>1
  <2> QED BY <2>2
<1>5. \E v \in S : \A w \in S : v >= w
  BY <1>4
<1> QED BY <1>5 DEF Max

-----------------------------------------------------------------------------
(* The loops *)

Types ==
  /\ frames \in Seq(Kinds)
  /\ info \in [Entries -> Infos]
  /\ asked \in [Entries -> Nat]
  /\ first \in Nat \ {0} /\ next \in Nat \ {0} /\ last \in Nat
  /\ hashes \subseteq Nat
  /\ list \in Seq(Entries)
  /\ pc \in {"idle", "describe", "window", "scan", "end", "done"}

\* Entry i has been asked about, and it has its line if the commands had room.
Decoded(i) ==
  /\ asked[i] = 1
  /\ frames[i].lines /\ Fits(frames[i].object) => info[i].line = i

\* What the loop over the window has done for entry i of it: the objects are
\* asked about in order, and of the current one, the entries before next are
\* either still in the list or decoded.
Swept(i) ==
  LET o == info[i].object
      waits == o \in hashes /\ (o # Current \/ i >= next \/ i \in ToSet(list))
  IN  IF waits THEN asked[i] = 0 ELSE Decoded(i)

\* The list: different entries of the current object, seen by the loop.
Listed ==
  /\ Len(list) < ListSize
  /\ \A k \in 1 .. Len(list) :
       /\ list[k] \in first .. next - 1
       /\ info[list[k]].object = Current
  /\ \A k, l \in 1 .. Len(list) : list[k] = list[l] => k = l

\* How far each label has come with each entry.
Progress ==
  /\ pc = "idle" => frames = <<>>
  /\ pc \in {"idle", "describe"} =>
       /\ first = 1
       /\ next <= Len(frames) + 1
       /\ \A i \in Entries :
            /\ asked[i] = 0
            /\ i < next => info[i].object = frames[i].object
  /\ pc \notin {"idle", "describe"} =>
       \A i \in Entries : info[i].object = frames[i].object
  /\ pc # "scan" => list = <<>>
  /\ pc = "window" =>
       /\ first <= Len(frames) + 1
       /\ \A i \in Entries : IF i < first THEN Decoded(i) ELSE asked[i] = 0
  /\ pc = "scan" =>
       /\ first <= last /\ last <= Len(frames)
       /\ next \in first .. last + 1
       /\ hashes # {}
       /\ Listed
       /\ \A i \in Entries :
            IF i < first THEN Decoded(i) ELSE IF i > last THEN asked[i] = 0 ELSE Swept(i)
  /\ pc \in {"end", "done"} => \A i \in Entries : Decoded(i)

DecodeInv == Types /\ Progress

-----------------------------------------------------------------------------
(* One command *)

Named == \A i \in Entries : info[i].object = frames[i].object

\* A batch that a command gets: different entries of the current object, not
\* more than the list holds.
Batch(batch) ==
  /\ batch \in Seq(Entries)
  /\ Len(batch) <= ListSize
  /\ \A k \in 1 .. Len(batch) : info[batch[k]].object = Current
  /\ \A k, l \in 1 .. Len(batch) : batch[k] = batch[l] => k = l

\* If the addresses of the object fit, all of a batch do.
LEMMA BatchFits ==
  ASSUME Types, Named, NEW batch, Batch(batch), batch # <<>>, Fits(Current)
  PROVE  Len(batch) <= Room[Current]
<1> DEFINE S == {i \in DOMAIN frames : frames[i].object = Current}
<1>1. /\ DOMAIN frames = Entries /\ Len(frames) \in Nat
      /\ Len(batch) \in Nat /\ batch \in [1 .. Len(batch) -> Entries]
  BY LenProperties DEF Types, Batch, Entries
<1>2. IsFiniteSet(S)
  <2>1. IsFiniteSet(Entries)
    BY <1>1, FS_Interval DEF Entries
  <2>2. S \in SUBSET Entries
    BY <1>1
  <2> QED BY <2>1, <2>2, FS_Subset
<1>3. batch \in Injection(1 .. Len(batch), S)
  <2>1. \A k \in 1 .. Len(batch) : batch[k] \in S
    BY <1>1 DEF Batch, Named
  <2>2. batch \in [1 .. Len(batch) -> S]
    BY <1>1, <2>1
  <2> QED BY <2>2 DEF Batch, Injection, IsInjective
<1>4. Len(batch) <= Cardinality(S) /\ Cardinality(S) \in Nat
  <2>1. Cardinality(1 .. Len(batch)) <= Cardinality(S)
    BY <1>2, <1>3, FS_Injection
  <2>2. Cardinality(1 .. Len(batch)) = Len(batch)
    BY <1>1, FS_Interval
  <2> QED BY <1>2, <2>1, <2>2, FS_CardinalityType
<1>5. Current \in Objects /\ Room[Current] \in Nat
  <2>1. 1 \in 1 .. Len(batch)
    BY <1>1, EmptySeq DEF Batch
  <2>2. batch[1] \in Entries /\ frames[batch[1]].object = Current
    BY <1>1, <2>1 DEF Batch, Named
  <2>3. frames[batch[1]] \in Kinds
    BY <1>1, <2>2, ElementOfSeq DEF Types, Entries
  <2> QED BY <2>2, <2>3, DecodingAssumption DEF Kinds
<1>6. Room[Current] >= Min({Cardinality(S), ListSize})
  BY DEF Fits
<1> HIDE DEF S
<1>7. Min({Cardinality(S), ListSize}) \in {Cardinality(S), ListSize}
  BY <1>4, DecodingAssumption, MinFacts
<1> QED BY <1>1, <1>4, <1>5, <1>6, <1>7, DecodingAssumption DEF Batch

\* A command counts for the entries of its batch and for nobody else, and those
\* get the lines of their own addresses.
LEMMA AskFacts ==
  ASSUME Types, Named, NEW batch, Batch(batch), Ask(batch)
  PROVE  /\ asked' \in [Entries -> Nat]
         /\ info' \in [Entries -> Infos]
         /\ \A i \in Entries :
              /\ info'[i].object = info[i].object
              /\ info'[i].line \in {info[i].line, i}
              /\ i \notin ToSet(batch) =>
                   asked'[i] = asked[i] /\ info'[i] = info[i]
              /\ i \in ToSet(batch) =>
                   /\ asked'[i] = asked[i] + 1
                   /\ frames[i].lines /\ Fits(frames[i].object) => info'[i].line = i
<1>1. DOMAIN asked = Entries /\ DOMAIN info = Entries
  BY DEF Types
<1>2. Len(batch) \in Nat /\ DOMAIN batch = 1 .. Len(batch)
  BY LenProperties DEF Batch
<1>3. /\ asked' \in [Entries -> Nat]
      /\ \A i \in Entries :
           asked'[i] = IF i \in ToSet(batch) THEN asked[i] + 1 ELSE asked[i]
  BY <1>1 DEF Ask, Types
<1>4. ASSUME NEW i \in Entries
      PROVE  info'[i] = IF frames[i].lines /\ \E k \in Output(batch) : batch[k] = i
                        THEN [info[i] EXCEPT !.line = i] ELSE info[i]
  <2> DEFINE found == \E k \in Output(batch) : batch[k] = i
             chosen == CHOOSE k \in Output(batch) : batch[k] = i
  <2>1. info'[i] = IF \E k \in Output(batch) : batch[k] = i /\ frames[SpeaksOf(batch, k)].lines
                   THEN [info[i] EXCEPT !.line = SpeaksOf(batch, chosen)] ELSE info[i]
    BY <1>1 DEF Ask
  <2>2. (\E k \in Output(batch) : batch[k] = i /\ frames[SpeaksOf(batch, k)].lines)
          <=> frames[i].lines /\ found
    BY DEF SpeaksOf
  <2>3. found => SpeaksOf(batch, chosen) = i
    BY DEF SpeaksOf
  <2> QED BY <2>1, <2>2, <2>3
<1>5. info' \in [Entries -> Infos]
  <2>1. \A i \in Entries : info'[i] \in Infos
    <3> TAKE i \in Entries
    <3>1. info[i] \in Infos /\ i \in Nat
      BY DEF Types, Entries
    <3>2. [info[i] EXCEPT !.line = i] \in Infos
      BY <3>1 DEF Infos
    <3> QED BY <1>4, <3>1, <3>2
  <2>2. \E g : info' = [i \in Entries |-> g[i]]
    <3>1. info' = [i \in Entries |-> info'[i]]
      BY <1>1 DEF Ask
    <3> QED BY <3>1
  <2> QED BY <2>1, <2>2
<1>6. ASSUME NEW i \in Entries
      PROVE  /\ info'[i].object = info[i].object
             /\ info'[i].line \in {info[i].line, i}
             /\ i \notin ToSet(batch) => info'[i] = info[i]
  <2>1. /\ [info[i] EXCEPT !.line = i].object = info[i].object
        /\ [info[i] EXCEPT !.line = i].line = i
    <3>1. info[i] \in Infos
      BY DEF Types
    <3> QED BY <3>1 DEF Infos
  <2>2. (\E k \in Output(batch) : batch[k] = i) => i \in ToSet(batch)
    BY DEF Output, ToSet
  <2>3. info'[i] = info[i] \/ (info'[i] = [info[i] EXCEPT !.line = i] /\ i \in ToSet(batch))
    BY <1>4, <2>2
  <2> QED BY <2>1, <2>3
<1>7. ASSUME NEW i \in Entries, i \in ToSet(batch), frames[i].lines, Fits(frames[i].object)
      PROVE  info'[i].line = i
  <2>1. PICK k \in 1 .. Len(batch) : batch[k] = i
    BY <1>2, <1>7 DEF ToSet
  <2>2. frames[i].object = Current
    BY <2>1 DEF Batch, Named
  <2>3. Current \notin Unreadable
    <3>1. frames[i] \in Kinds
      BY ElementOfSeq DEF Types, Entries
    <3> QED BY <1>7, <2>2, <3>1 DEF Kinds
  <2>4. batch # <<>>
    BY <1>2, <2>1, EmptySeq
  <2>5. Len(batch) <= Room[Current]
    BY <1>7, <2>2, <2>4, BatchFits
  <2>6. k \in Output(batch)
    BY <1>2, <2>1, <2>3, <2>5 DEF Output
  <2>7. info'[i] = [info[i] EXCEPT !.line = i] /\ info[i] \in Infos
    BY <1>4, <1>7, <2>1, <2>6 DEF Types
  <2> QED BY <2>7 DEF Infos
<1> QED BY <1>3, <1>5, <1>6, <1>7

-----------------------------------------------------------------------------
(* Steps *)

LEMMA DecodeInit == Init => DecodeInv
<1> SUFFICES ASSUME Init PROVE DecodeInv
  OBVIOUS
<1>1. frames = <<>> /\ info = <<>> /\ asked = <<>> /\ list = <<>>
  BY DEF Init
<1>2. Entries = {}
  BY <1>1, EmptySeq DEF Entries
<1>3. <<>> \in [{} -> Infos] /\ <<>> \in [{} -> Nat]
  OBVIOUS
<1>4. Types
  BY <1>1, <1>2, <1>3, EmptySeq DEF Init, Types
<1> QED BY <1>1, <1>2, <1>4 DEF Init, DecodeInv, Progress

LEMMA DecodeBegin ==
  ASSUME DecodeInv, pc = "idle", NEW f \in Stacks, Begin(f)
  PROVE  DecodeInv'
<1>1. PICK n \in Nat : f \in [1 .. n -> Kinds]
  BY DecodingAssumption DEF Stacks
<1>2. f \in Seq(Kinds) /\ Len(f) = n /\ DOMAIN f = 1 .. n
  BY <1>1, SequenceOfFunction
<1>3. /\ frames' = f /\ Entries' = 1 .. n
      /\ info' = [i \in 1 .. n |-> Blank]
      /\ asked' = [i \in 1 .. n |-> 0]
      /\ pc' = "describe"
      /\ UNCHANGED window
  BY <1>2 DEF Begin, Entries
<1>4. first = 1 /\ list = <<>> /\ next \in Nat \ {0} /\ next <= 1
  BY EmptySeq DEF DecodeInv, Types, Progress
<1>5. Types'
  <2>1. info' \in [1 .. n -> Infos] /\ asked' \in [1 .. n -> Nat]
    BY <1>3 DEF Infos, Blank
  <2>2. list' \in Seq(Entries')
    BY <1>3, <1>4, EmptySeq DEF window
  <2> QED BY <1>2, <1>3, <2>1, <2>2 DEF DecodeInv, Types, window
<1>6. Progress'
  BY <1>2, <1>3, <1>4 DEF Progress, window
<1> QED BY <1>5, <1>6 DEF DecodeInv

LEMMA DecodeDescribe ==
  ASSUME DecodeInv, Describe
  PROVE  DecodeInv'
<1> USE DEF DecodeInv
<1>1. /\ DOMAIN info = Entries /\ Len(frames) \in Nat /\ Len(info) = Len(frames)
      /\ Entries' = Entries
  <2>1. Len(frames) \in Nat
    BY LenProperties DEF Types
  <2> QED BY <2>1, SequenceOfFunction DEF Types, Entries, Describe
<1>2. CASE next <= Len(info)
  <2>1. next \in Entries
    BY <1>1, <1>2 DEF Entries, Types
  <2>2. frames[next].object \in Nat
    <3>1. frames[next] \in Kinds
      BY <2>1, ElementOfSeq DEF Types, Entries
    <3> QED BY <3>1, DecodingAssumption DEF Kinds
  <2>3. /\ info' = [info EXCEPT ![next].object = frames[next].object]
        /\ next' = next + 1
        /\ UNCHANGED <<pc, frames, asked, first, last, hashes, list>>
    BY <1>2 DEF Describe
  <2>4. /\ info' \in [Entries -> Infos]
        /\ info'[next].object = frames[next].object
        /\ \A i \in Entries : i # next => info'[i] = info[i]
    <3>1. /\ [info[next] EXCEPT !.object = frames[next].object] \in Infos
          /\ [info[next] EXCEPT !.object = frames[next].object].object = frames[next].object
      <4>1. info[next] \in Infos
        BY <2>1 DEF Types
      <4> QED BY <2>2, <4>1 DEF Infos
    <3>2. info' = [info EXCEPT ![next] = [info[next] EXCEPT !.object = frames[next].object]]
      BY <2>3
    <3> QED BY <2>1, <3>1, <3>2 DEF Types
  <2>5. Types'
    BY <1>1, <2>3, <2>4 DEF Types
  <2>6. Progress'
    <3>1. pc = "describe"
      BY DEF Describe
    <3>2. next \in Nat /\ next + 1 <= Len(frames) + 1
      BY <1>1, <1>2 DEF Types
    <3>3. \A i \in Entries : i < next + 1 => i = next \/ i < next
      BY <3>2 DEF Entries
    <3> QED BY <1>1, <2>3, <2>4, <3>1, <3>2, <3>3 DEF Progress
  <2> QED BY <2>5, <2>6
<1>3. CASE ~ (next <= Len(info))
  <2>1. /\ pc = "describe" /\ pc' = "window"
        /\ UNCHANGED <<info, next, frames, asked, first, last, hashes, list>>
    BY <1>3 DEF Describe
  <2>2. \A i \in Entries : i < next
    BY <1>1, <1>3 DEF Entries, Types
  <2>3. Types'
    BY <1>1, <2>1 DEF Types
  <2>4. first = 1 /\ \A i \in Entries : ~ (i < first)
    BY <2>1 DEF Progress, Entries
  <2>5. Progress'
    BY <1>1, <2>1, <2>2, <2>4 DEF Progress
  <2> QED BY <2>3, <2>5
<1> QED BY <1>2, <1>3

LEMMA DecodedKept ==
  ASSUME NEW i \in Entries, UNCHANGED frames,
         asked'[i] = asked[i], info'[i] = info[i]
  PROVE  Decoded(i)' <=> Decoded(i)
  BY DEF Decoded, Fits

\* The window ends in the stack, and has an entry.
LEMMA WindowFacts ==
  ASSUME Types, first <= Len(frames)
  PROVE  WindowEnd \in first .. Len(frames)
<1>1. Len(info) = Len(frames) /\ Len(frames) \in Nat
  <2>1. Len(frames) \in Nat
    BY LenProperties DEF Types
  <2> QED BY <2>1, SequenceOfFunction DEF Types, Entries
<1> DEFINE S == {n \in first .. Len(info) :
                   Cardinality(ObjectsIn(first, n - 1)) < WindowSize}
<1>2. first \in S
  <2>1. ObjectsIn(first, first - 1) = {}
    BY DEF ObjectsIn, Types
  <2>2. Cardinality(ObjectsIn(first, first - 1)) < WindowSize
    BY <2>1, FS_EmptySet, DecodingAssumption
  <2> QED BY <1>1, <2>2 DEF Types
<1>3. S \subseteq 0 .. Len(frames)
  BY <1>1 DEF Types
<1> HIDE DEF S
<1>4. Max(S) \in S
  BY <1>1, <1>2, <1>3, MaxFacts
<1> QED BY <1>1, <1>4 DEF S, WindowEnd

LEMMA DecodeWindow ==
  ASSUME DecodeInv, Window
  PROVE  DecodeInv'
<1> USE DEF DecodeInv
<1>1. /\ Len(info) = Len(frames) /\ Len(frames) \in Nat
      /\ Entries' = Entries
      /\ UNCHANGED <<frames, info, asked, first, list>>
      /\ pc = "window" /\ list = <<>>
      /\ \A i \in Entries : Decoded(i)' <=> Decoded(i)
  <2>1. Len(frames) \in Nat
    BY LenProperties DEF Types
  <2>2. Entries' = Entries /\ UNCHANGED <<frames, info, asked, first, list>>
    BY DEF Window, Entries, stack
  <2> QED BY <2>1, <2>2, DecodedKept, SequenceOfFunction
          DEF Types, Entries, Progress, Window
<1>2. CASE first <= Len(info)
  <2>1. WindowEnd \in first .. Len(frames)
    BY <1>1, <1>2, WindowFacts
  <2>2. /\ last' = WindowEnd /\ next' = first /\ pc' = "scan"
        /\ hashes' = ObjectsIn(first, WindowEnd)
    BY <1>2 DEF Window
  <2>3. \A i \in first .. WindowEnd :
          i \in Entries /\ info[i].object \in hashes' /\ info[i].object \in Nat
    BY <1>1, <2>1, <2>2 DEF ObjectsIn, Types, Entries, Infos
  <2>4. hashes' \subseteq Nat /\ hashes' # {}
    <3>1. first \in first .. WindowEnd
      BY <1>1, <2>1 DEF Types
    <3> QED BY <2>2, <2>3, <3>1 DEF ObjectsIn
  <2>5. Types'
    BY <1>1, <2>1, <2>2, <2>4 DEF Types
  <2>6. Listed'
    BY <1>1, EmptySeq, DecodingAssumption DEF Listed
  <2>7. \A i \in Entries :
          IF i < first THEN Decoded(i)' ELSE IF i > last' THEN asked'[i] = 0 ELSE Swept(i)'
    <3>1. \A i \in Entries : IF i < first THEN Decoded(i) ELSE asked[i] = 0
      BY <1>1 DEF Progress
    <3>2. ASSUME NEW i \in Entries, ~ (i < first), ~ (i > last') PROVE Swept(i)'
      <4>1. i \in first .. WindowEnd /\ i >= first /\ asked[i] = 0
        BY <1>1, <2>1, <2>2, <3>1, <3>2 DEF Entries, Types
      <4> QED BY <1>1, <2>2, <2>3, <4>1 DEF Swept
    <3> QED BY <1>1, <3>1, <3>2
  <2>8. Progress'
    BY <1>1, <2>1, <2>2, <2>4, <2>6, <2>7 DEF Progress, Types
  <2> QED BY <2>5, <2>8
<1>3. CASE ~ (first <= Len(info))
  <2>1. pc' = "end" /\ UNCHANGED <<last, hashes, next>>
    BY <1>3 DEF Window
  <2>2. Types'
    BY <1>1, <2>1 DEF Types
  <2>3. \A i \in Entries : Decoded(i)
    BY <1>1, <1>3 DEF Progress, Entries, Types
  <2>4. Progress'
    BY <1>1, <2>1, <2>3 DEF Progress
  <2> QED BY <2>2, <2>4
<1> QED BY <1>2, <1>3

\* What the invariant says while the loop over the window runs.
LEMMA ScanFacts ==
  ASSUME DecodeInv, pc = "scan"
  PROVE  /\ Len(frames) \in Nat /\ Named /\ Listed
         /\ first \in Nat \ {0} /\ last \in Nat /\ next \in Nat
         /\ first <= last /\ last <= Len(frames)
         /\ first <= next /\ next <= last + 1
         /\ Current \in hashes /\ hashes \subseteq Nat
         /\ \A i \in Entries :
              IF i < first THEN Decoded(i)
              ELSE IF i > last THEN asked[i] = 0 ELSE Swept(i)
         /\ Batch(list)
<1> USE DEF DecodeInv
<1>1. Len(frames) \in Nat /\ Len(list) \in Nat
  BY LenProperties DEF Types
<1>2. Current \in hashes
  BY MinFacts DEF Types, Progress, Current
<1>3. Named /\ Listed
  BY DEF Progress, Named
<1>4. Batch(list)
  BY <1>1, <1>3, DecodingAssumption DEF Batch, Listed, Types
<1> QED BY <1>1, <1>2, <1>3, <1>4 DEF Types, Progress

\* The list with the entry that the loop looks at.
LEMMA AppendFacts ==
  ASSUME DecodeInv, pc = "scan", next <= last, info[next].object = Current
  PROVE  LET new == Append(list, next) IN
         /\ next \in Entries
         /\ Len(new) = Len(list) + 1 /\ Len(list) \in Nat
         /\ Batch(new)
         /\ \A k \in 1 .. Len(new) : new[k] \in first .. next
         /\ ToSet(new) = ToSet(list) \union {next}
<1> DEFINE new == Append(list, next)
<1>1. next \in Entries /\ list \in Seq(Entries)
  BY ScanFacts DEF Entries, DecodeInv, Types
<1>2. /\ new \in Seq(Entries) /\ Len(list) \in Nat /\ Len(new) = Len(list) + 1
      /\ DOMAIN new = 1 .. Len(new) /\ DOMAIN list = 1 .. Len(list)
      /\ \A k \in 1 .. Len(list) : new[k] = list[k]
      /\ new[Len(list) + 1] = next
  BY <1>1, LenProperties
<1> HIDE DEF new
<1>3. \A k \in 1 .. Len(new) : k \in 1 .. Len(list) \/ k = Len(list) + 1
  BY <1>2
<1>4. \A k \in 1 .. Len(list) :
        list[k] \in first .. next - 1 /\ info[list[k]].object = Current
  BY ScanFacts DEF Listed
<1>5. \A k \in 1 .. Len(new) :
        /\ info[new[k]].object = Current
        /\ new[k] \in first .. next
        /\ k \in 1 .. Len(list) => new[k] = list[k] /\ new[k] # next
  BY <1>2, <1>3, <1>4, ScanFacts
<1>6. ASSUME NEW k \in 1 .. Len(new), NEW l \in 1 .. Len(new), new[k] = new[l]
      PROVE  k = l
  <2>1. CASE k \in 1 .. Len(list) /\ l \in 1 .. Len(list)
    BY <1>2, <1>6, <2>1, ScanFacts DEF Listed
  <2>2. CASE ~ (k \in 1 .. Len(list) /\ l \in 1 .. Len(list))
    BY <1>2, <1>3, <1>5, <1>6, <2>2
  <2> QED BY <2>1, <2>2
<1>7. Len(new) <= ListSize
  BY <1>2, ScanFacts, DecodingAssumption DEF Listed
<1>8. ToSet(new) = ToSet(list) \union {next}
  <2>1. ToSet(list) \subseteq ToSet(new)
    BY <1>2 DEF ToSet
  <2>2. next \in ToSet(new)
    BY <1>2 DEF ToSet
  <2>3. ToSet(new) \subseteq ToSet(list) \union {next}
    BY <1>2, <1>3 DEF ToSet
  <2> QED BY <2>1, <2>2, <2>3
<1> QED BY <1>1, <1>2, <1>5, <1>6, <1>7, <1>8 DEF Batch, new

LEMMA DecodeScan ==
  ASSUME DecodeInv, Scan
  PROVE  DecodeInv'
<1>1. /\ pc = "scan" /\ next <= last /\ next' = next + 1
      /\ UNCHANGED <<pc, frames, first, last, hashes>>
      /\ Entries' = Entries /\ Current' = Current
  BY DEF Scan, Entries, Current
<1>2. next \in Entries /\ ~ (next < first) /\ ~ (next > last) /\ Swept(next)
  <2>1. next \in Entries /\ ~ (next < first) /\ ~ (next > last)
    BY <1>1, ScanFacts DEF Entries
  <2> QED BY <1>1, <2>1, ScanFacts
<1>3. ASSUME list' \in Seq(Entries), Listed', Named',
             info' \in [Entries -> Infos], asked' \in [Entries -> Nat],
             \A i \in Entries :
               /\ i < first => Decoded(i)'
               /\ i > last => asked'[i] = 0
               /\ ~ (i < first) /\ ~ (i > last) => Swept(i)'
      PROVE  DecodeInv'
  <2>1. Types'
    BY <1>1, <1>3, ScanFacts DEF DecodeInv, Types
  <2>2. \A i \in Entries' :
          IF i < first' THEN Decoded(i)'
          ELSE IF i > last' THEN asked'[i] = 0 ELSE Swept(i)'
    BY <1>1, <1>3
  <2>3. next' \in first' .. last' + 1 /\ hashes' # {} /\ first' <= last' /\ last' <= Len(frames')
    BY <1>1, ScanFacts
  <2>4. Progress'
    BY <1>1, <1>3, <2>2, <2>3 DEF Progress, Named
  <2> QED BY <2>1, <2>4 DEF DecodeInv
<1>4. \A i \in Entries :
        i \in Nat /\ (i >= next <=> i = next \/ i >= next + 1)
  BY <1>1, ScanFacts DEF Entries
<1>5. \A i \in Entries :
        /\ i < first => Decoded(i)
        /\ i > last => asked[i] = 0
        /\ ~ (i < first) /\ ~ (i > last) => Swept(i)
  <2>1. \A i \in Entries : i > last => ~ (i < first)
    BY <1>1, <1>4, ScanFacts
  <2> QED BY <1>1, <2>1, ScanFacts
<1>6. CASE info[next].object # Current
  <2>1. Collected = list /\ Len(list) < ListSize
    BY <1>1, <1>6, ScanFacts DEF Collected, Listed
  <2>2. UNCHANGED <<list, info, asked>>
    BY <2>1, DecodingAssumption DEF Scan
  <2>3. list \in Seq(Entries)
    BY DEF DecodeInv, Types
  <2>4. Listed'
    <3>1. Listed
      BY <1>1, ScanFacts
    <3>2. \A k \in 1 .. Len(list) : list[k] \in first .. (next + 1) - 1
      BY <1>1, <3>1, ScanFacts DEF Listed
    <3> QED BY <1>1, <2>2, <3>1, <3>2 DEF Listed
  <2>5. ASSUME NEW i \in Entries, Swept(i) PROVE Swept(i)'
    <3>1. Decoded(i)' <=> Decoded(i)
      BY <1>1, <2>2, DecodedKept
    <3> QED BY <1>1, <1>4, <1>6, <2>2, <2>5, <3>1 DEF Swept
  <2>6. \A i \in Entries : Decoded(i) => Decoded(i)'
    BY <1>1, <2>2, DecodedKept
  <2>7. \A i \in Entries :
         /\ i < first => Decoded(i)'
         /\ i > last => asked'[i] = 0
         /\ ~ (i < first) /\ ~ (i > last) => Swept(i)'
    BY <1>5, <2>2, <2>5, <2>6
  <2>8. Named' /\ info' \in [Entries -> Infos] /\ asked' \in [Entries -> Nat]
    BY <1>1, <2>2, ScanFacts DEF DecodeInv, Types, Named
  <2> QED BY <1>3, <2>2, <2>3, <2>4, <2>7, <2>8
<1>7. CASE info[next].object = Current
  <2> DEFINE new == Append(list, next)
  <2>1. /\ Len(new) = Len(list) + 1 /\ Len(list) \in Nat
        /\ Batch(new)
        /\ \A k \in 1 .. Len(new) : new[k] \in first .. next
        /\ ToSet(new) = ToSet(list) \union {next}
    BY <1>1, <1>7, AppendFacts
  <2>2. Collected = new
    BY <1>7 DEF Collected
  <2> HIDE DEF new
  <2>3. CASE Len(new) # ListSize
    <3>1. list' = new /\ UNCHANGED <<info, asked>>
      BY <2>2, <2>3 DEF Scan
    <3>2. list' \in Seq(Entries)
      BY <2>1, <3>1 DEF Batch
    <3>3. Listed'
      <4>1. Len(new) < ListSize
        BY <2>1, <2>3, DecodingAssumption DEF Batch
      <4>2. \A k \in 1 .. Len(new) : new[k] \in first .. (next + 1) - 1
        BY <1>1, <2>1, ScanFacts
      <4> QED BY <1>1, <2>1, <3>1, <4>1, <4>2 DEF Listed, Batch
    <3>4. ASSUME NEW i \in Entries, Swept(i) PROVE Swept(i)'
      <4>1. Decoded(i)' <=> Decoded(i)
        BY <1>1, <3>1, DecodedKept
      <4>2. i \in ToSet(list') <=> i \in ToSet(list) \/ i = next
        BY <2>1, <3>1
      <4> QED BY <1>1, <1>4, <3>1, <3>4, <4>1, <4>2 DEF Swept
    <3>5. \A i \in Entries : Decoded(i) => Decoded(i)'
      BY <1>1, <3>1, DecodedKept
    <3>6. \A i \in Entries :
           /\ i < first => Decoded(i)'
           /\ i > last => asked'[i] = 0
           /\ ~ (i < first) /\ ~ (i > last) => Swept(i)'
      BY <1>5, <3>1, <3>4, <3>5
    <3>7. Named' /\ info' \in [Entries -> Infos] /\ asked' \in [Entries -> Nat]
      BY <1>1, <3>1, ScanFacts DEF DecodeInv, Types, Named
    <3> QED BY <1>3, <3>2, <3>3, <3>6, <3>7
  <2>4. CASE Len(new) = ListSize
    <3>1. Ask(new) /\ list' = <<>>
      BY <2>2, <2>4 DEF Scan
    <3>2. /\ asked' \in [Entries -> Nat]
          /\ info' \in [Entries -> Infos]
          /\ \A i \in Entries :
               /\ info'[i].object = info[i].object
               /\ i \notin ToSet(new) =>
                    asked'[i] = asked[i] /\ info'[i] = info[i]
               /\ i \in ToSet(new) =>
                    /\ asked'[i] = asked[i] + 1
                    /\ frames[i].lines /\ Fits(frames[i].object) => info'[i].line = i
      BY <1>1, <2>1, <3>1, AskFacts, ScanFacts DEF DecodeInv
    <3>3. \A i \in ToSet(new) : first <= i /\ i <= next /\ info[i].object = Current
      <4>1. DOMAIN new = 1 .. Len(new)
        BY <2>1, LenProperties DEF Batch
      <4> QED BY <1>1, <2>1, <4>1, ScanFacts DEF ToSet, Batch
    <3>4. list' \in Seq(Entries) /\ Listed' /\ Named' /\ ToSet(list') = {}
      <4>1. DOMAIN <<>> = {}
        OBVIOUS
      <4>2. <<>> \in Seq(Entries) /\ Len(<<>>) = 0 /\ ToSet(<<>>) = {}
        BY <4>1, EmptySeq DEF ToSet
      <4> QED BY <1>1, <3>1, <3>2, <4>2, ScanFacts, DecodingAssumption
              DEF Listed, Named
    <3>5. ASSUME NEW i \in Entries, Swept(i) PROVE Swept(i)'
      <4>1. CASE i \in ToSet(new)
        <5>1. asked[i] = 0
          <6>1. i = next \/ i \in ToSet(list)
            BY <2>1, <4>1
          <6>2. Current \in hashes /\ next >= next
            BY <1>1, ScanFacts
          <6> QED BY <3>3, <3>5, <4>1, <6>1, <6>2 DEF Swept
        <5>2. Decoded(i)'
          <6>1. Fits(frames[i].object)' <=> Fits(frames[i].object)
            BY <1>1 DEF Fits
          <6> QED BY <1>1, <3>2, <4>1, <5>1, <6>1 DEF Decoded
        <5>3. ~ (i >= next')
          BY <1>1, <1>4, <3>3, <4>1, ScanFacts
        <5> QED BY <1>1, <3>2, <3>3, <3>4, <4>1, <5>2, <5>3 DEF Swept
      <4>2. CASE i \notin ToSet(new)
        <5>1. Decoded(i)' <=> Decoded(i)
          BY <1>1, <3>2, <4>2, DecodedKept
        <5>2. i # next /\ i \notin ToSet(list)
          BY <2>1, <4>2
        <5> QED BY <1>1, <1>4, <3>2, <3>4, <3>5, <4>2, <5>1, <5>2 DEF Swept
      <4> QED BY <4>1, <4>2
    <3>6. ASSUME NEW i \in Entries, i < first \/ i > last
          PROVE  asked'[i] = asked[i] /\ (Decoded(i) => Decoded(i)')
      <4>1. i \notin ToSet(new)
        BY <1>1, <1>4, <3>3, <3>6, ScanFacts
      <4> QED BY <1>1, <3>2, <4>1, DecodedKept
    <3>7. \A i \in Entries :
           /\ i < first => Decoded(i)'
           /\ i > last => asked'[i] = 0
           /\ ~ (i < first) /\ ~ (i > last) => Swept(i)'
      <4>1. ASSUME NEW i \in Entries, i > last PROVE asked'[i] = 0
        BY <1>5, <3>6, <4>1
      <4>2. ASSUME NEW i \in Entries, i < first PROVE Decoded(i)'
        BY <1>5, <3>6, <4>2
      <4>3. ASSUME NEW i \in Entries, ~ (i < first), ~ (i > last) PROVE Swept(i)'
        BY <1>5, <3>5, <4>3
      <4> QED BY <4>1, <4>2, <4>3
    <3> QED BY <1>3, <3>2, <3>4, <3>7
  <2> QED BY <2>3, <2>4
<1> QED BY <1>6, <1>7

LEMMA DecodeRest ==
  ASSUME DecodeInv, Rest
  PROVE  DecodeInv'
<1>1. /\ pc = "scan" /\ next > last /\ Ask(list) /\ list' = <<>>
      /\ hashes' = hashes \ {Current}
      /\ next' = first
      /\ UNCHANGED <<frames, last>>
      /\ Entries' = Entries
  BY DEF Rest, Entries
<1>2. /\ asked' \in [Entries -> Nat]
      /\ info' \in [Entries -> Infos]
      /\ \A i \in Entries :
           /\ info'[i].object = info[i].object
           /\ i \notin ToSet(list) =>
                asked'[i] = asked[i] /\ info'[i] = info[i]
           /\ i \in ToSet(list) =>
                /\ asked'[i] = asked[i] + 1
                /\ frames[i].lines /\ Fits(frames[i].object) => info'[i].line = i
  BY <1>1, AskFacts, ScanFacts DEF DecodeInv
<1>3. \A i \in ToSet(list) :
        i \in Entries /\ first <= i /\ i <= last /\ info[i].object = Current
  <2>1. DOMAIN list = 1 .. Len(list)
    BY LenProperties DEF DecodeInv, Types
  <2>2. \A k \in 1 .. Len(list) :
          list[k] \in first .. next - 1 /\ info[list[k]].object = Current
    BY <1>1, ScanFacts DEF Listed
  <2>3. next - 1 = last
    BY <1>1, ScanFacts
  <2> QED BY <1>1, <2>1, <2>2, <2>3, ScanFacts DEF ToSet, Entries
<1>4. /\ list' \in Seq(Entries) /\ Named'
      /\ first <= last /\ last <= Len(frames) /\ Len(frames) \in Nat
      /\ first \in Nat \ {0} /\ last \in Nat
      /\ hashes' \subseteq Nat
  BY <1>1, <1>2, EmptySeq, ScanFacts DEF Named
<1>5. ASSUME NEW i \in Entries, i < first \/ i > last
      PROVE  asked'[i] = asked[i] /\ (Decoded(i) => Decoded(i)')
  <2>1. i \notin ToSet(list)
    BY <1>3, <1>4, <1>5 DEF Entries
  <2> QED BY <1>1, <1>2, <2>1, DecodedKept
<1>6. ASSUME NEW i \in Entries, ~ (i < first), ~ (i > last)
      PROVE  IF info'[i].object \in hashes' THEN asked'[i] = 0 ELSE Decoded(i)'
  <2>1. Swept(i) /\ ~ (i >= next)
    BY <1>1, <1>6, ScanFacts DEF Entries
  <2>2. CASE i \in ToSet(list)
    <3>1. asked[i] = 0 /\ info[i].object = Current
      BY <1>1, <1>3, <2>1, <2>2, ScanFacts DEF Swept
    <3>2. Fits(frames[i].object)' <=> Fits(frames[i].object)
      BY <1>1 DEF Fits
    <3>3. Decoded(i)'
      BY <1>1, <1>2, <2>2, <3>1, <3>2 DEF Decoded
    <3> QED BY <1>1, <1>2, <3>1, <3>3
  <2>3. CASE i \notin ToSet(list)
    <3>1. Decoded(i)' <=> Decoded(i)
      BY <1>1, <1>2, <2>3, DecodedKept
    <3> QED BY <1>1, <1>2, <2>1, <2>3, <3>1 DEF Swept
  <2> QED BY <2>2, <2>3
<1>7. \A i \in Entries :
        /\ i \in Nat
        /\ i < first => Decoded(i)'
        /\ i > last => asked'[i] = 0
  <2>1. \A i \in Entries :
          i \in Nat /\ (i < first => Decoded(i)) /\ (i > last => asked[i] = 0)
    <3>1. \A i \in Entries : i \in Nat /\ (i > last => ~ (i < first))
      BY <1>4 DEF Entries
    <3> QED BY <1>1, <3>1, ScanFacts
  <2> QED BY <1>5, <2>1
<1>8. CASE hashes' = {}
  <2>1. pc' = "window" /\ first' = last + 1
    BY <1>8 DEF Rest
  <2>2. Types'
    BY <1>1, <1>2, <1>4, <2>1 DEF DecodeInv, Types
  <2>3. \A i \in Entries : IF i < first' THEN Decoded(i)' ELSE asked'[i] = 0
    <3>1. \A i \in Entries : ~ (i < first) /\ ~ (i > last) => Decoded(i)'
      BY <1>6, <1>8
    <3>2. \A i \in Entries : i < first' <=> ~ (i > last)
      BY <1>4, <1>7, <2>1
    <3> QED BY <1>7, <3>1, <3>2
  <2>4. first' <= Len(frames) + 1
    BY <1>4, <2>1
  <2>5. Progress'
    BY <1>1, <1>4, <2>1, <2>3, <2>4 DEF Progress, Named
  <2> QED BY <2>2, <2>5 DEF DecodeInv
<1>9. CASE hashes' # {}
  <2>1. UNCHANGED <<pc, first>>
    BY <1>9 DEF Rest
  <2>2. Types'
    BY <1>1, <1>2, <1>4, <2>1 DEF DecodeInv, Types
  <2>3. \A i \in Entries : ~ (i < first) /\ ~ (i > last) => Swept(i)'
    <3>1. \A i \in Entries : ~ (i < first) => i >= next'
      BY <1>1, <1>4, <1>7
    <3> QED BY <1>6, <3>1 DEF Swept
  <2>4. Listed'
    BY <1>1, EmptySeq, DecodingAssumption DEF Listed
  <2>5. Progress'
    BY <1>1, <1>4, <1>7, <1>9, <2>1, <2>3, <2>4 DEF Progress, Named
  <2> QED BY <2>2, <2>5 DEF DecodeInv
<1> QED BY <1>8, <1>9

LEMMA DecodeFrame ==
  ASSUME DecodeInv, UNCHANGED <<stack, window>>,
         pc' = pc \/ (pc = "end" /\ pc' = "done")
  PROVE  DecodeInv'
<1>1. Types'
  BY DEF DecodeInv, Types, stack, window, Entries
<1>2. \A i : Decoded(i)' <=> Decoded(i)
  BY DEF Decoded, Fits, stack
<1>3. \A i : Swept(i)' <=> Swept(i)
  BY <1>2 DEF Swept, Current, stack, window
<1>4. Listed' <=> Listed
  BY DEF Listed, Current, stack, window
<1>5. Progress'
  BY <1>2, <1>3, <1>4 DEF DecodeInv, Progress, Entries, stack, window
<1> QED BY <1>1, <1>5 DEF DecodeInv

LEMMA DecodeStep == DecodeInv /\ [Next]_vars => DecodeInv'
<1> SUFFICES ASSUME DecodeInv, [Next]_vars PROVE DecodeInv'
  OBVIOUS
<1>1. ASSUME pc = "idle", NEW f \in Stacks, Begin(f) PROVE DecodeInv'
  BY <1>1, DecodeBegin
<1>2. CASE Describe
  BY <1>2, DecodeDescribe
<1>3. CASE Window
  BY <1>3, DecodeWindow
<1>4. CASE Scan
  BY <1>4, DecodeScan
<1>5. CASE Rest
  BY <1>5, DecodeRest
<1>6. CASE End
  BY <1>6, DecodeFrame DEF End
<1>7. CASE UNCHANGED <<pc, stack, window>>
  BY <1>7, DecodeFrame
<1> QED BY <1>1, <1>2, <1>3, <1>4, <1>5, <1>6, <1>7 DEF Next, vars

LEMMA DecodeInductive == Spec => []DecodeInv
  BY DecodeInit, DecodeStep, PTL DEF Spec

\* getStackInfo2 asks about every entry exactly once, however many objects,
\* windows, and full lists a stack makes, and finds every line that there is,
\* unless a list has more addresses than its command holds.
THEOREM EveryEntryDecoded == Spec => []DecodedUnlessCommandFull
<1>1. DecodeInv => DecodedUnlessCommandFull
  <2> SUFFICES ASSUME DecodeInv, pc = "done", NEW i \in DOMAIN info
               PROVE  /\ asked[i] = 1
                      /\ frames[i].lines /\ Fits(info[i].object) => info[i].line = i
    BY DEF DecodedUnlessCommandFull
  <2>1. i \in Entries /\ info[i].object = frames[i].object /\ Decoded(i)
    BY DEF DecodeInv, Types, Progress
  <2> QED BY <2>1 DEF Decoded
<1> QED BY DecodeInductive, <1>1, PTL

\* The entries of another object, of another list, or before and after an entry
\* never get its line: each has its own, or none.
THEOREM LinesHold == Spec => []LinesOfTheirEntry
<1> DEFINE Inv == DecodeInv /\ \A i \in Entries : info[i].line \in {0, i}
<1>1. Init => Inv
  <2>1. Init => Entries = {}
    BY EmptySeq DEF Init, Entries
  <2> QED BY <2>1, DecodeInit
<1>2. Inv /\ [Next]_vars => Inv'
  <2> SUFFICES ASSUME Inv, [Next]_vars PROVE Inv'
    OBVIOUS
  <2>1. DecodeInv'
    BY DecodeStep
  <2>2. ASSUME pc = "idle", NEW f \in Stacks, Begin(f)
        PROVE  \A i \in Entries' : info'[i].line \in {0, i}
    <3>1. DOMAIN info' = DOMAIN f /\ \A i \in DOMAIN f : info'[i].line = 0
      BY <2>2 DEF Begin, Blank
    <3>2. DOMAIN info' = Entries'
      BY <2>1 DEF DecodeInv, Types
    <3> QED BY <3>1, <3>2
  <2>3. CASE Describe
    <3>1. Entries' = Entries
      BY <2>3 DEF Describe, Entries
    <3>2. \A i \in Entries : info'[i].line = info[i].line
      <4>1. CASE info' = info
        BY <4>1
      <4>2. CASE info' = [info EXCEPT ![next] = [info[next] EXCEPT !.object = frames[next].object]]
        <5>1. \A i \in Entries : info[i] \in Infos
          BY DEF DecodeInv, Types
        <5>2. ASSUME next \in Entries
              PROVE  [info[next] EXCEPT !.object = frames[next].object].line = info[next].line
          BY <5>1, <5>2 DEF Infos
        <5> QED BY <4>2, <5>2 DEF DecodeInv, Types
      <4> QED BY <2>3, <4>1, <4>2 DEF Describe
    <3> QED BY <2>1, <3>1, <3>2
  <2>4. ASSUME NEW batch, Batch(batch), Ask(batch), UNCHANGED frames, pc = "scan"
        PROVE  \A i \in Entries' : info'[i].line \in {0, i}
    <3>1. \A i \in Entries : info'[i].line \in {info[i].line, i}
      BY <2>4, AskFacts, ScanFacts DEF DecodeInv
    <3> QED BY <2>4, <3>1 DEF Entries
  <2>5. ASSUME UNCHANGED <<frames, info>>
        PROVE  \A i \in Entries' : info'[i].line \in {0, i}
    BY <2>5 DEF Entries
  <2>6. CASE Scan
    <3>1. CASE Len(Collected) = ListSize
      <4>1. Batch(Collected)
        <5>1. CASE info[next].object = Current
          BY <2>6, <5>1, AppendFacts DEF Scan, Collected
        <5>2. CASE info[next].object # Current
          BY <2>6, <5>2, ScanFacts DEF Scan, Collected
        <5> QED BY <5>1, <5>2
      <4> QED BY <2>1, <2>4, <2>6, <3>1, <4>1 DEF Scan
    <3>2. CASE Len(Collected) # ListSize
      BY <2>1, <2>5, <2>6, <3>2 DEF Scan
    <3> QED BY <3>1, <3>2
  <2>7. CASE Rest
    BY <2>1, <2>4, <2>7, ScanFacts DEF Rest
  <2>8. CASE Window \/ End \/ UNCHANGED <<pc, stack, window>>
    BY <2>1, <2>5, <2>8 DEF Window, End, stack
  <2> QED BY <2>1, <2>2, <2>3, <2>6, <2>7, <2>8 DEF Next, vars
<1>3. Inv => LinesOfTheirEntry
  BY DEF DecodeInv, Types, LinesOfTheirEntry
<1> QED BY <1>1, <1>2, <1>3, PTL DEF Spec
=============================================================================
