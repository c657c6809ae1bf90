----------------------------- MODULE CallTree -----------------------------
(***************************************************************************)
(* multi_stack_info (StackTrace.cpp): the call stacks of several threads   *)
(* merged into a tree, a node per frame with the number N of stacks that   *)
(* go through it; how trees are built, merged, sent, printed, read back    *)
(* and cleaned up.                                                         *)
(*                                                                         *)
(* A frame is [addr, off, obj, look]: its address, its offset in its       *)
(* object, the object, and what cleanupStackTrace makes of its names:      *)
(* "drop" (acquiring the stack: removed with all it calls), "cut" (fgets:  *)
(* loses what it calls), "hide" (no use to the reader) or "show".  A node  *)
(* keeps the capacity of its vector of children: the library's             *)
(* vector::operator= depends on it when the source lies in the target.     *)
(***************************************************************************)
EXTENDS Integers, Sequences, SequencesExt, FiniteSetsExt

Looks == {"drop", "cut", "hide", "show"}
NoFrame == [addr |-> 0, off |-> 0, obj |-> 0, look |-> "hide"]
Node(n, frame) == [N |-> n, frame |-> frame, children |-> <<>>, cap |-> 0]
Empty == Node(0, NoFrame)

\* stack_info::operator==
Same(a, b) == a.addr = b.addr \/ (a.off = b.off /\ a.obj = b.obj)
Positions(t, frame) == {i \in DOMAIN t.children : Same(t.children[i].frame, frame)}

\* vector::push_back, resize( size() + 1 ): the capacity doubles.
PushBack(t, child) ==
  [t EXCEPT !.children = Append(@, child),
            !.cap = IF Len(t.children) < @ THEN @ ELSE Max({1, 2 * @})]

\* The copy constructor: no spare capacity.
RECURSIVE Copy(_)
Copy(t) ==
  [t EXCEPT !.children = [i \in DOMAIN @ |-> Copy(@[i])], !.cap = Len(t.children)]

\* What reading destroyed or uninitialized nodes yields.
Lost == Node(0, [NoFrame EXCEPT !.look = "lost"])

-----------------------------------------------------------------------------
(* Building, merging, sending *)

\* Variant: N is counted where the stack ends.
RECURSIVE AddStackAtEnd(_, _, _)
AddStackAtEnd(t, s, len) ==
  IF len = 0 THEN [t EXCEPT !.N = @ + 1] ELSE
  LET I == Positions(t, s[len])
  IN  IF I = {}
      THEN PushBack(t, AddStackAtEnd(Node(0, s[len]), s, len - 1))
      ELSE [t EXCEPT !.children[Min(I)] = AddStackAtEnd(@, s, len - 1)]

\* add( len, stack ): the stack is innermost first, the tree outermost first.
RECURSIVE AddStack(_, _, _)
AddStack(t, s, len) ==
  IF len = 0 THEN t ELSE
  LET I == Positions(t, s[len])
  IN  IF I = {}
      THEN PushBack(t, AddStack(Node(1, s[len]), s, len - 1))
      ELSE [t EXCEPT !.children[Min(I)] = AddStack([@ EXCEPT !.N = @ + 1], s, len - 1)]

\* add( rhs ): every equal child takes x in.
RECURSIVE AddTree(_, _)
AddTree(t, rhs) ==
  LET AddChild(u, x) ==
        LET I == Positions(u, x.frame)
        IN  IF I = {}
            THEN PushBack(u, Copy(x))
            ELSE [u EXCEPT !.children =
                   [i \in DOMAIN @ |-> IF i \in I THEN AddTree(@[i], x) ELSE @[i]]]
  IN  FoldLeft(AddChild, [t EXCEPT !.N = @ + rhs.N], rhs.children)

\* pack(): one word for N, one for the frame, one for the number of children.
RECURSIVE Pack(_)
Pack(t) ==
  <<t.N, t.frame, Len(t.children)>>
    \o FlattenSeq([i \in DOMAIN t.children |-> Pack(t.children[i])])

\* Variant: the number of children is left out.
RECURSIVE SizeNoCount(_)
SizeNoCount(t) == 2 + FoldLeft(LAMBDA n, c : n + SizeNoCount(c), 0, t.children)

\* size(): the words that pack() will write.
RECURSIVE Size(_)
Size(t) == 3 + FoldLeft(LAMBDA n, c : n + Size(c), 0, t.children)

\* unpack(): the tree at the head of data, and the words behind it.
RECURSIVE Unpack(_)
Unpack(data) ==
  LET UnpackChild(r, i) ==
        LET u == Unpack(r.rest)
        IN  [tree |-> [r.tree EXCEPT !.children = Append(@, u.tree)], rest |-> u.rest]
  IN  FoldLeft(UnpackChild,
               [tree |-> [Node(data[1], data[2]) EXCEPT !.cap = data[3]],
                rest |-> SubSeq(data, 4, Len(data))],
               [i \in 1 .. data[3] |-> i])

-----------------------------------------------------------------------------
(* Printing and reading back *)

\* print2(): a line per frame with an address, indented by its depth.
RECURSIVE PrintLines(_, _)
PrintLines(t, indent) ==
  LET shown == t.frame.addr # 0
      inner == IF shown THEN indent + 2 ELSE indent
  IN  (IF shown THEN <<[indent |-> indent, N |-> t.N, frame |-> t.frame]>> ELSE <<>>)
        \o FlattenSeq([i \in DOMAIN t.children |-> PrintLines(t.children[i], inner)])

\* parseLine(): both addresses of the frame are the one printed.
ParseLine(line) == Node(line.N, [line.frame EXCEPT !.off = line.frame.addr])

\* PushBack at the node that path leads to.
RECURSIVE PushBackAt(_, _, _)
PushBackAt(t, path, child) ==
  IF path = <<>> THEN PushBack(t, child)
  ELSE [t EXCEPT !.children[Head(path)] = PushBackAt(@, Tail(path), child)]

RECURSIVE ChildAt(_, _)
ChildAt(t, path) ==
  IF path = <<>> THEN t ELSE ChildAt(t.children[Head(path)], Tail(path))

\* Variant: if, not while.
OutdentOnce(map, indent) ==
  IF indent < map[Len(map)].indent THEN Front(map) ELSE map

\* while ( indent < map.back().first ) map.resize( map.size() - 1 )
RECURSIVE Outdent(_, _)
Outdent(map, indent) ==
  IF indent < map[Len(map)].indent THEN Outdent(Front(map), indent) ELSE map

\* generateFromString(): map holds the vectors a line can be added to; a line
\* further in than the last vector goes below its last element, which an empty
\* vector does not have ("defined" is then FALSE).
FromLines(lines) ==
  LET AddLine(r, line) ==
        LET map  == Outdent(r.map, line.indent)
            top  == map[Len(map)]
            last == Len(ChildAt(r.tree, top.path).children)
            deep == Append(top.path, last)
        IN  IF ~r.defined THEN r
            ELSE IF line.indent = top.indent
            THEN [r EXCEPT !.map = map, !.tree = PushBackAt(@, top.path, ParseLine(line))]
            ELSE IF last = 0 THEN [r EXCEPT !.defined = FALSE]
            ELSE [r EXCEPT !.map = Append(map, [indent |-> line.indent, path |-> deep]),
                           !.tree = PushBackAt(@, deep, ParseLine(line))]
  IN  FoldLeft(AddLine,
               [tree |-> Empty, map |-> <<[indent |-> 0, path |-> <<>>]>>,
                defined |-> TRUE],
               lines)

-----------------------------------------------------------------------------
(* cleanupStackTrace *)

\* *it = it->children[0], the only child.  Its children are assigned to the
\* vector that holds them: a new vector when they do not fit, and otherwise in
\* place, which overwrites the source of the assignment as it goes.
RECURSIVE Hoist(_)
Hoist(t) ==
  LET child == t.children[1]
      k     == Len(child.children)
      kept  == [child EXCEPT !.cap = t.cap]
  IN  IF k > t.cap THEN Copy(child)
      ELSE IF k = 0 THEN kept
      ELSE IF k = 1 THEN [kept EXCEPT !.children = <<Hoist(child)>>]
      ELSE [kept EXCEPT !.children = [i \in 1 .. k |-> Lost]]

\* Variant: the children of a repeated entry are not taken over.
CombineOne(earlier, it) == [earlier EXCEPT !.N = @ + it.N]

\* it2->N += it->N; it2's children get those of it.
Combine(earlier, it) ==
  FoldLeft(PushBack, [earlier EXCEPT !.N = @ + it.N],
           [i \in DOMAIN it.children |-> Copy(it.children[i])])

\* Variant: an entry is compared with the one before it.
EqualBefore(t, i, frame) == {j \in {i - 1} \ {0} : Same(frame, t.children[j].frame)}

\* The entries before the i-th that it repeats.
Equal(t, i, frame) == {j \in 1 .. i - 1 : Same(frame, t.children[j].frame)}

RECURSIVE Cleanup(_), CleanupFrom(_, _)
CleanupFrom(t, i) ==
  IF i > Len(t.children) THEN t ELSE
  LET it     == t.children[i]
      erased == [t EXCEPT !.children = RemoveAt(@, i)]
      cut    == IF it.frame.look = "cut" THEN [it EXCEPT !.children = <<>>] ELSE it
      n      == Len(cut.children)
      clean  == Cleanup(cut)
      equal  == Equal(t, i, clean.frame)
  IN  CASE it.frame.look = "drop" -> CleanupFrom(erased, i)
        [] cut.frame.look = "hide" /\ n = 0 -> CleanupFrom(erased, i)
        [] cut.frame.look = "hide" /\ n = 1 ->
             CleanupFrom([t EXCEPT !.children[i] = Hoist(cut)], i)
        [] OTHER ->
             IF equal = {}
             THEN CleanupFrom([t EXCEPT !.children[i] = clean], i + 1)
             ELSE CleanupFrom([erased EXCEPT !.children =
                    [j \in DOMAIN @ |->
                       IF j \in equal THEN Cleanup(Combine(@[j], clean)) ELSE @[j]]], i)
Cleanup(t) == CleanupFrom(t, 1)
=============================================================================
