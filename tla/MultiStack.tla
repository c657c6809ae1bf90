---------------------------- MODULE MultiStack ----------------------------
(***************************************************************************)
(* The life of a merged call stack: the stacks of the local threads are    *)
(* added one by one, another process does the same and sends its tree, the *)
(* two are merged, and the result is cleaned up for display                *)
(* (generateMultiStack, getGlobalCallStacks, cleanupStackTrace).           *)
(***************************************************************************)
EXTENDS CallTree, FiniteSets

CONSTANTS
  LocalStacks,   \* the stacks a local thread may have, innermost frame first
  RemoteStacks,  \* those of a thread of the other process
  MaxStacks      \* bound: stacks of each process

VARIABLES
  local,     \* the tree of this process
  remote,    \* the tree of the other process
  recorded,  \* history: the stacks that local stands for
  sent,      \* history: the stacks that remote stands for
  raw,       \* history: local before cleanupStackTrace
  phase      \* "adding", "gathered" or "clean"

vars == <<local, remote, recorded, sent, raw, phase>>

Init ==
  /\ local = Empty
  /\ remote = Empty
  /\ recorded = <<>>
  /\ sent = <<>>
  /\ raw = Empty
  /\ phase = "adding"

\* generateMultiStack counts the stack in the root and adds it.
WithStack(t, s) == AddStack([t EXCEPT !.N = @ + 1], s, Len(s))

AddLocal(s) ==
  /\ phase = "adding"
  /\ Len(recorded) < MaxStacks
  /\ local' = WithStack(local, s)
  /\ recorded' = Append(recorded, s)
  /\ UNCHANGED <<remote, sent, raw, phase>>

AddRemote(s) ==
  /\ phase = "adding"
  /\ Len(sent) < MaxStacks
  /\ remote' = WithStack(remote, s)
  /\ sent' = Append(sent, s)
  /\ UNCHANGED <<local, recorded, raw, phase>>

\* Variant: the tree that arrives replaces the one of this process.
GatherReplaces ==
  /\ phase = "adding"
  /\ local' = AddTree(Empty, Unpack(Pack(remote)).tree)
  /\ recorded' = recorded \o sent
  /\ phase' = "gathered"
  /\ UNCHANGED <<remote, sent, raw>>

\* getRemoteCallStacks unpacks the tree into an empty one, getGlobalCallStacks
\* adds that to the local one.
Gather ==
  /\ phase = "adding"
  /\ local' = AddTree(local, AddTree(Empty, Unpack(Pack(remote)).tree))
  /\ recorded' = recorded \o sent
  /\ phase' = "gathered"
  /\ UNCHANGED <<remote, sent, raw>>

Clean ==
  /\ phase # "clean"
  /\ raw' = local
  /\ local' = Cleanup(local)
  /\ phase' = "clean"
  /\ UNCHANGED <<remote, recorded, sent>>

Next ==
  \/ \E s \in LocalStacks : AddLocal(s)
  \/ \E s \in RemoteStacks : AddRemote(s)
  \/ Gather
  \/ Clean

Spec == Init /\ [][Next]_vars

-----------------------------------------------------------------------------
(* What the properties look at *)

Frames == UNION {{s[i] : i \in DOMAIN s} : s \in LocalStacks \union RemoteStacks}

\* Two frames are one function when operator== says so.
Class(frame) == {f \in Frames : Same(f, frame)}

\* The nodes of a tree, each with the classes on its way, outermost first.
RECURSIVE NodesBelow(_, _)
NodesBelow(t, path) ==
  UNION {LET c == t.children[i]
             p == Append(path, Class(c.frame))
         IN  {[path |-> p, N |-> c.N]} \union NodesBelow(c, p) :
           i \in DOMAIN t.children}

RECURSIVE CountNodes(_)
CountNodes(t) == FoldLeft(LAMBDA n, c : n + 1 + CountNodes(c), 0, t.children)

\* The k outermost frames of a stack.
Outer(s, k) == [i \in 1 .. k |-> Class(s[Len(s) + 1 - i])]
Through(ss, path) ==
  {i \in DOMAIN ss : Len(path) <= Len(ss[i]) /\ Outer(ss[i], Len(path)) = path}
PathsOf(ss) == UNION {{Outer(ss[i], k) : k \in 1 .. Len(ss[i])} : i \in DOMAIN ss}

\* The tree t is the one of the stacks ss: a node for every path, and its N
\* the number of stacks that start with it.
StandsFor(t, ss) ==
  /\ t.N = Len(ss)
  /\ NodesBelow(t, <<>>) =
       {[path |-> p, N |-> Cardinality(Through(ss, p))] : p \in PathsOf(ss)}
  /\ CountNodes(t) = Cardinality(PathsOf(ss))

\* How many stacks go through the frame, in the part cleanup must keep.
RECURSIVE Total(_, _)
Total(t, frame) ==
  LET Own(c) == IF Same(c.frame, frame) THEN c.N ELSE 0
      Below(c) == IF c.frame.look = "cut" THEN 0 ELSE Total(c, frame)
      Kept(c) == IF c.frame.look = "drop" THEN 0 ELSE Own(c) + Below(c)
  IN  FoldLeft(LAMBDA n, c : n + Kept(c), 0, t.children)

RECURSIVE AllNodes(_)
AllNodes(t) == {t} \union UNION {AllNodes(t.children[i]) : i \in DOMAIN t.children}

-----------------------------------------------------------------------------
(* Properties *)

\* multi_stack_info::add: the merged tree has a node for each calling sequence
\* of the stacks recorded, and its N counts the stacks that share it, also
\* after the trees of two processes have been merged.
TreeMatchesStacks ==
  /\ phase # "clean" => StandsFor(local, recorded)
  /\ StandsFor(remote, sent)

\* pack, size, unpack: what is sent is what arrives, to the last word.
PackRoundTrip ==
  LET data == Pack(remote) IN
  /\ Size(remote) = Len(data)
  /\ Unpack(data) = [tree |-> Copy(remote), rest |-> <<>>]

\* print, generateFromString: a printed tree, read back, prints the same.
PrintRoundTrip ==
  LET lines == PrintLines(local, 0)
      back  == FromLines(lines)
      Shape(ls) == [i \in DOMAIN ls |-> <<ls[i].indent, ls[i].N, ls[i].frame.addr>>]
  IN  back.defined /\ Shape(PrintLines(back.tree, 0)) = Shape(lines)

\* cleanupStackTrace: what it shows, it shows with the number of stacks it had.
CleanupKeepsCounts ==
  phase = "clean" =>
    \A f \in Frames : f.look \in {"show", "cut"} => Total(local, f) = Total(raw, f)

\* cleanupStackTrace: "Combine any children with the same address": no caller
\* is left with two entries for one callee.
CleanupCombines ==
  phase = "clean" =>
    \A t \in AllNodes(local) : \A i, j \in DOMAIN t.children :
      Same(t.children[i].frame, t.children[j].frame) => i = j
=============================================================================
