-------------------------- MODULE AddressDecoding --------------------------
(***************************************************************************)
(* From the addresses of a stack to their files and lines (getStackInfo2,  *)
(* StackTrace.cpp).  A loop names the object of each address, and          *)
(* getFileAndLine asks addr2line about them: it takes a window of entries  *)
(* with not too many objects, collects the entries of one object after the *)
(* other in a list of fixed capacity, and runs one command for every list. *)
(* A command has 4096 bytes; the addresses that find no room in it are     *)
(* left out, and then none of its output is used.                          *)
(*                                                                         *)
(* One thread is followed through its stack.  Others are in getStackInfo2  *)
(* at the same time; they share the disposition of SIGINT with it.         *)
(***************************************************************************)
EXTENDS Integers, Sequences, SequencesExt

CONSTANTS
  Decoder,      \* the thread that is followed
  Others,       \* other threads that decode stacks
  Objects,      \* objects, by their objHash
  Unreadable,   \* objects for which addr2line prints nothing
  Room,         \* Room[o]: how many addresses of o a command holds
  ListSize,     \* capacity of list: 256
  WindowSize,   \* capacity of objectHash: 256
  MaxLength     \* bound: entries of the stack

ASSUME DecodingAssumption ==
  /\ Decoder \notin Others
  /\ Objects \subseteq Nat
  /\ Unreadable \subseteq Objects
  /\ Room \in [Objects -> Nat \ {0}]
  /\ {ListSize, WindowSize} \subseteq Nat \ {0}
  /\ MaxLength \in Nat

VARIABLES
  sigint,   \* disposition of SIGINT: "program" or "exit" (signal_handler)
  prev,     \* prev[t]: prev_handler, a local variable of the call
  inside,   \* the threads in getStackInfo2
  overlap,  \* history: two threads were inside at once
  pc,       \* where the decoder is
  frames,   \* what the addresses are: an object, and whether it has lines
  info,     \* info[i]: the object and the line found; line j is that of entry j
  first,    \* i0
  last,     \* N2, the last entry of the window
  hashes,   \* the objects of the window that are still to be asked about
  next,     \* the entry that the loop over the window looks at
  list,     \* the entries collected for the next command
  asked     \* history: asked[i], the commands made for entry i

signals == <<sigint, prev, inside, overlap>>
stack == <<frames, info, asked>>
window == <<first, last, hashes, next, list>>
vars == <<signals, pc, stack, window>>

\* Nothing is known of the addresses of an unreadable object.
Kinds == {k \in [object : Objects, lines : BOOLEAN] :
            k.lines => k.object \notin Unreadable}
Blank == [object |-> 0, line |-> 0]

Init ==
  /\ sigint = "program"
  /\ prev = [t \in Others \union {Decoder} |-> "program"]
  /\ inside = {}
  /\ overlap = FALSE
  /\ pc = "idle"
  /\ frames = <<>>
  /\ info = <<>>
  /\ first = 1
  /\ last = 0
  /\ hashes = {}
  /\ next = 1
  /\ list = <<>>
  /\ asked = <<>>

-----------------------------------------------------------------------------
(* getStackInfo2: "Temporarily handle signals" *)

Enter(t) ==
  /\ t \notin inside
  /\ prev' = [prev EXCEPT ![t] = sigint]
  /\ sigint' = "exit"
  /\ inside' = inside \union {t}
  /\ overlap' = (overlap \/ inside # {})

\* Variant: a thread that finds the signal handled leaves it so.
LeaveHandled(t) ==
  /\ t \in inside
  /\ sigint' = IF sigint = "exit" THEN "exit" ELSE prev[t]
  /\ inside' = inside \ {t}
  /\ UNCHANGED <<prev, overlap>>

Leave(t) ==
  /\ t \in inside
  /\ sigint' = prev[t]
  /\ inside' = inside \ {t}
  /\ UNCHANGED <<prev, overlap>>

\* A stack of the program; its addresses are not named yet.
Begin(f) ==
  /\ Enter(Decoder)
  /\ frames' = f
  /\ info' = [i \in DOMAIN f |-> Blank]
  /\ asked' = [i \in DOMAIN f |-> 0]
  /\ pc' = "describe"
  /\ UNCHANGED window

\* getStackInfo( info[i] ): dladdr, or the table of symbols (AddressLookup).
Describe ==
  /\ pc = "describe"
  /\ IF next <= Len(info)
     THEN /\ info' = [info EXCEPT ![next].object = frames[next].object]
          /\ next' = next + 1
          /\ UNCHANGED pc
     ELSE pc' = "window" /\ UNCHANGED <<info, next>>
  /\ UNCHANGED <<signals, frames, asked, first, last, hashes, list>>

-----------------------------------------------------------------------------
(* getFileAndLine *)

ObjectsIn(i, j) == {info[k].object : k \in i .. j}

\* Entries are taken as long as another object would find room.
WindowEnd ==
  Max({n \in first .. Len(info) :
         Cardinality(ObjectsIn(first, n - 1)) < WindowSize})

Window ==
  /\ pc = "window"
  /\ IF first <= Len(info)
     THEN /\ last' = WindowEnd
          /\ hashes' = ObjectsIn(first, WindowEnd)
          /\ next' = first
          /\ pc' = "scan"
     ELSE pc' = "end" /\ UNCHANGED <<last, hashes, next>>
  /\ UNCHANGED <<signals, stack, first, list>>

\* objectHash is sorted.
Current == Min(hashes)

Collected ==
  IF info[next].object = Current THEN Append(list, next) ELSE list

\* Variant: two lines of output for each entry, as atos prints.
SpeaksOfShort(batch, k) == batch[(k + 1) \div 2]

\* The entry that the lines of output used for the k-th entry speak of.
SpeaksOf(batch, k) == batch[k]

\* The positions with output; none, unless every address is answered.
Output(batch) ==
  {k \in DOMAIN batch : Current \notin Unreadable /\ Len(batch) <= Room[Current]}

\* getFileAndLineObject: "??" is no line, and the name of the function is
\* never taken from the output, as function.empty() is false for an array.
Ask(batch) ==
  /\ asked' = [i \in DOMAIN asked |->
       IF i \in ToSet(batch) THEN asked[i] + 1 ELSE asked[i]]
  /\ info' = [i \in DOMAIN info |->
       IF \E k \in Output(batch) : batch[k] = i /\ frames[SpeaksOf(batch, k)].lines
       THEN [info[i] EXCEPT !.line =
               SpeaksOf(batch, CHOOSE k \in Output(batch) : batch[k] = i)]
       ELSE info[i]]

\* Variant: the list is not cleared, and push_back drops what follows.
ScanUncleared ==
  /\ pc = "scan"
  /\ next <= last
  /\ list' = IF Len(list) < ListSize THEN Collected ELSE list
  /\ IF Len(list') = ListSize THEN Ask(list') ELSE UNCHANGED <<info, asked>>
  /\ next' = next + 1
  /\ UNCHANGED <<signals, pc, frames, first, last, hashes>>

\* A full list is asked about at once.
Scan ==
  /\ pc = "scan"
  /\ next <= last
  /\ IF Len(Collected) = ListSize
     THEN Ask(Collected) /\ list' = <<>>
     ELSE list' = Collected /\ UNCHANGED <<info, asked>>
  /\ next' = next + 1
  /\ UNCHANGED <<signals, pc, frames, first, last, hashes>>

\* The rest of the list, then the next object, or the next window.
Rest ==
  /\ pc = "scan"
  /\ next > last
  /\ Ask(list)
  /\ list' = <<>>
  /\ hashes' = hashes \ {Current}
  /\ next' = first
  /\ IF hashes' = {}
     THEN pc' = "window" /\ first' = last + 1
     ELSE UNCHANGED <<pc, first>>
  /\ UNCHANGED <<signals, frames, last>>

End ==
  /\ pc = "end"
  /\ Leave(Decoder)
  /\ pc' = "done"
  /\ UNCHANGED <<stack, window>>

-----------------------------------------------------------------------------
Stacks == UNION {[1 .. n -> Kinds] : n \in 0 .. MaxLength}

Next ==
  \/ pc = "idle" /\ \E f \in Stacks : Begin(f)
  \/ Describe \/ Window \/ Scan \/ Rest \/ End
  \/ \E t \in Others : (Enter(t) \/ Leave(t)) /\ UNCHANGED <<pc, stack, window>>

Spec == Init /\ [][Next]_vars

-----------------------------------------------------------------------------
(* Properties *)

\* The file and the line of an entry are those of its own address, however the
\* entries were distributed over windows, lists and commands.
LinesOfTheirEntry == \A i \in DOMAIN info : info[i].line \in {0, i}

\* The addresses of an object fit the command, however many lists they fill.
Fits(o) ==
  LET count == Cardinality({i \in DOMAIN frames : frames[i].object = o})
  IN  Room[o] >= Min({count, ListSize})

\* "Get the filename / line numbers for each item on the stack" (getStackInfo2):
\* every entry is asked about exactly once, and every line that addr2line knows
\* is found, unless a list has more addresses than a command holds.
DecodedUnlessCommandFull ==
  pc = "done" =>
    \A i \in DOMAIN info :
      /\ asked[i] = 1
      /\ frames[i].lines /\ Fits(info[i].object) => info[i].line = i

\* getStackInfo2 gives SIGINT back to the program when its calls are over,
\* unless two of them overlapped.
SigintRestoredUnlessOverlap == inside = {} /\ ~overlap => sigint = "program"
=============================================================================
