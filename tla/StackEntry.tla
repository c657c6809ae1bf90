----------------------------- MODULE StackEntry -----------------------------
(***************************************************************************)
(* One entry of a stack, from its address to a line of text and back       *)
(* (StackTrace.cpp): getStackInfo names its object and its function,       *)
(* getFileAndLine its file, multi_stack_info::print writes a line, and     *)
(* parseLine reads it.                                                     *)
(*                                                                         *)
(* dladdr may know the address; if not, the table of symbols is searched   *)
(* (AddressLookup), and the entry gets an object but no name.              *)
(***************************************************************************)
EXTENDS AddressLookup, FunctionNames

CONSTANTS
  Symbols,       \* what dladdr may say of the function: names, see FunctionNames
  ObjectWidths,  \* the lengths of the objects' names
  FunctionSize   \* the cells of stack_info::function

ASSUME EntryAssumption ==
  /\ ObjectWidths \subseteq Nat \ {0}
  /\ FunctionSize \in Nat /\ FunctionSize > 4

VARIABLES
  phase,     \* "search", "known" (to dladdr), "named", "located", "printed", "parsed"
  symbol,    \* what dladdr says, or NoName
  object,    \* the length of the object's name, or 0
  function,
  file,      \* the file and its line, or none
  printed,   \* the line of text
  parsed     \* what parseLine reads in it

entry == <<symbol, object, function, file>>
entryVars == <<phase, entry, printed, parsed>>

NoName == Name(<<>>, <<>>, 0, FALSE)
NoFile == <<>>
Files == {<<"file", 0>>, <<"file", 7>>}

EntryInit ==
  /\ symbol \in Symbols \union {NoName}
  /\ \/ phase = "search" /\ symbol = NoName /\ Init
     \/ /\ phase = "known"
        /\ size = MinSize /\ address = [i \in 0 .. size - 1 |-> 0] /\ target = 0
        /\ lower = 0 /\ upper = size - 1 /\ done = TRUE
  /\ object = 0 /\ function = <<>> /\ file = NoFile
  /\ printed = <<>> /\ parsed = <<>>

\* copy(): a text that fills its array ends in dots.
Copy(text) ==
  IF Len(text) < FunctionSize THEN text
  ELSE SubSeq(text, 1, FunctionSize - 4) \o <<".", ".", ".">>

\* getDataFromGlobalSymbols: the object of the symbol, or the executable.
FromTable ==
  /\ phase = "search" /\ done
  /\ phase' = "named"
  /\ object' \in ObjectWidths
  /\ UNCHANGED <<symbol, function, file, printed, parsed>>

FromDladdr ==
  /\ phase = "known"
  /\ phase' = "named"
  /\ object' \in ObjectWidths
  /\ function' = IF symbol = NoName THEN <<>> ELSE Copy(cleanupFunctionName(symbol.raw))
  /\ UNCHANGED <<symbol, file, printed, parsed>>

\* function.empty() asks for the size of an array: whatever addr2line says, the
\* function stays as it is.
Locate ==
  /\ phase = "named"
  /\ phase' = "located"
  /\ file' \in Files \union {NoFile}
  /\ UNCHANGED <<symbol, object, function, printed, parsed>>

\* The objects' column is as wide as size() of an array allows.
Column == 20

\* The line after the address: spaces, then the words that there are.  The space
\* between two words is two wide or more.
Gap == 2 + (IF object = 0 THEN Column + 2 ELSE IF object < Column THEN Column - object ELSE 0)
Words == (IF object = 0 THEN <<>> ELSE <<<<"object", object>>>>)
           \o (IF function = <<>> THEN <<>> ELSE <<function>>)
           \o (IF file = NoFile THEN <<>> ELSE <<file>>)

PrintLine ==
  /\ phase = "located"
  /\ phase' = "printed"
  /\ printed' = [gap |-> Gap, words |-> Words]
  /\ UNCHANGED <<entry, parsed>>

Fields(words) == [object |-> words[1], function |-> words[2], file |-> words[3]]
Read(w, indented) ==
  IF Len(w) = 3 THEN Fields(w)
  ELSE IF Len(w) = 2 THEN Fields(IF indented THEN <<<<>>>> \o w ELSE w \o <<<<>>>>)
  ELSE Fields(IF indented THEN <<<<>>, w[1], <<>>>> ELSE <<w[1], <<>>, <<>>>>)

\* Variant: >= for >.
ParseFrom20 ==
  /\ phase = "printed"
  /\ phase' = "parsed"
  /\ parsed' = Read(printed.words, printed.gap + 1 >= Column)
  /\ UNCHANGED <<entry, printed>>

\* parseLine: with fewer than three words, a first one far to the right is
\* taken for a function.
ParseLine ==
  /\ phase = "printed"
  /\ phase' = "parsed"
  /\ parsed' = Read(printed.words, printed.gap + 1 > Column)
  /\ UNCHANGED <<entry, printed>>

Search == phase = "search" /\ Next /\ UNCHANGED entryVars

EntryNext ==
  \/ Search
  \/ (FromTable \/ FromDladdr \/ Locate \/ PrintLine \/ ParseLine) /\ UNCHANGED vars

EntrySpec == EntryInit /\ [][EntryNext]_<<vars, entryVars>>
                       /\ WF_<<vars, entryVars>>(Search)

-----------------------------------------------------------------------------
(* Properties *)

\* A name is abbreviated as the comments of cleanupFunctionName say, exactly
\* unless it is one that the rules garble (char16_t strings, a second vector,
\* sleep_for of seconds, make_shared without arguments or with commas in its
\* type).
AbbreviatedUnlessMisread ==
  phase = "named" /\ symbol # NoName =>
    (function = Copy(symbol.short) <=> ~symbol.misread)

\* The line that print writes reads back as the entry (generateFromString)
\* unless the entry has a file but no function, or the name of its object is
\* so short that the object is taken for a function.
LineReadBack ==
  phase = "parsed" =>
    \/ parsed = Fields(<<<<"object", object>>, function, file>>)
    \/ function = <<>> /\ file # NoFile
    \/ object < 3 /\ Len(printed.words) < 3

\* cleanupFunctionName abbreviates std::make_shared.
MakeSharedAbbreviated ==
  phase = "named" => function # PastEnd
=============================================================================
