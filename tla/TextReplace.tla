---------------------------- MODULE TextReplace ----------------------------
(***************************************************************************)
(* replace() of StackTrace.cpp: len cells of a text, from pos on, become   *)
(* the text r.  The tail is copied forward within one array, so it reads   *)
(* what the copy has already written as soon as r is longer than what it   *)
(* replaces; and the text never grows.                                     *)
(***************************************************************************)
EXTENDS Integers, Sequences

\* What a reader of its name expects: the text with r in place of the cells.
Splice(str, pos, len, r) ==
  SubSeq(str, 1, pos) \o r \o SubSeq(str, pos + len + 1, Len(str))

\* The cell of the tail at k is the one that stood d cells before it when it
\* was written.  For d > 0 that cell is in the tail itself, d cells after an
\* earlier one, and so on back to the d cells that end with r: those repeat.
Replace(str, pos, len, r) ==
  LET d == Len(r) - len
      Repeated(k) == len + ((k - pos - Len(r) - 1) % d)
      Cell(k) ==
        IF k <= pos THEN str[k]
        ELSE IF k <= pos + Len(r) THEN r[k - pos]
        ELSE IF d <= 0 THEN str[k - d]
        ELSE IF Repeated(k) < 0 THEN str[pos + Repeated(k) + 1]
        ELSE r[Repeated(k) + 1]
  IN  [k \in 1 .. (IF d <= 0 THEN Len(str) + d ELSE Len(str)) |-> Cell(k)]
=============================================================================
