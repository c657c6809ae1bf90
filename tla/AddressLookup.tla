--------------------------- MODULE AddressLookup ---------------------------
(***************************************************************************)
(* The symbol of an address that belongs to no known object                *)
(* (getDataFromGlobalSymbols, StackTrace.cpp): a binary search in the      *)
(* table of symbols, which nm -n has sorted by address.  One step of the   *)
(* specification is one turn of the loop.                                  *)
(***************************************************************************)
EXTENDS Integers

CONSTANTS
  MinSize, MaxSize,  \* the sizes of the table
  MaxAddress         \* bound: the addresses

ASSUME LookupAssumption ==
  /\ MinSize \in Nat \ {0}
  /\ MaxSize \in Nat
  /\ MaxAddress \in Nat

VARIABLES
  size,     \* data.size(), not 0
  address,  \* address[i]: data[i].address
  target,   \* info.address
  lower, upper,
  done      \* the loop has ended

vars == <<size, address, target, lower, upper, done>>
given == <<size, address, target>>

Addresses == 0 .. MaxAddress
Sorted(n, f) == \A i, j \in 0 .. n - 1 : i <= j => f[i] <= f[j]

Init ==
  /\ size \in MinSize .. MaxSize
  /\ address \in [0 .. size - 1 -> Addresses]
  /\ Sorted(size, address)
  /\ target \in Addresses
  /\ lower = 0
  /\ upper = size - 1
  /\ done = FALSE

Value == (upper + lower) \div 2

\* Variant: > for >=.
HalveAbove ==
  /\ ~done
  /\ upper - lower # 1
  /\ IF address[Value] > target
     THEN upper' = Value /\ UNCHANGED lower
     ELSE lower' = Value /\ UNCHANGED upper
  /\ UNCHANGED <<given, done>>

Halve ==
  /\ ~done
  /\ upper - lower # 1
  /\ IF address[Value] >= target
     THEN upper' = Value /\ UNCHANGED lower
     ELSE lower' = Value /\ UNCHANGED upper
  /\ UNCHANGED <<given, done>>

\* Variant: the loop ends when the bounds meet.
LeaveWhenMet ==
  /\ ~done
  /\ upper = lower
  /\ done' = TRUE
  /\ UNCHANGED <<given, lower, upper>>

\* The loop ends; upper > 0, so data[lower] is the symbol.
Leave ==
  /\ ~done
  /\ upper - lower = 1
  /\ done' = TRUE
  /\ UNCHANGED <<given, lower, upper>>

Next == Halve \/ Leave
Spec == Init /\ [][Next]_vars
FairSpec == Spec /\ WF_vars(Next)

-----------------------------------------------------------------------------
(* Properties *)

\* Types of the variables, and the bounds stay in the table and in order.
TypeOK ==
  /\ size \in MinSize .. MaxSize
  /\ address \in [0 .. size - 1 -> Addresses]
  /\ target \in Addresses
  /\ lower \in 0 .. size - 1
  /\ upper \in 0 .. size - 1
  /\ lower <= upper
  /\ done \in BOOLEAN

\* An address between the first symbol and the last one gets the last symbol
\* before it (getDataFromGlobalSymbols: data[lower]).
Preceding ==
  done /\ address[0] < target /\ target <= address[size - 1] =>
    \A i \in 0 .. size - 1 : address[i] < target <=> i <= lower

\* The bounds close in on each other at every turn of the loop, so that a table
\* of n symbols takes fewer than n turns.
Shrinks == [][done' \/ upper' - lower' < upper - lower]_vars

\* The search for an address comes to an end.
SearchEnds == <>done
=============================================================================
