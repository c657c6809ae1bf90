------------------------ MODULE AddressLookupProofs ------------------------
(***************************************************************************)
(* For tables of every size of at least two symbols: the search stays in   *)
(* the table, finds the symbol before the address, and closes in at every  *)
(* turn.  The invariant says that the bounds enclose the address if the    *)
(* table does.                                                             *)
(***************************************************************************)
EXTENDS AddressLookup, TLAPS

\* More than one symbol: the loop ends only with upper = lower + 1.
Pairs == MinSize >= 2

Bracket ==
  /\ address[0] < target => address[lower] < target
  /\ target <= address[size - 1] => target <= address[upper]

\* The inductive invariant of the search (getDataFromGlobalSymbols).
Enclosed ==
  /\ TypeOK
  /\ Sorted(size, address)
  /\ Bracket
  /\ lower < upper
  /\ done => upper - lower = 1

\* The middle of two bounds that are not neighbours lies between them.
LEMMA Middle ==
  ASSUME NEW l \in Nat, NEW u \in Nat, l < u, u - l # 1
  PROVE  /\ (u + l) \div 2 \in Nat
         /\ l < (u + l) \div 2
         /\ (u + l) \div 2 < u
  OBVIOUS

\* The whole table encloses what it can.
LEMMA InitEncloses ==
  ASSUME Pairs, Init
  PROVE  Enclosed
<1>1. size \in MinSize .. MaxSize /\ size \in Nat /\ size >= 2
  BY LookupAssumption DEF Init, Pairs
<1>2. TypeOK
  <2>1. lower \in 0 .. size - 1 /\ upper \in 0 .. size - 1 /\ lower <= upper
    BY <1>1 DEF Init
  <2> QED
    BY <2>1, <1>1 DEF Init, TypeOK
<1>3. Bracket /\ lower < upper
  BY <1>1 DEF Init, Bracket
<1> QED
  BY <1>2, <1>3 DEF Init, Enclosed

\* A turn of the loop keeps the address enclosed.
LEMMA HalveEncloses ==
  ASSUME Enclosed, Halve
  PROVE  Enclosed' /\ upper' - lower' < upper - lower
<1> DEFINE v == (upper + lower) \div 2
<1>0. size \in Nat /\ lower \in Nat /\ upper \in Nat /\ upper < size
  BY LookupAssumption DEF Enclosed, TypeOK
<1>1. v \in Nat /\ lower < v /\ v < upper
  BY <1>0, Middle DEF Enclosed, Halve
<1>2. address[v] \in Int /\ target \in Int
  BY <1>0, <1>1 DEF Enclosed, TypeOK, Addresses
<1>3. UNCHANGED <<size, address, target, done>>
  BY DEF Halve, given
<1>4. CASE address[v] >= target
  <2>1. upper' = v /\ lower' = lower
    BY <1>4 DEF Halve, Value
  <2>2. TypeOK' /\ Sorted(size, address)'
    BY <2>1, <1>0, <1>1, <1>3 DEF Enclosed, TypeOK, Sorted
  <2>3. Bracket'
    BY <2>1, <1>2, <1>3, <1>4 DEF Enclosed, Bracket
  <2> QED
    BY <2>1, <2>2, <2>3, <1>0, <1>1, <1>3 DEF Enclosed, Halve
<1>5. CASE ~(address[v] >= target)
  <2>1. lower' = v /\ upper' = upper
    BY <1>5 DEF Halve, Value
  <2>2. TypeOK' /\ Sorted(size, address)'
    BY <2>1, <1>0, <1>1, <1>3 DEF Enclosed, TypeOK, Sorted
  <2>3. Bracket'
    BY <2>1, <1>2, <1>3, <1>5 DEF Enclosed, Bracket
  <2> QED
    BY <2>1, <2>2, <2>3, <1>0, <1>1, <1>3 DEF Enclosed, Halve
<1> QED
  BY <1>4, <1>5

\* The end of the loop leaves the bounds alone.
LEMMA LeaveEncloses ==
  ASSUME Enclosed, Leave
  PROVE  Enclosed'
  BY DEF Enclosed, TypeOK, Sorted, Bracket, Leave, given

\* A step of the search, or a stutter.
LEMMA StepEncloses ==
  ASSUME Enclosed, [Next]_vars
  PROVE  Enclosed'
<1>1. CASE UNCHANGED vars
  BY <1>1 DEF Enclosed, TypeOK, Sorted, Bracket, vars
<1> QED
  BY <1>1, HalveEncloses, LeaveEncloses DEF Next

\* getDataFromGlobalSymbols, two symbols or more: the invariant.
THEOREM Inductive == Pairs => (Spec => []Enclosed)
<1> SUFFICES ASSUME Pairs PROVE Spec => []Enclosed
  OBVIOUS
<1>1. Init => Enclosed
  BY InitEncloses
<1>2. Enclosed /\ [Next]_vars => Enclosed'
  BY StepEncloses
<1> QED
  BY <1>1, <1>2, PTL DEF Spec

\* The search never leaves the table, whatever its size.
THEOREM TypeCorrect == Pairs => (Spec => []TypeOK)
<1>1. Enclosed => TypeOK
  BY DEF Enclosed
<1> QED
  BY <1>1, Inductive, PTL

\* Neighbours that enclose an address: the lower one is its symbol.
LEMMA EnclosedPrecedes == Enclosed => Preceding
<1>1. ASSUME Enclosed, done, address[0] < target, target <= address[size - 1],
             NEW i \in 0 .. size - 1
      PROVE  address[i] < target <=> i <= lower
  <2>0. size \in Nat /\ lower \in 0 .. size - 1 /\ upper \in 0 .. size - 1
    BY <1>1, LookupAssumption DEF Enclosed, TypeOK
  <2>1. /\ address[i] \in Int /\ address[lower] \in Int /\ address[upper] \in Int
        /\ target \in Int
    BY <1>1, <2>0 DEF Enclosed, TypeOK, Addresses
  <2>2. upper = lower + 1 /\ address[lower] < target /\ target <= address[upper]
    BY <1>1, <2>0 DEF Enclosed, Bracket
  <2>3. CASE i <= lower
    <3>1. address[i] <= address[lower]
      BY <1>1, <2>0, <2>3 DEF Enclosed, Sorted
    <3> QED
      BY <3>1, <2>1, <2>2, <2>3
  <2>4. CASE ~(i <= lower)
    <3>1. upper <= i
      BY <2>0, <2>2, <2>4
    <3>2. address[upper] <= address[i]
      BY <1>1, <2>0, <3>1 DEF Enclosed, Sorted
    <3> QED
      BY <3>2, <2>1, <2>2, <2>4
  <2> QED
    BY <2>3, <2>4
<1> QED
  BY <1>1 DEF Preceding

\* data[lower] is the last symbol before an address inside the table.
THEOREM FindsPreceding == Pairs => (Spec => []Preceding)
  BY EnclosedPrecedes, Inductive, PTL

\* Every turn of the loop brings the bounds closer: with upper - lower a
\* natural number, the loop cannot run for ever.
THEOREM TurnsShrink == Pairs => (Spec => Shrinks)
<1>1. ASSUME Enclosed, [Next]_vars
      PROVE  [done' \/ upper' - lower' < upper - lower]_vars
  <2>1. CASE Halve
    BY <2>1, <1>1, HalveEncloses
  <2>2. CASE Leave
    BY <2>2 DEF Leave
  <2> QED
    BY <1>1, <2>1, <2>2 DEF Next
<1> QED
  BY <1>1, Inductive, PTL DEF Spec, Shrinks

\* Every turn of the loop halves the distance of the bounds, rounded up.
Halves == [][done' \/ 2 * (upper' - lower') <= upper - lower + 1]_vars

LEMMA HalveHalves ==
  ASSUME Enclosed, Halve
  PROVE  2 * (upper' - lower') <= upper - lower + 1
<1>1. size \in Nat /\ lower \in Nat /\ upper \in Nat /\ lower <= upper
  BY LookupAssumption DEF Enclosed, TypeOK
<1>2. /\ 2 * ((upper + lower) \div 2) <= upper + lower
      /\ upper + lower <= 2 * ((upper + lower) \div 2) + 1
  BY <1>1
<1>. QED
  BY <1>1, <1>2 DEF Halve, Value

\* The search of getDataFromGlobalSymbols is a binary one: the number of turns is
\* logarithmic in the size of the table.
THEOREM TurnsHalve == Pairs => (Spec => Halves)
<1>1. ASSUME Enclosed, [Next]_vars
      PROVE  [done' \/ 2 * (upper' - lower') <= upper - lower + 1]_vars
  BY <1>1, HalveHalves DEF Next, Leave
<1>. QED
  BY <1>1, Inductive, PTL DEF Spec, Halves
=============================================================================
