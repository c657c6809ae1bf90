---------------------------- MODULE SymbolCache ----------------------------
(***************************************************************************)
(* The cached symbols of the executable (StackTrace.cpp): getSymbols and   *)
(* clearSymbols work under StackTrace_mutex, getDataFromGlobalSymbols      *)
(* fills and searches the same cache without it.  A thread at "nm" runs    *)
(* nm (SymbolLoading composes the cache with ChildSignal).                 *)
(***************************************************************************)
EXTENDS Naturals

CONSTANTS
  Users,     \* threads that call getSymbols and clearSymbols
  Decoders,  \* threads that call getDataFromGlobalSymbols
  Nobody

VARIABLES
  mutex,   \* owner of StackTrace_mutex
  loaded,  \* global_symbols_loaded
  data,    \* global_symbols_data
  pc,      \* what each thread does
  result   \* the local copy that getSymbols is about to return

vars == <<mutex, loaded, data, pc, result>>

Threads == Users \union Decoders
Goto(t, label) == pc' = [pc EXCEPT ![t] = label]

Init ==
  /\ mutex = Nobody
  /\ loaded = FALSE
  /\ data = "empty"
  /\ pc = [t \in Threads |-> "idle"]
  /\ result = [t \in Users |-> "none"]

-----------------------------------------------------------------------------
(* getSymbols, clearSymbols *)

Lock(t, label) ==
  /\ pc[t] = "idle"
  /\ mutex = Nobody
  /\ mutex' = t
  /\ Goto(t, label)
  /\ UNCHANGED <<loaded, data, result>>

(* Filling the cache: getSymbols, and then copies it; *)
(* getDataFromGlobalSymbols, and then searches it.     *)

Then(t) == IF t \in Users THEN "copy" ELSE "search"

Test(t, then) ==
  /\ pc[t] = "test"
  /\ Goto(t, IF loaded THEN then ELSE "nm")
  /\ UNCHANGED <<mutex, loaded, data, result>>

RunNm(t) ==
  /\ pc[t] = "nm"
  /\ Goto(t, "assign")
  /\ UNCHANGED <<mutex, loaded, data, result>>

\* What getSymbolData() found; nothing, if nm could not be run.
Assign(t, found) ==
  /\ pc[t] = "assign"
  /\ data' = found
  /\ Goto(t, "flag")
  /\ UNCHANGED <<mutex, loaded, result>>

Flag(t, then) ==
  /\ pc[t] = "flag"
  /\ loaded' = TRUE
  /\ Goto(t, then)
  /\ UNCHANGED <<mutex, data, result>>

CopyData(t) ==
  /\ pc[t] = "copy"
  /\ result' = [result EXCEPT ![t] = data]
  /\ Goto(t, "unlock")
  /\ UNCHANGED <<mutex, loaded, data>>

Unlock(t) ==
  /\ pc[t] = "unlock"
  /\ mutex' = Nobody
  /\ result' = [result EXCEPT ![t] = "none"]
  /\ Goto(t, "idle")
  /\ UNCHANGED <<loaded, data>>

\* Variant: an empty cache is left alone with the mutex held.
ClearEarlyReturn(t) ==
  /\ pc[t] = "clear"
  /\ Goto(t, IF loaded THEN "clear_assign" ELSE "idle")
  /\ UNCHANGED <<mutex, loaded, data, result>>

Clear(t) ==
  /\ pc[t] = "clear"
  /\ Goto(t, IF loaded THEN "clear_assign" ELSE "unlock")
  /\ UNCHANGED <<mutex, loaded, data, result>>

ClearAssign(t) ==
  /\ pc[t] = "clear_assign"
  /\ data' = "empty"
  /\ Goto(t, "clear_flag")
  /\ UNCHANGED <<mutex, loaded, result>>

\* Variant: the flag stays.
ClearFlagKept(t) ==
  /\ pc[t] = "clear_flag"
  /\ Goto(t, "unlock")
  /\ UNCHANGED <<mutex, loaded, data, result>>

ClearFlag(t) ==
  /\ pc[t] = "clear_flag"
  /\ loaded' = FALSE
  /\ Goto(t, "unlock")
  /\ UNCHANGED <<mutex, data, result>>

-----------------------------------------------------------------------------
(* getDataFromGlobalSymbols *)

Decode(t) ==
  /\ pc[t] = "idle"
  /\ Goto(t, "test")
  /\ UNCHANGED <<mutex, loaded, data, result>>

\* The binary search (AddressLookup).
Search(t) ==
  /\ pc[t] = "search"
  /\ Goto(t, "idle")
  /\ UNCHANGED <<mutex, loaded, data, result>>

-----------------------------------------------------------------------------
\* The steps of a call, but for those that fill the cache.
Step(t) ==
  \/ Test(t, Then(t)) \/ Flag(t, Then(t))
  \/ CopyData(t) \/ Unlock(t) \/ Clear(t) \/ ClearAssign(t) \/ ClearFlag(t)
  \/ Search(t)

-----------------------------------------------------------------------------
(* Properties *)

\* Types of the variables; a user at work owns the mutex, a decoder never does.
TypeOK ==
  /\ mutex \in Users \union {Nobody}
  /\ \A t \in Users : pc[t] # "search" /\ (pc[t] # "idle" <=> mutex = t)
  /\ \A t \in Decoders :
       pc[t] \in {"idle", "test", "nm", "assign", "flag", "search"}
  /\ loaded \in BOOLEAN
  /\ data \in {"empty", "table"}
  /\ pc \in [Threads -> {"idle", "test", "nm", "assign", "flag", "copy", "unlock",
                         "clear", "clear_assign", "clear_flag", "search"}]
  /\ result \in [Users -> {"none", "empty", "table"}]
=============================================================================
