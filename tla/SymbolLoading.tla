--------------------------- MODULE SymbolLoading ---------------------------
(***************************************************************************)
(* The symbol cache and the commands that fill it, together: a thread that *)
(* finds the cache empty runs nm through exec2, under StackTrace_mutex     *)
(* when it is in getSymbols and without it when it decodes an address,     *)
(* while other threads run commands of their own (addr2line, ps, exec()).  *)
(***************************************************************************)
EXTENDS Naturals

CONSTANTS
  Users,       \* threads that call getSymbols and clearSymbols
  Decoders,    \* threads that call getDataFromGlobalSymbols
  Callers,     \* the threads among them that run other commands as well
  Nobody,
  PopenFails,  \* popen may fail
  MaxCalls     \* bound: commands of each thread

ASSUME LoadingAssumption ==
  /\ Nobody \notin Users \union Decoders
  /\ Users \intersect Decoders = {}
  /\ Callers \subseteq Users \union Decoders
  /\ PopenFails \in BOOLEAN
  /\ MaxCalls \in Nat

VARIABLES
  mutex, loaded, data, pc, result,            \* the cache
  chld, saved, at, child, exit, calls,  \* the commands
  overlap, failed, handled,                   \* their history
  mixed  \* history: a decoder filled the cache while a user was at work

cacheVars == <<mutex, loaded, data, pc, result>>
childVars == <<chld, saved, at, child, exit, calls, overlap, failed, handled>>
vars == <<cacheVars, childVars, mixed>>

Threads == Users \union Decoders

Cache == INSTANCE SymbolCache
Child == INSTANCE ChildSignal WITH pc <- at, result <- exit

Init == Cache!Init /\ Child!Init /\ mixed = FALSE

\* A user and a decoder are inside the cache at the same time.
Mixing(labels) ==
  \E d \in Decoders : /\ labels[d] \in {"nm", "assign", "flag"}
                      /\ \E u \in Users : labels[u] # "idle"

CacheStep == UNCHANGED childVars /\ mixed' = (mixed \/ Mixing(pc'))
ChildStep == UNCHANGED <<cacheVars, mixed>>

-----------------------------------------------------------------------------
\* getSymbols, clearSymbols, getDataFromGlobalSymbols.
GetSymbols(t) == calls[t] < MaxCalls /\ Cache!Lock(t, "test") /\ CacheStep
ClearSymbols(t) == Cache!Lock(t, "clear") /\ CacheStep
DecodeAddress(t) == calls[t] < MaxCalls /\ Cache!Decode(t) /\ CacheStep

\* getSymbolData() runs nm ...
NmBegins(t) == pc[t] = "nm" /\ Child!SaveAndIgnore(t) /\ ChildStep

\* ... and has its output, or nothing.
NmEnds(t) ==
  /\ Child!Restore(t) \/ Child!PopenFail(t)
  /\ Cache!RunNm(t)
  /\ mixed' = (mixed \/ Mixing(pc'))

\* What nm printed goes to the cache; also nothing, when it was not run.
Store(t) ==
  /\ Cache!Assign(t, IF exit[t] = "failed" THEN "empty" ELSE "table")
  /\ CacheStep

\* Another command: addr2line for a stack, ps for the threads, exec().
CommandBegins(t) ==
  /\ pc[t] = "idle"
  /\ calls[t] < MaxCalls
  /\ Child!SaveAndIgnore(t)
  /\ ChildStep

CommandEnds(t) ==
  /\ pc[t] = "idle"
  /\ Child!Restore(t) \/ Child!PopenFail(t)
  /\ ChildStep

Command(t) == Child!Step(t) /\ ChildStep
ChildExits(t) == Child!ChildExits(t) /\ ChildStep

-----------------------------------------------------------------------------
\* What t does once it is in a call.
Step(t) ==
  \/ Cache!Step(t) /\ CacheStep
  \/ NmBegins(t) \/ NmEnds(t) \/ Store(t)
  \/ Command(t) \/ CommandEnds(t)

\* A thread that runs a command does nothing else meanwhile.
Free(t) == at[t] = "idle"

Next ==
  \/ \E t \in Users : Free(t) /\ (GetSymbols(t) \/ ClearSymbols(t))
  \/ \E t \in Decoders : Free(t) /\ DecodeAddress(t)
  \/ \E t \in Callers : Free(t) /\ CommandBegins(t)
  \/ \E t \in Threads : Step(t) \/ ChildExits(t)

Spec == Init /\ [][Next]_vars

\* Threads are scheduled, and every command comes to an end.
FairSpec ==
  Spec /\ \A t \in Threads : WF_vars(Step(t)) /\ WF_vars(ChildExits(t))

-----------------------------------------------------------------------------
(* Properties *)

\* Types of the variables of both parts.
TypeOK == Cache!TypeOK /\ Child!TypeOK /\ mixed \in BOOLEAN

\* global_symbols_loaded and global_symbols_data agree whenever nobody is at
\* work: an empty table counts as loaded only because a command could not be
\* run, or because a decoder, which takes no mutex, got in between.
EmptyOnlyAfterFailure ==
  mutex = Nobody /\ loaded /\ data = "empty" => failed \/ mixed

\* exec2 gives SIGCHLD back to the program when its calls are over, unless two
\* of them overlapped or popen failed.
RestoredUnlessOverlap == Child!RestoredUnlessOverlap

\* The program's SIGCHLD handler does not run for a child of exec2, unless
\* calls overlapped.
HandlerOnlyOnOverlap == Child!HandlerOnlyOnOverlap

\* StackTrace_mutex is always given back, although a command runs under it.
MutexReleased == \A t \in Users : (mutex = t) ~> (mutex # t)
=============================================================================
