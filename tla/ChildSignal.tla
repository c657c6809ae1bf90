---------------------------- MODULE ChildSignal ----------------------------
(***************************************************************************)
(* Running a command (exec2, Utilities.hpp): the disposition of SIGCHLD    *)
(* belongs to the process, and every call saves it, ignores the signal     *)
(* while its child runs, and puts back what it saved.  Nothing keeps two   *)
(* calls apart.                                                            *)
(***************************************************************************)
EXTENDS Integers

CONSTANTS
  Threads,     \* callers of exec2
  PopenFails,  \* popen may fail
  MaxCalls     \* bound: calls of each thread

VARIABLES
  chld,     \* the disposition of SIGCHLD: "program" or "ignore"
  saved,    \* saved[t]: sig, a local variable of the call
  pc,       \* where each call is
  child,    \* child[t]: "none", "running", "zombie" or "reaped"
  result,   \* result[t]: how the last call ended: "none", "ran" or "failed"
  calls,    \* calls[t]: how many calls t has made
  overlap,  \* history: two calls were under way at once
  failed,   \* history: popen has failed
  handled   \* history: the program's handler has run for a child of exec2

vars == <<chld, saved, pc, child, result, calls, overlap, failed, handled>>

Goto(t, label) == pc' = [pc EXCEPT ![t] = label]

Init ==
  /\ chld = "program"
  /\ saved = [t \in Threads |-> "program"]
  /\ pc = [t \in Threads |-> "idle"]
  /\ child = [t \in Threads |-> "none"]
  /\ result = [t \in Threads |-> "none"]
  /\ calls = [t \in Threads |-> 0]
  /\ overlap = FALSE
  /\ failed = FALSE
  /\ handled = FALSE

\* auto sig = signal( SIGCHLD, SIG_IGN )
SaveAndIgnore(t) ==
  /\ pc[t] = "idle"
  /\ calls[t] < MaxCalls
  /\ calls' = [calls EXCEPT ![t] = @ + 1]
  /\ saved' = [saved EXCEPT ![t] = chld]
  /\ chld' = "ignore"
  /\ overlap' = (overlap \/ \E s \in Threads : pc[s] # "idle")
  /\ Goto(t, "popen")
  /\ UNCHANGED <<child, result, failed, handled>>

Popen(t) ==
  /\ pc[t] = "popen"
  /\ child' = [child EXCEPT ![t] = "running"]
  /\ Goto(t, "read")
  /\ UNCHANGED <<chld, saved, result, calls, overlap, failed, handled>>

\* if ( pipe == nullptr ) return -1
PopenFail(t) ==
  /\ pc[t] = "popen"
  /\ PopenFails
  /\ failed' = TRUE
  /\ result' = [result EXCEPT ![t] = "failed"]
  /\ saved' = [saved EXCEPT ![t] = "program"]
  /\ Goto(t, "idle")
  /\ UNCHANGED <<chld, child, calls, overlap, handled>>

\* The command ends: a zombie with a code, or nothing.
ChildExits(t) ==
  /\ child[t] = "running"
  /\ child' = [child EXCEPT ![t] = IF chld = "ignore" THEN "reaped" ELSE "zombie"]
  /\ handled' = (handled \/ chld = "program")
  /\ UNCHANGED <<chld, saved, pc, result, calls, overlap, failed>>

\* Variant: the child is not waited for.
PcloseEarly(t) ==
  /\ pc[t] = "read"
  /\ result' = [result EXCEPT ![t] = "ran"]
  /\ Goto(t, "restore")
  /\ UNCHANGED <<chld, saved, child, calls, overlap, failed, handled>>

\* The pipe is at its end; pclose waits for the child, and for one that was
\* reaped it reports ECHILD, which becomes the exit code 0.
Pclose(t) ==
  /\ pc[t] = "read"
  /\ child[t] \in {"zombie", "reaped"}
  /\ result' = [result EXCEPT ![t] = "ran"]
  /\ child' = [child EXCEPT ![t] = "none"]
  /\ Goto(t, "restore")
  /\ UNCHANGED <<chld, saved, calls, overlap, failed, handled>>

\* Variant: the signal stays ignored.
RestoreNot(t) ==
  /\ pc[t] = "restore"
  /\ Goto(t, "idle")
  /\ UNCHANGED <<chld, saved, child, result, calls, overlap, failed, handled>>

\* signal( SIGCHLD, sig )
Restore(t) ==
  /\ pc[t] = "restore"
  /\ chld' = saved[t]
  /\ saved' = [saved EXCEPT ![t] = "program"]
  /\ Goto(t, "idle")
  /\ UNCHANGED <<child, result, calls, overlap, failed, handled>>

\* A call once it has begun, and the child of it, up to its last step.
Step(t) == Popen(t) \/ Pclose(t)

-----------------------------------------------------------------------------
(* Properties *)

\* Types of the variables; a call has a child exactly while it reads its pipe.
TypeOK ==
  /\ chld \in {"program", "ignore"}
  /\ saved \in [Threads -> {"program", "ignore"}]
  /\ pc \in [Threads -> {"idle", "popen", "read", "restore"}]
  /\ child \in [Threads -> {"none", "running", "zombie", "reaped"}]
  /\ \A t \in Threads : child[t] # "none" <=> pc[t] = "read"
  /\ result \in [Threads -> {"none", "ran", "failed"}]
  /\ calls \in [Threads -> 0 .. MaxCalls]
  /\ {overlap, failed, handled} \subseteq BOOLEAN

\* No call is under way.
Quiet == \A t \in Threads : pc[t] = "idle"

\* exec2 gives SIGCHLD back to the program when its calls are over, unless two
\* of them overlapped or popen failed.
RestoredUnlessOverlap == Quiet /\ ~overlap /\ ~failed => chld = "program"

\* The program's SIGCHLD handler does not run for a child of exec2, unless
\* calls overlapped.
HandlerOnlyOnOverlap == handled => overlap
=============================================================================
