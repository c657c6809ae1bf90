---------------------------- MODULE Termination ----------------------------
(***************************************************************************)
(* How a failing process ends (StackTrace.cpp "Set the signal handlers",   *)
(* Utilities.cpp "Function to terminate the program").                     *)
(*                                                                         *)
(* A thread fails by an uncaught exception (std::terminate calls           *)
(* term_func) or by a signal (terminateFunctionSignal), both call          *)
(* abort_fun, and the abort_fun that setErrorHandlers() installs is        *)
(* Utilities::terminate: it takes terminate_mutex, uninstalls every        *)
(* handler, prints the error with the stacks of the other threads, and     *)
(* ends the process.  Several threads may fail at once, and a signal may   *)
(* interrupt a thread that is already failing, so each thread has a stack  *)
(* of activities, the running one first.                                   *)
(*                                                                         *)
(* The signal that asks a thread for its stack is one of those that        *)
(* setErrorHandlers catches and clearSignals gives back, and backtrace     *)
(* installs its handler under StackTrace_mutex, which they do not take.    *)
(***************************************************************************)
EXTENDS Integers, Sequences

CONSTANTS
  Threads,          \* the threads of the process
  NoThread,         \* no owner
  Main,             \* the thread that installs and clears the handlers
  ThrowException,   \* abort_throwException (setAbortBehavior)
  SignalPoints,     \* the labels at which a signal may interrupt a thread
  MaxFailures       \* bound: exceptions and signals in a behaviour

Kinds == {"none", "user", "exception", "abort", "signal", "fault"}
Signals == {"fail", "trace"}  \* "trace": thread_callstack_signal
Labels == {"run", "work", "set_term", "set_sigs",
           "rethrow", "clear_signals", "abort_fun", "lock",
           "clear_fun", "clear_term", "clear_sigs", "decide",
           "what", "walk", "print", "unlock", "abort"}

Owning == {"work", "clear_fun", "clear_term", "clear_sigs", "decide", "what",
           "walk", "print", "unlock"}

ASSUME TerminationAssumption ==
  /\ NoThread \notin Threads
  /\ Main \in Threads
  /\ ThrowException \in BOOLEAN
  /\ SignalPoints \subseteq Labels
  /\ MaxFailures \in Nat

VARIABLES
  proc,        \* "up", "dead", or "traced": killed by the callstack signal
  stack,       \* stack[t]: the activities of t, the running one first
  installed,   \* what the program asked for: "no", "yes" or "cleared"
  abortFun,    \* abort_fun: "empty", "terminate" or "noop"
  termHandler, \* the std::terminate handler: "default", "term_func", "null"
  disp,        \* disp[s]: "default", "term" (terminateFunctionSignal), "trace"
  signalsSet,  \* signals_set
  mpi,         \* MPI: "off", its errors are "fatal", or "throw"
  triedThrow,  \* tried_throw of rethrow()
  tMutex,      \* owner of terminate_mutex
  stMutex,     \* owner of StackTrace_mutex
  forceExit,   \* force_exit
  asked,       \* the threads that have a callstack signal pending
  raced,       \* history: setSignals found such a signal pending
  reports,     \* errors printed
  failures     \* exceptions and signals so far

signals == <<disp, signalsSet>>
handlers == <<installed, abortFun, termHandler, signals, mpi>>
tracing == <<asked, raced>>
vars == <<proc, stack, handlers, triedThrow, tMutex, stMutex, forceExit, tracing,
          reports, failures>>
ending == <<tMutex, forceExit, reports>>

Frame(label, kind) == [at |-> label, kind |-> kind]
Top(t) == Head(stack[t])
At(t, label) == proc = "up" /\ Top(t).at = label
Jump(t, label) == stack' = [stack EXCEPT ![t][1].at = label]
Push(t, label, kind) ==
  stack' = [stack EXCEPT ![t] = <<Frame(label, kind)>> \o @]
Pop(t) == stack' = [stack EXCEPT ![t] = Tail(@)]

\* clearSignals(): what is in signals_set goes back to the default.
ClearCaught ==
  /\ disp' = [s \in Signals |-> IF s \in signalsSet THEN "default" ELSE disp[s]]
  /\ signalsSet' = {}

\* setMPIErrorHandler, clearMPIErrorHandler: nothing is done without MPI.
HandleMPI(handling) == mpi' = IF mpi = "off" THEN mpi ELSE handling

Init ==
  /\ proc = "up"
  /\ stack = [t \in Threads |-> <<Frame("run", "none")>>]
  /\ installed = "no"
  /\ abortFun = "empty"
  /\ termHandler = "default"
  /\ disp = [s \in Signals |-> "default"]
  /\ signalsSet = {}
  /\ mpi \in {"off", "fatal"}
  /\ asked = {}
  /\ raced = FALSE
  /\ triedThrow = FALSE
  /\ tMutex = NoThread
  /\ stMutex = NoThread
  /\ forceExit = 0
  /\ reports = 0
  /\ failures = 0

-----------------------------------------------------------------------------
(* The program installs the handlers, works, and clears the handlers *)

\* setErrorHandlers( nullptr ): the handler of MPI's errors and abort_fun ...
SetErrorHandlers(t) ==
  /\ At(t, "run")
  /\ installed = "no"
  /\ HandleMPI("throw")
  /\ abortFun' = "terminate"
  /\ Jump(t, "set_term")
  /\ UNCHANGED <<proc, installed, termHandler, signals, triedThrow, ending, tracing,
                 stMutex, failures>>

\* ... then the terminate handler ...
SetTerminate(t) ==
  /\ At(t, "set_term")
  /\ termHandler' = "term_func"
  /\ Jump(t, "set_sigs")
  /\ UNCHANGED <<proc, installed, abortFun, signals, mpi, triedThrow, ending,
                 tracing, stMutex, failures>>

\* ... then the signals, the one of backtrace among them.
SetSignals(t) ==
  /\ At(t, "set_sigs")
  /\ disp' = [s \in Signals |-> "term"]
  /\ signalsSet' = Signals
  /\ raced' = (raced \/ asked # {})
  /\ installed' = "yes"
  /\ Jump(t, "run")
  /\ UNCHANGED <<proc, abortFun, termHandler, mpi, triedThrow, ending, asked, stMutex,
                 failures>>

\* clearErrorHandlers() restores the handlers of MPI and nothing else.
ClearErrorHandlers(t) ==
  /\ At(t, "run")
  /\ installed = "yes"
  /\ installed' = "cleared"
  /\ HandleMPI("fatal")
  /\ UNCHANGED <<proc, stack, abortFun, termHandler, signals, triedThrow, ending,
                 tracing, stMutex, failures>>

\* The program calls clearSignals( list ), or clearSignal for one.
ClearSignalList(t, list) ==
  /\ At(t, "run")
  /\ installed = "yes"
  /\ installed' = "cleared"
  /\ disp' = [s \in Signals |-> IF s \in list THEN "default" ELSE disp[s]]
  /\ signalsSet' = signalsSet \ list
  /\ UNCHANGED <<proc, stack, abortFun, termHandler, mpi, triedThrow, ending,
                 tracing, stMutex, failures>>

\* The program calls clearErrorHandler() itself.
ClearErrorHandler(t) ==
  /\ At(t, "run")
  /\ installed = "yes"
  /\ installed' = "cleared"
  /\ Push(t, "clear_fun", "user")
  /\ UNCHANGED <<proc, abortFun, termHandler, signals, mpi, triedThrow, ending,
                 tracing, stMutex, failures>>

-----------------------------------------------------------------------------
(* Stacks of other threads *)

\* Variant: the handler is taken for granted.
AskKeepingHandler(others) ==
  asked' = asked \union others /\ UNCHANGED disp

\* backtrace_thread: the handler is installed and the signal sent.
Interrupt(others) ==
  /\ asked' = asked \union others
  /\ disp' = IF others = {} THEN disp ELSE [disp EXCEPT !["trace"] = "trace"]

\* backtrace( tid ), or getSymbols or clearSymbols, which ask nobody: a call under
\* StackTrace_mutex.
WorkBegin(t) ==
  /\ At(t, "run")
  /\ stMutex = NoThread
  /\ stMutex' = t
  /\ \E others \in {{}} \union {{u} : u \in Threads \ {t}} : Interrupt(others)
  /\ Jump(t, "work")
  /\ UNCHANGED <<proc, installed, abortFun, termHandler, signalsSet, mpi, triedThrow,
                 ending, raced, failures>>

\* The answer is there, or the time is over.
WorkEnd(t) ==
  /\ At(t, "work")
  /\ stMutex' = NoThread
  /\ Jump(t, "run")
  /\ UNCHANGED <<proc, handlers, triedThrow, ending, tracing, failures>>

\* A thread gets its callstack signal: it answers, or does what the handler of
\* that moment does.
Deliver(t) ==
  /\ proc = "up"
  /\ t \in asked
  /\ asked' = asked \ {t}
  /\ CASE disp["trace"] = "trace" -> UNCHANGED <<proc, stack>>
       [] disp["trace"] = "term" -> Push(t, "abort_fun", "signal") /\ UNCHANGED proc
       [] disp["trace"] = "default" -> proc' = "traced" /\ UNCHANGED stack
  /\ UNCHANGED <<handlers, triedThrow, ending, raced, stMutex, failures>>

-----------------------------------------------------------------------------
(* Failures *)

\* An exception leaves a thread: an abort_error of Utilities::abort, or any other.
Throw(t, kind) ==
  /\ At(t, "run")
  /\ failures < MaxFailures
  /\ failures' = failures + 1
  /\ IF termHandler = "term_func"
     THEN Push(t, "rethrow", kind) /\ UNCHANGED proc
     ELSE proc' = "dead" /\ UNCHANGED stack
  /\ UNCHANGED <<handlers, triedThrow, ending, tracing, stMutex>>

\* An MPI call fails: MPI_error_handler_fun throws an abort_error, or MPI ends the
\* process.
MPIError(t) ==
  \/ mpi = "throw" /\ Throw(t, "abort")
  \/ /\ mpi = "fatal"
     /\ At(t, "run")
     /\ failures < MaxFailures
     /\ failures' = failures + 1
     /\ proc' = "dead"
     /\ UNCHANGED <<stack, handlers, triedThrow, ending, tracing, stMutex>>

\* A caught signal arrives ("signal": sent; "fault": raised by the code), and
\* terminateFunctionSignal collects the error.
Signal(t, kind) ==
  /\ proc = "up"
  /\ Top(t).at \in SignalPoints
  /\ kind = "fault" => Top(t).at \in {"run", "work"}
  /\ failures < MaxFailures
  /\ failures' = failures + 1
  /\ IF disp["fail"] = "term"
     THEN Push(t, "abort_fun", kind) /\ UNCHANGED proc
     ELSE proc' = "dead" /\ UNCHANGED stack
  /\ UNCHANGED <<handlers, triedThrow, ending, tracing, stMutex>>

\* rethrow(): "throw;" the first time; ever after, an error without a message.
Rethrow(t) ==
  /\ At(t, "rethrow")
  /\ triedThrow' = TRUE
  /\ stack' = [stack EXCEPT ![t][1] =
       Frame("clear_signals", IF triedThrow THEN "exception" ELSE @.kind)]
  /\ UNCHANGED <<proc, handlers, ending, tracing, stMutex, failures>>

\* term_func: clearSignals().
ClearSignals(t) ==
  /\ At(t, "clear_signals")
  /\ ClearCaught
  /\ Jump(t, "abort_fun")
  /\ UNCHANGED <<proc, installed, abortFun, termHandler, mpi, triedThrow, ending,
                 tracing, stMutex, failures>>

\* abort_fun( err ).  A no-op abort_fun returns: from term_func to
\* std::abort, from a signal handler to the interrupted code.
CallAbortFun(t) ==
  /\ At(t, "abort_fun")
  /\ IF abortFun = "terminate"
     THEN Jump(t, "lock") /\ UNCHANGED proc
     ELSE CASE Top(t).kind = "signal" -> Pop(t) /\ UNCHANGED proc
            [] Top(t).kind = "fault" /\ disp["fail"] = "term" ->
                 UNCHANGED <<proc, stack>>
            [] OTHER -> proc' = "dead" /\ UNCHANGED stack
  /\ UNCHANGED <<handlers, triedThrow, ending, tracing, stMutex, failures>>

-----------------------------------------------------------------------------
(* Utilities::terminate *)

Lock(t) ==
  /\ At(t, "lock")
  /\ tMutex = NoThread
  /\ tMutex' = t
  /\ Jump(t, "clear_fun")
  /\ UNCHANGED <<proc, handlers, triedThrow, forceExit, reports, tracing,
                 stMutex, failures>>

\* clearErrorHandler(), also called by the program.
ClearFun(t) ==
  /\ At(t, "clear_fun")
  /\ abortFun' = "noop"
  /\ Jump(t, "clear_term")
  /\ UNCHANGED <<proc, installed, termHandler, signals, mpi, triedThrow, ending,
                 tracing, stMutex, failures>>

ClearTerm(t) ==
  /\ At(t, "clear_term")
  /\ termHandler' = "null"
  /\ Jump(t, "clear_sigs")
  /\ UNCHANGED <<proc, installed, abortFun, signals, mpi, triedThrow, ending,
                 tracing, stMutex, failures>>

ClearSigs(t) ==
  /\ At(t, "clear_sigs")
  /\ ClearCaught
  /\ IF Top(t).kind = "user" THEN Pop(t) ELSE Jump(t, "decide")
  /\ UNCHANGED <<proc, installed, abortFun, termHandler, mpi, triedThrow, ending,
                 tracing, stMutex, failures>>

\* Variant: force_exit is tested and never set.
DecideNeverForced(t) ==
  /\ At(t, "decide")
  /\ IF forceExit > 1
     THEN Jump(t, "unlock")
     ELSE Jump(t, IF Top(t).kind = "exception" THEN "print" ELSE "what")
  /\ UNCHANGED <<proc, handlers, triedThrow, tMutex, forceExit, reports, tracing,
                 stMutex, failures>>

\* Variant: force_exit counts the calls.
DecideCounts(t) ==
  /\ At(t, "decide")
  /\ IF forceExit > 1
     THEN Jump(t, "unlock") /\ UNCHANGED forceExit
     ELSE /\ forceExit' = forceExit + 1
          /\ Jump(t, IF Top(t).kind = "exception" THEN "print" ELSE "what")
  /\ UNCHANGED <<proc, handlers, triedThrow, tMutex, reports, tracing, stMutex,
                 failures>>

\* Variant: only exceptions are printed.
DecideSilentSignals(t) ==
  /\ At(t, "decide")
  /\ Jump(t, IF Top(t).kind = "exception" THEN "print" ELSE "unlock")
  /\ UNCHANGED <<proc, handlers, triedThrow, tMutex, forceExit, reports, tracing,
                 stMutex, failures>>

\* A second terminate gives up at once, unless exceptions are thrown.  The
\* error of a foreign exception has a local stack; what() of any other one
\* asks the other threads for theirs.
Decide(t) ==
  /\ At(t, "decide")
  /\ IF forceExit > 1
     THEN Jump(t, "unlock") /\ UNCHANGED forceExit
     ELSE /\ forceExit' = IF ThrowException THEN forceExit ELSE 2
          /\ Jump(t, IF Top(t).kind = "exception" THEN "print" ELSE "what")
  /\ UNCHANGED <<proc, handlers, triedThrow, tMutex, reports, tracing, stMutex,
                 failures>>

\* what() -> backtrace( tid ), for the other threads that are registered: under
\* StackTrace_mutex.
What(t) ==
  /\ At(t, "what")
  /\ stMutex = NoThread
  /\ stMutex' = t
  /\ \E others \in SUBSET (Threads \ {t}) : Interrupt(others)
  /\ Jump(t, "walk")
  /\ UNCHANGED <<proc, installed, abortFun, termHandler, signalsSet, mpi, triedThrow,
                 ending, raced, failures>>

Walk(t) ==
  /\ At(t, "walk")
  /\ stMutex' = NoThread
  /\ Jump(t, "print")
  /\ UNCHANGED <<proc, handlers, triedThrow, ending, tracing, failures>>

\* perr << err.what(), then MPI_Abort where there is MPI to abort.
PrintError(t) ==
  /\ At(t, "print")
  /\ reports' = reports + 1
  /\ IF mpi # "off" /\ ~ThrowException
     THEN proc' = "dead" /\ UNCHANGED stack
     ELSE Jump(t, "unlock") /\ UNCHANGED proc
  /\ UNCHANGED <<handlers, triedThrow, tMutex, forceExit, tracing, stMutex,
                 failures>>

\* callAbort(): the mutex is given back before std::abort.
Unlock(t) ==
  /\ At(t, "unlock")
  /\ tMutex' = NoThread
  /\ Jump(t, "abort")
  /\ UNCHANGED <<proc, handlers, triedThrow, forceExit, reports, tracing,
                 stMutex, failures>>

\* Variant: terminate returns to the failing thread.
AbortReturns(t) ==
  /\ At(t, "abort")
  /\ Pop(t)
  /\ UNCHANGED <<proc, handlers, triedThrow, ending, tracing, stMutex, failures>>

Abort(t) ==
  /\ At(t, "abort")
  /\ proc' = "dead"
  /\ UNCHANGED <<stack, handlers, triedThrow, ending, tracing, stMutex, failures>>

-----------------------------------------------------------------------------
Step(t) ==
  \/ SetTerminate(t) \/ SetSignals(t) \/ WorkEnd(t)
  \/ Rethrow(t) \/ ClearSignals(t) \/ CallAbortFun(t)
  \/ Lock(t) \/ ClearFun(t) \/ ClearTerm(t) \/ ClearSigs(t) \/ Decide(t)
  \/ What(t) \/ Walk(t) \/ PrintError(t) \/ Unlock(t) \/ Abort(t)

Dead == proc # "up" /\ UNCHANGED vars

Next ==
  \/ \E t \in Threads :
       \/ WorkBegin(t) \/ Deliver(t)
       \/ \E k \in {"exception", "abort"} : Throw(t, k)
       \/ MPIError(t)
       \/ \E k \in {"signal", "fault"} : Signal(t, k)
       \/ Step(t)
  \/ SetErrorHandlers(Main) \/ ClearErrorHandlers(Main) \/ ClearErrorHandler(Main)
  \/ \E list \in SUBSET Signals \ {{}} : ClearSignalList(Main, list)
  \/ Dead

Spec == Init /\ [][Next]_vars

\* Every thread is scheduled, and a thread that waits for StackTrace_mutex is
\* not overtaken for ever by the backtraces of the others.  terminate_mutex
\* needs no such assumption: who gives it back aborts.
FairSpec ==
  Spec /\ \A t \in Threads : WF_vars(Step(t)) /\ SF_vars(What(t))

-----------------------------------------------------------------------------
(* Properties *)

\* Types of the variables.  Above its own activity a thread has a handler for each
\* failure, one call of clearErrorHandler, and one callstack signal that setSignals
\* found pending, and no more.
TypeOK ==
  /\ proc \in {"up", "dead", "traced"}
  /\ \A t \in Threads :
       /\ Len(stack[t]) \in 1 .. MaxFailures + 3
       /\ \A i \in DOMAIN stack[t] : stack[t][i] \in [at : Labels, kind : Kinds]
  /\ installed \in {"no", "yes", "cleared"}
  /\ abortFun \in {"empty", "terminate", "noop"}
  /\ termHandler \in {"default", "term_func", "null"}
  /\ disp \in [Signals -> {"default", "term", "trace"}]
  /\ signalsSet \subseteq Signals
  /\ mpi \in {"off", "fatal", "throw"}
  /\ {triedThrow, raced} \subseteq BOOLEAN
  /\ asked \subseteq Threads
  /\ {tMutex, stMutex} \subseteq Threads \union {NoThread}
  /\ forceExit \in {0, 2}
  /\ reports \in Nat
  /\ failures \in 0 .. MaxFailures

\* "ensure multiple threads do not try to abort simultaneously"
\* (Utilities.cpp, terminate): the errors of several threads are not printed
\* one after the other on the way out; the first one is.
OneReport == reports <= 1

\* A process whose handlers are installed ends with an error printed, unless
\* one more failure strikes after terminate has uninstalled the handlers, or
\* setErrorHandler took the signal of a pending backtrace for a failure.
SilentDeathNeedsSecondFailure ==
  proc = "dead" /\ reports = 0 /\ installed = "yes" => failures > 1 \/ raced

\* A process in which nothing fails, and that keeps its handlers, is not ended by
\* the stacks its threads ask each other for (backtrace_thread), neither by the
\* callstack signal nor by an error report about it, unless setErrorHandler
\* took the signal over while one was pending.
TracingIsHarmless ==
  failures = 0 /\ installed # "cleared" /\ ~raced => proc = "up" /\ reports = 0

\* The owner of the mutex that t waits for.
WaitsFor(t) == CASE Top(t).at = "lock" -> tMutex
                 [] Top(t).at = "what" -> stMutex
                 [] OTHER -> NoThread

\* Threads wait for each other, or one for itself.
Deadlocked ==
  \E C \in SUBSET Threads : C # {} /\ \A t \in C : WaitsFor(t) \in C

\* A signal has struck a thread between the lock and the unlock of a mutex.
OwnerInterrupted ==
  \E t \in Threads : \E i \in 2 .. Len(stack[t]) : stack[t][i].at \in Owning

\* "Function to terminate the application" (Utilities.h): a failure that has
\* reached terminate() ends the process, whatever the other threads do and
\* however many of them fail too; only a signal that struck the owner of
\* terminate_mutex or StackTrace_mutex can leave a deadlock instead.
FailureEndsUnlessOwnerInterrupted ==
  (installed = "yes" /\ \E t \in Threads : Top(t).at = "lock")
    ~> (proc # "up" \/ (Deadlocked /\ OwnerInterrupted))
=============================================================================
