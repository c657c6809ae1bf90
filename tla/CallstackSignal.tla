-------------------------- MODULE CallstackSignal --------------------------
(***************************************************************************)
(* Asking another thread for its call stack, or for its handle, by sending *)
(* it thread_callstack_signal.                                             *)
(*                                                                         *)
(* backtrace( tid ) (StackTrace.cpp) installs a handler that writes the    *)
(* stack of the interrupted thread to a global buffer, sends the signal,   *)
(* waits until the count is set or 0.15 s have passed, and copies the      *)
(* buffer.  activeThreads() (StackTraceThreads.cpp) installs another       *)
(* handler for the same signal, asks one thread after another for its      *)
(* handle, waits up to 0.1 s for each, and restores the former handler.    *)
(* Each file has its own StackTrace_mutex.                                 *)
(*                                                                         *)
(* A thread whose handler runs does nothing else until the handler is      *)
(* done; the signal is a queued one, and blocked while its handler runs.   *)
(***************************************************************************)
EXTENDS Integers, Sequences, FiniteSets

CONSTANTS
  Threads,     \* the threads of the process
  NoThread,    \* no owner; a buffer cell never written
  Tracers,     \* the threads that call backtrace( tid )
  Listers,     \* the threads that call activeThreads()
  Frames,      \* frames of a stack: words of the buffer one answer writes
  MaxPending   \* signals the kernel queues for one thread (RLIMIT_SIGPENDING)

ASSUME ThreadsAssumption ==
  /\ NoThread \notin Threads
  /\ Tracers \subseteq Threads
  /\ Listers \subseteq Threads
ASSUME FramesAssumption == Frames \in Nat \ {0}
ASSUME MaxPendingAssumption == MaxPending \in Nat \ {0}

VARIABLES
  proc,        \* "up", or "dead": the signal met its default action
  live,        \* the threads that have not ended
  disp,        \* disposition of thread_callstack_signal
  pending,     \* pending[t]: signals sent to t and not delivered yet
  hpc,         \* hpc[t]: which handler runs in t, or "off"
  hpos,        \* hpos[t]: stores that handler has made
  btMutex,     \* owner of StackTrace_mutex of StackTrace.cpp
  atMutex,     \* owner of StackTrace_mutex of StackTraceThreads.cpp
  count,       \* global_thread_backtrace_count
  buf,         \* global_thread_backtrace: whose frame each word is
  handle,      \* thread_handle
  finished,    \* thread_id_finished
  pc, tgt,     \* where t is in its call, and the thread it asks
  out, todo,   \* backtrace: the caller's buffer, the words memcpy still copies
  old, ask,    \* activeThreads: the saved disposition, the threads to ask
  list,        \* activeThreads: the handles collected
  late         \* history: a wait ended while its answer was outstanding

process == <<proc, live, disp>>
signals == <<pending, hpc, hpos>>
shared == <<btMutex, atMutex, count, buf, handle, finished>>
calls == <<pc, tgt, out, todo, old, ask, list>>
vars == <<process, signals, shared, calls, late>>

Words == 1 .. Frames
Owners == Threads \union {NoThread}
Dispositions == {"default", "trace", "active"}
Blank == [w \in Words |-> NoThread]

Init ==
  /\ proc = "up"
  /\ live = Threads
  /\ disp = "default"
  /\ pending = [t \in Threads |-> 0]
  /\ hpc = [t \in Threads |-> "off"]
  /\ hpos = [t \in Threads |-> 0]
  /\ btMutex = NoThread
  /\ atMutex = NoThread
  /\ count = 0
  /\ buf = Blank
  /\ handle = NoThread
  /\ finished = FALSE
  /\ pc = [t \in Threads |-> "idle"]
  /\ tgt = [t \in Threads |-> t]
  /\ out = [t \in Threads |-> Blank]
  /\ todo = [t \in Threads |-> {}]
  /\ old = [t \in Threads |-> "default"]
  /\ ask = [t \in Threads |-> {}]
  /\ list = [t \in Threads |-> << >>]
  /\ late = FALSE

-----------------------------------------------------------------------------
(* Delivery and the two handlers *)

\* The kernel delivers one queued signal under the current disposition.
Deliver(t) ==
  /\ proc = "up"
  /\ pending[t] > 0
  /\ hpc[t] = "off"
  /\ pending' = [pending EXCEPT ![t] = @ - 1]
  /\ IF disp = "default"
     THEN proc' = "dead" /\ UNCHANGED <<hpc, hpos>>
     ELSE /\ hpc' = [hpc EXCEPT ![t] = disp]
          /\ hpos' = [hpos EXCEPT ![t] = 0]
          /\ UNCHANGED proc
  /\ UNCHANGED <<live, disp, shared, calls, late>>

\* Variant: the size of the buffer is not tested.
TraceFrameUnbounded(t) ==
  /\ proc = "up"
  /\ hpc[t] = "trace"
  /\ buf' = [buf EXCEPT ![hpos[t] + 1] = t]
  /\ hpos' = [hpos EXCEPT ![t] = @ + 1]
  /\ UNCHANGED <<process, pending, hpc, btMutex, atMutex, count, handle,
                 finished, calls, late>>

\* ::backtrace writes the frames of the interrupted thread, in order.
TraceFrame(t) ==
  /\ proc = "up"
  /\ hpc[t] = "trace"
  /\ hpos[t] < Frames
  /\ buf' = [buf EXCEPT ![hpos[t] + 1] = t]
  /\ hpos' = [hpos EXCEPT ![t] = @ + 1]
  /\ UNCHANGED <<process, pending, hpc, btMutex, atMutex, count, handle,
                 finished, calls, late>>

\* _callstack_signal_handler: the count is stored last.
TraceCount(t) ==
  /\ proc = "up"
  /\ hpc[t] = "trace"
  /\ hpos[t] = Frames
  /\ count' = Frames
  /\ hpc' = [hpc EXCEPT ![t] = "off"]
  /\ UNCHANGED <<process, pending, hpos, btMutex, atMutex, buf, handle,
                 finished, calls, late>>

\* _activeThreads_signal_handler: two volatile stores.
ActiveHandle(t) ==
  /\ proc = "up"
  /\ hpc[t] = "active"
  /\ hpos[t] = 0
  /\ handle' = t
  /\ hpos' = [hpos EXCEPT ![t] = 1]
  /\ UNCHANGED <<process, pending, hpc, btMutex, atMutex, count, buf,
                 finished, calls, late>>

ActiveFinished(t) ==
  /\ proc = "up"
  /\ hpc[t] = "active"
  /\ hpos[t] = 1
  /\ finished' = TRUE
  /\ hpc' = [hpc EXCEPT ![t] = "off"]
  /\ UNCHANGED <<process, pending, hpos, btMutex, atMutex, count, buf,
                 handle, calls, late>>

Handler(t) ==
  TraceFrame(t) \/ TraceCount(t) \/ ActiveHandle(t) \/ ActiveFinished(t)

-----------------------------------------------------------------------------
(* Steps of a call: only while no handler runs in the calling thread *)

At(t, label) == proc = "up" /\ hpc[t] = "off" /\ pc[t] = label
Goto(t, label) == pc' = [pc EXCEPT ![t] = label]

\* pthread_kill and tgkill: no signal reaches a thread that has ended or whose
\* queue is full, and the callers ignore the error.
Kill(u) ==
  /\ pending' = IF u \in live /\ pending[u] < MaxPending
                THEN [pending EXCEPT ![u] = @ + 1]
                ELSE pending
  /\ UNCHANGED <<hpc, hpos>>

\* The signal to u, or the handler it started, has not finished yet.
Outstanding(u) == pending[u] > 0 \/ hpc[u] # "off"

\* A thread ends; signals queued for it are gone.
Exit(t) ==
  /\ At(t, "idle")
  /\ t \in live
  /\ live' = live \ {t}
  /\ pending' = [pending EXCEPT ![t] = 0]
  /\ UNCHANGED <<proc, disp, hpc, hpos, shared, calls, late>>

(* backtrace( tid ), for a thread other than the caller *)

Backtrace(t, u) ==
  /\ At(t, "idle")
  /\ t \in live
  /\ u # t
  /\ Goto(t, "lock")
  /\ tgt' = [tgt EXCEPT ![t] = u]
  /\ UNCHANGED <<process, signals, shared, out, todo, old, ask, list, late>>

Lock(t) ==
  /\ At(t, "lock")
  /\ btMutex = NoThread
  /\ btMutex' = t
  /\ Goto(t, "install")
  /\ UNCHANGED <<process, signals, atMutex, count, buf, handle, finished,
                 tgt, out, todo, old, ask, list, late>>

\* sigaction; the former disposition is neither saved nor restored.
Install(t) ==
  /\ At(t, "install")
  /\ disp' = "trace"
  /\ Goto(t, "arm")
  /\ UNCHANGED <<proc, live, signals, shared, tgt, out, todo, old, ask, list,
                 late>>

\* Variant: the count of the previous call is left in place.
ArmNoReset(t) ==
  /\ At(t, "arm")
  /\ Goto(t, "kill")
  /\ UNCHANGED <<process, signals, shared, tgt, out, todo, old, ask, list, late>>

Arm(t) ==
  /\ At(t, "arm")
  /\ count' = -1
  /\ Goto(t, "kill")
  /\ UNCHANGED <<process, signals, btMutex, atMutex, buf, handle, finished,
                 tgt, out, todo, old, ask, list, late>>

Send(t) ==
  /\ At(t, "kill")
  /\ Kill(tgt[t])
  /\ Goto(t, "wait")
  /\ UNCHANGED <<process, shared, tgt, out, todo, old, ask, list, late>>

Answered(t) ==
  /\ At(t, "wait")
  /\ count # -1
  /\ Goto(t, "take")
  /\ UNCHANGED <<process, signals, shared, tgt, out, todo, old, ask, list, late>>

\* Variant: the wait has no time limit.
TimeoutNever(t) == At(t, "wait") /\ UNCHANGED vars

Timeout(t) ==
  /\ At(t, "wait")
  /\ Goto(t, "take")
  /\ late' = (late \/ Outstanding(tgt[t]))
  /\ UNCHANGED <<process, signals, shared, tgt, out, todo, old, ask, list>>

\* count = max( global_thread_backtrace_count, 0 ): the words to copy.
Take(t) ==
  /\ At(t, "take")
  /\ todo' = [todo EXCEPT ![t] = {w \in Words : w <= count}]
  /\ out' = [out EXCEPT ![t] = Blank]
  /\ Goto(t, "copy")
  /\ UNCHANGED <<process, signals, shared, tgt, old, ask, list, late>>

\* memcpy, word by word in any order.
CopyWord(t, w) ==
  /\ At(t, "copy")
  /\ w \in todo[t]
  /\ out' = [out EXCEPT ![t][w] = buf[w]]
  /\ todo' = [todo EXCEPT ![t] = @ \ {w}]
  /\ UNCHANGED <<process, signals, shared, pc, tgt, old, ask, list, late>>

Disarm(t) ==
  /\ At(t, "copy")
  /\ todo[t] = {}
  /\ count' = -1
  /\ Goto(t, "unlock")
  /\ UNCHANGED <<process, signals, btMutex, atMutex, buf, handle, finished,
                 tgt, out, todo, old, ask, list, late>>

\* Variant: the handler is removed as soon as the call is over.
UnlockRestores(t) ==
  /\ At(t, "unlock")
  /\ btMutex' = NoThread
  /\ disp' = "default"
  /\ Goto(t, "idle")
  /\ out' = [out EXCEPT ![t] = Blank]
  /\ UNCHANGED <<proc, live, signals, atMutex, count, buf, handle, finished,
                 tgt, todo, old, ask, list, late>>

Unlock(t) ==
  /\ At(t, "unlock")
  /\ btMutex' = NoThread
  /\ Goto(t, "idle")
  /\ out' = [out EXCEPT ![t] = Blank]
  /\ UNCHANGED <<process, signals, atMutex, count, buf, handle, finished,
                 tgt, todo, old, ask, list, late>>

(* activeThreads() *)

\* The list of "ps -T", without the caller.
ActiveThreads(t) ==
  /\ At(t, "idle")
  /\ t \in live
  /\ ask' = [ask EXCEPT ![t] = live \ {t}]
  /\ Goto(t, "at_lock")
  /\ UNCHANGED <<process, signals, shared, tgt, out, todo, old, list, late>>

AtLock(t) ==
  /\ At(t, "at_lock")
  /\ atMutex = NoThread
  /\ atMutex' = t
  /\ Goto(t, "at_install")
  /\ UNCHANGED <<process, signals, btMutex, count, buf, handle, finished,
                 tgt, out, todo, old, ask, list, late>>

\* Variant: the disposition is saved and the new handler forgotten.
AtInstallNothing(t) ==
  /\ At(t, "at_install")
  /\ old' = [old EXCEPT ![t] = disp]
  /\ Goto(t, "at_next")
  /\ UNCHANGED <<process, signals, shared, tgt, out, todo, ask, list, late>>

AtInstall(t) ==
  /\ At(t, "at_install")
  /\ old' = [old EXCEPT ![t] = disp]
  /\ disp' = "active"
  /\ Goto(t, "at_next")
  /\ UNCHANGED <<proc, live, signals, shared, tgt, out, todo, ask, list, late>>

\* The next thread id of the list: thread_id_finished = false.
AtNext(t, u) ==
  /\ At(t, "at_next")
  /\ u \in ask[t]
  /\ tgt' = [tgt EXCEPT ![t] = u]
  /\ ask' = [ask EXCEPT ![t] = @ \ {u}]
  /\ finished' = FALSE
  /\ Goto(t, "at_arm")
  /\ UNCHANGED <<process, signals, btMutex, atMutex, count, buf, handle,
                 out, todo, old, list, late>>

\* Variant: thread_handle is not reset to the caller before the signal.
AtArmNoReset(t) ==
  /\ At(t, "at_arm")
  /\ Goto(t, "at_kill")
  /\ UNCHANGED <<process, signals, shared, tgt, out, todo, old, ask, list, late>>

AtArm(t) ==
  /\ At(t, "at_arm")
  /\ handle' = t
  /\ Goto(t, "at_kill")
  /\ UNCHANGED <<process, signals, btMutex, atMutex, count, buf, finished,
                 tgt, out, todo, old, ask, list, late>>

AtSend(t) ==
  /\ At(t, "at_kill")
  /\ Kill(tgt[t])
  /\ Goto(t, "at_wait")
  /\ UNCHANGED <<process, shared, tgt, out, todo, old, ask, list, late>>

AtAnswered(t) ==
  /\ At(t, "at_wait")
  /\ finished
  /\ Goto(t, "at_take")
  /\ UNCHANGED <<process, signals, shared, tgt, out, todo, old, ask, list, late>>

AtTimeout(t) ==
  /\ At(t, "at_wait")
  /\ Goto(t, "at_take")
  /\ late' = (late \/ Outstanding(tgt[t]))
  /\ UNCHANGED <<process, signals, shared, tgt, out, todo, old, ask, list>>

AtTake(t) ==
  /\ At(t, "at_take")
  /\ list' = [list EXCEPT ![t] = IF handle # t THEN Append(@, handle) ELSE @]
  /\ Goto(t, "at_next")
  /\ UNCHANGED <<process, signals, shared, tgt, out, todo, old, ask, late>>

AtRestore(t) ==
  /\ At(t, "at_next")
  /\ ask[t] = {}
  /\ disp' = old[t]
  /\ Goto(t, "at_unlock")
  /\ UNCHANGED <<proc, live, signals, shared, tgt, out, todo, old, ask, list,
                 late>>

AtUnlock(t) ==
  /\ At(t, "at_unlock")
  /\ atMutex' = NoThread
  /\ list' = [list EXCEPT ![t] = << >>]
  /\ Goto(t, "idle")
  /\ UNCHANGED <<process, signals, btMutex, count, buf, handle, finished,
                 tgt, out, todo, old, ask, late>>

-----------------------------------------------------------------------------
BacktraceStep(t) ==
  \/ Lock(t) \/ Install(t) \/ Arm(t) \/ Send(t) \/ Answered(t) \/ Timeout(t)
  \/ Take(t) \/ (\E w \in Words : CopyWord(t, w)) \/ Disarm(t) \/ Unlock(t)

ActiveStep(t) ==
  \/ AtLock(t) \/ AtInstall(t) \/ (\E u \in Threads : AtNext(t, u)) \/ AtArm(t)
  \/ AtSend(t) \/ AtAnswered(t) \/ AtTimeout(t) \/ AtTake(t)
  \/ AtRestore(t) \/ AtUnlock(t)

\* The default action of the signal, or its last thread, ended the process.
Ended == (proc = "dead" \/ live = {}) /\ UNCHANGED vars

Next ==
  \/ \E t \in Threads :
       \/ Deliver(t) \/ Handler(t) \/ Exit(t)
       \/ BacktraceStep(t) \/ ActiveStep(t)
  \/ \E t \in Tracers : \E u \in Threads : Backtrace(t, u)
  \/ \E t \in Listers : ActiveThreads(t)
  \/ Ended

Spec == Init /\ [][Next]_vars

\* Threads and handlers are scheduled and clocks advance; nothing is assumed
\* of delivery: a thread may have the signal blocked for ever.
FairSpec ==
  /\ Spec
  /\ \A t \in Threads :
       WF_vars(Handler(t)) /\ WF_vars(BacktraceStep(t)) /\ WF_vars(ActiveStep(t))

-----------------------------------------------------------------------------
(* Properties *)

\* Types of the variables.
TypeOK ==
  /\ proc \in {"up", "dead"}
  /\ live \subseteq Threads
  /\ disp \in Dispositions
  /\ pending \in [Threads -> 0 .. MaxPending]
  /\ hpc \in [Threads -> {"off", "trace", "active"}]
  /\ hpos \in [Threads -> 0 .. Frames]
  /\ btMutex \in Owners
  /\ atMutex \in Owners
  /\ count \in {-1, 0, Frames}
  /\ buf \in [Words -> Owners]
  /\ handle \in Owners
  /\ finished \in BOOLEAN
  /\ pc \in [Threads ->
       {"idle", "lock", "install", "arm", "kill", "wait", "take", "copy",
        "unlock", "at_lock", "at_install", "at_next", "at_arm", "at_kill",
        "at_wait", "at_take", "at_unlock"}]
  /\ tgt \in [Threads -> Threads]
  /\ out \in [Threads -> [Words -> Owners]]
  /\ todo \in [Threads -> SUBSET Words]
  /\ old \in [Threads -> Dispositions]
  /\ ask \in [Threads -> SUBSET Threads]
  /\ list \in [Threads -> Seq(Owners)]
  /\ late \in BOOLEAN

\* The signal is never delivered under its default action, which would end
\* the process: where it holds, every send is covered by a handler that
\* stays installed until the signal has arrived, however late that is.
NoFatalDelivery == proc = "up"

\* What backtrace( tid ) hands back: the whole stack of tid, or nothing.
OfTarget(t) == \/ \A w \in Words : out[t][w] = tgt[t]
               \/ \A w \in Words : out[t][w] = NoThread

\* While no wait was given up before its answer, concurrent callers and
\* threads that end in between never get a wrong or a torn stack.
TraceOfTargetUnlessLate ==
  \A t \in Tracers : pc[t] = "unlock" /\ ~late => OfTarget(t)

\* Callers of activeThreads() alone, while no answer is late: each live thread
\* but the caller is found once, and nothing else is.
ListExactUnlessLate ==
  \A t \in Listers : pc[t] = "at_unlock" /\ ~late =>
    /\ \A i, j \in DOMAIN list[t] : list[t][i] = list[t][j] => i = j
    /\ \A i \in DOMAIN list[t] : list[t][i] # t
    /\ \A u \in live \ {t} : \E i \in DOMAIN list[t] : list[t][i] = u

\* Only a signal that outlives the wait for it can end the process.
FatalOnlyIfLate == proc = "dead" => late

\* Every backtrace gives its mutex back, whether it is answered or not.
TraceLockReleased ==
  \A t \in Tracers : btMutex = t ~> btMutex # t \/ proc = "dead"
=============================================================================
