----------------------- MODULE CallstackSignalProofs -----------------------
(***************************************************************************)
(* Proofs about the callstack signal, for every number of threads, frames  *)
(* and queued signals: types; what holds of callers of backtrace alone;    *)
(* what holds of callers of activeThreads alone; and, whoever calls what,  *)
(* how long the two mutexes are held.                                      *)
(***************************************************************************)
EXTENDS CallstackSignal, FiniteSetTheorems, TLAPS

LEMMA TypeInit == Init => TypeOK
<1>1. << >> \in Seq(Owners)
  OBVIOUS
<1>2. 0 \in 0 .. MaxPending /\ 0 \in 0 .. Frames
  BY FramesAssumption, MaxPendingAssumption
<1>3. SUFFICES ASSUME Init PROVE TypeOK
  OBVIOUS
<1>4. /\ out \in [Threads -> [Words -> Owners]]
      /\ buf \in [Words -> Owners]
      /\ list \in [Threads -> Seq(Owners)]
      /\ handle \in Owners /\ btMutex \in Owners /\ atMutex \in Owners
  BY <1>1, <1>3 DEF Init, Blank, Owners
<1>5. /\ pending \in [Threads -> 0 .. MaxPending]
      /\ hpos \in [Threads -> 0 .. Frames]
      /\ count \in {-1, 0, Frames}
  BY <1>2, <1>3 DEF Init
<1> QED BY <1>3, <1>4, <1>5 DEF Init, TypeOK, Dispositions

LEMMA KillType ==
  ASSUME TypeOK, NEW u \in Threads, Kill(u)
  PROVE  /\ pending' \in [Threads -> 0 .. MaxPending]
         /\ UNCHANGED <<hpc, hpos>>
  BY MaxPendingAssumption DEF TypeOK, Kill

LEMMA TypeStep == TypeOK /\ [Next]_vars => TypeOK'
<1> SUFFICES ASSUME TypeOK, [Next]_vars PROVE TypeOK'
  OBVIOUS
<1> USE ThreadsAssumption, FramesAssumption
<1> USE DEF TypeOK, process, signals, shared, calls, At, Goto
<1>1. ASSUME NEW t \in Threads, Deliver(t) PROVE TypeOK'
  <2>1. pending' \in [Threads -> 0 .. MaxPending]
    BY <1>1, MaxPendingAssumption DEF Deliver
  <2>2. /\ proc' \in {"up", "dead"}
        /\ hpc' \in [Threads -> {"off", "trace", "active"}]
        /\ hpos' \in [Threads -> 0 .. Frames]
    <3>1. CASE disp = "default"
      BY <1>1, <3>1 DEF Deliver
    <3>2. CASE disp # "default"
      <4>1. 0 \in 0 .. Frames
        OBVIOUS
      <4>2. disp \in {"trace", "active"}
        BY <3>2 DEF Dispositions
      <4>3. /\ hpc' = [hpc EXCEPT ![t] = disp]
            /\ hpos' = [hpos EXCEPT ![t] = 0]
            /\ proc' = proc
        BY <1>1, <3>2 DEF Deliver
      <4> QED BY <4>1, <4>2, <4>3
    <3> QED BY <3>1, <3>2
  <2> QED BY <1>1, <2>1, <2>2 DEF Deliver
<1>2. ASSUME NEW t \in Threads, Handler(t) PROVE TypeOK'
  <2>1. CASE TraceFrame(t)
    <3>1. hpos[t] + 1 \in Words
      BY <2>1 DEF TraceFrame, Words
    <3>2. hpos[t] + 1 \in 0 .. Frames
      BY <2>1 DEF TraceFrame
    <3>3. buf' \in [Words -> Owners] /\ hpos' \in [Threads -> 0 .. Frames]
      BY <2>1, <3>1, <3>2 DEF TraceFrame, Owners
    <3> QED BY <2>1, <3>3 DEF TraceFrame
  <2>2. CASE TraceCount(t)
    BY <2>2 DEF TraceCount
  <2>3. CASE ActiveHandle(t)
    BY <2>3 DEF ActiveHandle, Owners
  <2>4. CASE ActiveFinished(t)
    BY <2>4 DEF ActiveFinished
  <2> QED BY <1>2, <2>1, <2>2, <2>3, <2>4 DEF Handler
<1>3. ASSUME NEW t \in Threads, Exit(t) PROVE TypeOK'
  BY <1>3, MaxPendingAssumption DEF Exit
<1>4. ASSUME NEW t \in Threads, BacktraceStep(t) PROVE TypeOK'
  <2>1. CASE Lock(t)
    BY <2>1 DEF Lock, Owners
  <2>2. CASE Install(t)
    BY <2>2 DEF Install, Dispositions
  <2>3. CASE Arm(t)
    BY <2>3 DEF Arm
  <2>4. CASE Send(t)
    <3>1. tgt[t] \in Threads /\ Kill(tgt[t])
      BY <2>4 DEF Send
    <3>2. pending' \in [Threads -> 0 .. MaxPending] /\ UNCHANGED <<hpc, hpos>>
      BY <3>1, KillType
    <3> QED BY <2>4, <3>2 DEF Send
  <2>5. CASE Answered(t)
    BY <2>5 DEF Answered
  <2>6. CASE Timeout(t)
    BY <2>6 DEF Timeout, Outstanding
  <2>7. CASE Take(t)
    BY <2>7 DEF Take, Blank, Owners
  <2>8. ASSUME NEW w \in Words, CopyWord(t, w) PROVE TypeOK'
    <3>1. out' \in [Threads -> [Words -> Owners]]
      BY <2>8 DEF CopyWord
    <3> QED BY <2>8, <3>1 DEF CopyWord
  <2>9. CASE Disarm(t)
    BY <2>9 DEF Disarm
  <2>10. CASE Unlock(t)
    BY <2>10 DEF Unlock, Blank, Owners
  <2> QED BY <1>4, <2>1, <2>2, <2>3, <2>4, <2>5, <2>6, <2>7, <2>8, <2>9, <2>10
          DEF BacktraceStep
<1>5. ASSUME NEW t \in Threads, ActiveStep(t) PROVE TypeOK'
  <2>1. CASE AtLock(t)
    BY <2>1 DEF AtLock, Owners
  <2>2. CASE AtInstall(t)
    BY <2>2 DEF AtInstall, Dispositions
  <2>3. ASSUME NEW u \in Threads, AtNext(t, u) PROVE TypeOK'
    BY <2>3 DEF AtNext
  <2>4. CASE AtArm(t)
    BY <2>4 DEF AtArm, Owners
  <2>5. CASE AtSend(t)
    <3>1. tgt[t] \in Threads /\ Kill(tgt[t])
      BY <2>5 DEF AtSend
    <3>2. pending' \in [Threads -> 0 .. MaxPending] /\ UNCHANGED <<hpc, hpos>>
      BY <3>1, KillType
    <3> QED BY <2>5, <3>2 DEF AtSend
  <2>6. CASE AtAnswered(t)
    BY <2>6 DEF AtAnswered
  <2>7. CASE AtTimeout(t)
    BY <2>7 DEF AtTimeout, Outstanding
  <2>8. CASE AtTake(t)
    <3>1. Append(list[t], handle) \in Seq(Owners)
      OBVIOUS
    <3> QED BY <2>8, <3>1 DEF AtTake
  <2>9. CASE AtRestore(t)
    BY <2>9 DEF AtRestore
  <2>10. CASE AtUnlock(t)
    <3>1. << >> \in Seq(Owners)
      OBVIOUS
    <3> QED BY <2>10, <3>1 DEF AtUnlock, Owners
  <2> QED BY <1>5, <2>1, <2>2, <2>3, <2>4, <2>5, <2>6, <2>7, <2>8, <2>9, <2>10
          DEF ActiveStep
<1>6. ASSUME NEW t \in Tracers, NEW u \in Threads, Backtrace(t, u) PROVE TypeOK'
  <2>1. t \in Threads
    OBVIOUS
  <2> QED BY <1>6, <2>1 DEF Backtrace
<1>7. ASSUME NEW t \in Listers, ActiveThreads(t) PROVE TypeOK'
  <2>1. t \in Threads
    OBVIOUS
  <2> QED BY <1>7, <2>1 DEF ActiveThreads
<1>8. CASE UNCHANGED vars
  BY <1>8 DEF vars
<1> QED BY <1>1, <1>2, <1>3, <1>4, <1>5, <1>6, <1>7, <1>8 DEF Next, Ended

\* Every variable keeps its type: the handler stays inside the global buffer
\* and every count that is copied is one it stored, 0 or -1.
THEOREM TypeCorrect == Spec => []TypeOK
<1>1. TypeOK /\ [Next]_vars => TypeOK'
  BY TypeStep
<1> QED BY TypeInit, <1>1, PTL DEF Spec

-----------------------------------------------------------------------------
(* backtrace alone *)

Holding == {"install", "arm", "kill", "wait", "take", "copy", "unlock"}

\* The mutex covers the handshake, and the handler, once installed, stays.
TraceOnly ==
  /\ proc = "up"
  /\ disp \in {"default", "trace"}
  /\ \A t \in Threads :
       /\ pc[t] \in {"idle", "lock"} \union Holding
       /\ pc[t] \in Holding <=> btMutex = t
       /\ hpc[t] \in {"off", "trace"}
       /\ pc[t] \in Holding \ {"install"} => disp = "trace"
       /\ pending[t] > 0 => disp = "trace"

LEMMA TraceOnlyStep ==
  ASSUME Listers = {}, TypeOK, TraceOnly, [Next]_vars
  PROVE  TraceOnly'
<1> USE ThreadsAssumption
<1> USE DEF TypeOK, TraceOnly, Holding, process, signals, shared, calls, At, Goto
<1>1. ASSUME NEW t \in Threads, Deliver(t) PROVE TraceOnly'
  <2>1. disp = "trace"
    BY <1>1 DEF Deliver
  <2> QED BY <1>1, <2>1 DEF Deliver
<1>2. ASSUME NEW t \in Threads, Handler(t) PROVE TraceOnly'
  BY <1>2 DEF Handler, TraceFrame, TraceCount, ActiveHandle, ActiveFinished
<1>3. ASSUME NEW t \in Threads, Exit(t) PROVE TraceOnly'
  BY <1>3 DEF Exit
<1>4. ASSUME NEW t \in Threads, BacktraceStep(t) PROVE TraceOnly'
  <2>1. CASE Lock(t)
    BY <2>1 DEF Lock
  <2>2. CASE Install(t)
    BY <2>2 DEF Install
  <2>3. CASE Arm(t)
    BY <2>3 DEF Arm
  <2>4. CASE Send(t)
    BY <2>4 DEF Send, Kill
  <2>5. CASE Answered(t)
    BY <2>5 DEF Answered
  <2>6. CASE Timeout(t)
    BY <2>6 DEF Timeout
  <2>7. CASE Take(t)
    BY <2>7 DEF Take
  <2>8. ASSUME NEW w \in Words, CopyWord(t, w) PROVE TraceOnly'
    BY <2>8 DEF CopyWord
  <2>9. CASE Disarm(t)
    BY <2>9 DEF Disarm
  <2>10. CASE Unlock(t)
    BY <2>10 DEF Unlock
  <2> QED BY <1>4, <2>1, <2>2, <2>3, <2>4, <2>5, <2>6, <2>7, <2>8, <2>9, <2>10
          DEF BacktraceStep
<1>5. ASSUME NEW t \in Threads, ActiveStep(t) PROVE FALSE
  BY <1>5 DEF ActiveStep, AtLock, AtInstall, AtNext, AtArm, AtSend, AtAnswered,
     AtTimeout, AtTake, AtRestore, AtUnlock
<1>6. ASSUME NEW t \in Tracers, NEW u \in Threads, Backtrace(t, u)
      PROVE  TraceOnly'
  BY <1>6 DEF Backtrace
<1>7. CASE UNCHANGED vars
  BY <1>7 DEF vars
<1> QED BY <1>1, <1>2, <1>3, <1>4, <1>5, <1>6, <1>7 DEF Next, Ended

\* The buffer holds the stack of the thread t asks.
Filled(t) == \A w \in Words : buf[w] = tgt[t]

\* While t waits, and no answer is late, the only signal under way is the one
\* t sent: ended with its thread, queued, in the handler, or answered.
Waiting(t) ==
  LET u == tgt[t] IN
  \/ pending[u] = 0 /\ hpc[u] = "off" /\ count = -1
  \/ pending[u] = 1 /\ hpc[u] = "off" /\ count = -1
  \/ /\ pending[u] = 0 /\ hpc[u] = "trace" /\ count = -1
     /\ \A w \in Words : w <= hpos[u] => buf[w] = u
  \/ pending[u] = 0 /\ hpc[u] = "off" /\ count = Frames /\ Filled(t)

Ready(t) == count = -1 \/ (count = Frames /\ Filled(t))

Copying(t) ==
  \/ todo[t] = {} /\ \A w \in Words : out[t][w] = NoThread
  \/ Filled(t) /\ \A w \in Words : w \in todo[t] \/ out[t][w] = tgt[t]

OnTime ==
  ~late =>
    /\ \A u \in Threads : Outstanding(u) =>
         \E t \in Threads : pc[t] = "wait" /\ tgt[t] = u
    /\ \A t \in Threads :
         /\ pc[t] = "kill" => count = -1
         /\ pc[t] = "wait" => Waiting(t)
         /\ pc[t] = "take" => Ready(t)
         /\ pc[t] = "copy" => Copying(t)
         /\ pc[t] = "unlock" => OfTarget(t)

\* A step that leaves the handshake alone and takes nobody in or out of it.
LEMMA OnTimeFrame ==
  ASSUME TypeOK, OnTime, UNCHANGED <<pending, hpc, hpos, count, buf, out, todo, late>>,
         \A x \in Threads :
           \/ pc'[x] = pc[x] /\ tgt'[x] = tgt[x]
           \/ pc[x] # "wait" /\ pc'[x] \in {"idle", "lock", "install", "arm"}
  PROVE  OnTime'
<1> SUFFICES ASSUME ~late PROVE OnTime'
  BY DEF OnTime
<1>1. \A u \in Threads : Outstanding(u)' => Outstanding(u)
  BY DEF Outstanding
<1>2. ASSUME NEW x \in Threads, pc'[x] = pc[x], tgt'[x] = tgt[x]
      PROVE  /\ Waiting(x) => Waiting(x)'
             /\ Ready(x) => Ready(x)'
             /\ Copying(x) => Copying(x)'
             /\ OfTarget(x) => OfTarget(x)'
  <2>1. Filled(x) => Filled(x)'
    BY <1>2 DEF Filled
  <2> QED BY <1>2, <2>1 DEF Waiting, Ready, Copying, OfTarget
<1>3. \A x \in Threads :
        /\ pc'[x] = "kill" => count' = -1
        /\ pc'[x] = "wait" => Waiting(x)'
        /\ pc'[x] = "take" => Ready(x)'
        /\ pc'[x] = "copy" => Copying(x)'
        /\ pc'[x] = "unlock" => OfTarget(x)'
  BY <1>2 DEF OnTime
<1>4. ASSUME NEW u \in Threads, Outstanding(u)
      PROVE  \E t \in Threads : pc'[t] = "wait" /\ tgt'[t] = u
  BY <1>4 DEF OnTime
<1> QED BY <1>1, <1>3, <1>4 DEF OnTime

LEMMA OnTimeStep ==
  ASSUME Listers = {}, TypeOK, TraceOnly, OnTime, [Next]_vars
  PROVE  OnTime'
<1> USE ThreadsAssumption, FramesAssumption
<1> USE DEF TypeOK, TraceOnly, Holding, process, signals, shared, calls, At, Goto,
            Outstanding
<1>0. SUFFICES ASSUME ~late' PROVE OnTime'
  BY DEF OnTime
<1>00. ~late
  BY <1>0 DEF Next, Deliver, Handler, TraceFrame, TraceCount, ActiveHandle,
     ActiveFinished, Exit, BacktraceStep, Lock, Install, Arm, Send, Answered,
     Timeout, Take, CopyWord, Disarm, Unlock, ActiveStep, AtLock, AtInstall,
     AtNext, AtArm, AtSend, AtAnswered, AtTimeout, AtTake, AtRestore, AtUnlock,
     Backtrace, ActiveThreads, Ended, vars
<1>1. ASSUME NEW u \in Threads, Deliver(u) PROVE OnTime'
  <2>1. disp = "trace" /\ pending[u] > 0
    BY <1>1 DEF Deliver
  <2>2. PICK t \in Threads : pc[t] = "wait" /\ tgt[t] = u /\ btMutex = t
    BY <2>1, <1>00 DEF OnTime
  <2>3. pending[u] = 1 /\ count = -1 /\ hpc[u] = "off"
    BY <2>1, <2>2, <1>00 DEF OnTime, Waiting
  <2>4. /\ pending' = [pending EXCEPT ![u] = 0]
        /\ hpc' = [hpc EXCEPT ![u] = "trace"]
        /\ hpos' = [hpos EXCEPT ![u] = 0]
        /\ UNCHANGED <<shared, calls, late>>
    BY <1>1, <2>1, <2>3 DEF Deliver
  <2>5. \A x \in Threads : Outstanding(x)' => x = u
    BY <2>2, <2>4, <1>00 DEF OnTime
  <2>6. Waiting(t)'
    BY <2>2, <2>3, <2>4 DEF Waiting, Words
  <2>7. \A x \in Threads : x # t => pc[x] \in {"idle", "lock"}
    BY <2>2
  <2> QED BY <2>2, <2>4, <2>5, <2>6, <2>7 DEF OnTime
<1>2. ASSUME NEW u \in Threads, Handler(u) PROVE OnTime'
  <2>1. hpc[u] = "trace"
    BY <1>2 DEF Handler, TraceFrame, TraceCount, ActiveHandle, ActiveFinished
  <2>2. PICK t \in Threads : pc[t] = "wait" /\ tgt[t] = u /\ btMutex = t
    BY <2>1, <1>00 DEF OnTime
  <2>3. /\ pending[u] = 0 /\ count = -1
        /\ \A w \in Words : w <= hpos[u] => buf[w] = u
    BY <2>1, <2>2, <1>00 DEF OnTime, Waiting
  <2>4. \A x \in Threads : x # t => pc[x] \in {"idle", "lock"}
    BY <2>2
  <2>5. \A x \in Threads : Outstanding(x) => x = u
    BY <2>2, <1>00 DEF OnTime
  <2>6. CASE TraceFrame(u)
    <3>1. Waiting(t)'
      BY <2>1, <2>2, <2>3, <2>6 DEF TraceFrame, Waiting, Words
    <3> QED BY <2>2, <2>4, <2>5, <2>6, <3>1 DEF TraceFrame, OnTime
  <2>7. CASE TraceCount(u)
    <3>1. Waiting(t)'
      BY <2>1, <2>2, <2>3, <2>7 DEF TraceCount, Waiting, Filled, Words
    <3> QED BY <2>2, <2>4, <2>5, <2>7, <3>1 DEF TraceCount, OnTime
  <2> QED BY <1>2, <2>1, <2>6, <2>7 DEF Handler, ActiveHandle, ActiveFinished
<1>3. ASSUME NEW u \in Threads, Exit(u) PROVE OnTime'
  <2>1. /\ hpc[u] = "off"
        /\ pending' = [pending EXCEPT ![u] = 0]
        /\ UNCHANGED <<hpc, hpos, shared, calls, late>>
    BY <1>3 DEF Exit
  <2>2. \A x \in Threads : Outstanding(x)' => Outstanding(x)
    BY <2>1
  <2>3. ASSUME NEW x \in Threads
        PROVE  /\ Waiting(x) => Waiting(x)'
               /\ Ready(x) => Ready(x)'
               /\ Copying(x) => Copying(x)'
               /\ OfTarget(x) => OfTarget(x)'
    <3>1. Filled(x) => Filled(x)'
      BY <2>1 DEF Filled
    <3> QED BY <2>1, <3>1 DEF Waiting, Ready, Copying, OfTarget
  <2> QED BY <1>00, <2>1, <2>2, <2>3 DEF OnTime
<1>4. ASSUME NEW t \in Threads, BacktraceStep(t) PROVE OnTime'
  <2>1. CASE Lock(t)
    BY <2>1, OnTimeFrame DEF Lock
  <2>2. CASE Install(t)
    BY <2>2, OnTimeFrame DEF Install
  <2>3. CASE Arm(t)
    BY <1>00, <2>3 DEF Arm, OnTime
  <2>4. CASE Send(t)
    <3>1. \A u \in Threads : ~Outstanding(u)
      BY <1>00, <2>4 DEF Send, OnTime
    <3>2. count = -1
      BY <1>00, <2>4 DEF Send, OnTime
    <3>3. /\ pending[tgt[t]] = 0 /\ hpc[tgt[t]] = "off" /\ tgt[t] \in Threads
          /\ \A u \in Threads : pending[u] = 0
      BY <3>1
    <3>4. /\ pending' = pending \/ pending' = [pending EXCEPT ![tgt[t]] = 1]
          /\ UNCHANGED <<hpc, hpos, btMutex, count, buf, tgt, out, todo, late>>
          /\ pc' = [pc EXCEPT ![t] = "wait"]
      BY <2>4, <3>3 DEF Send, Kill
    <3>5. Waiting(t)'
      BY <3>2, <3>3, <3>4 DEF Waiting
    <3>6. \A x \in Threads : x # t => pc[x] \in {"idle", "lock"}
      BY <2>4 DEF Send
    <3>7. ASSUME NEW u \in Threads, Outstanding(u)'
          PROVE  pc'[t] = "wait" /\ tgt'[t] = u
      BY <2>4, <3>1, <3>4, <3>7 DEF Send
    <3>8. \A u \in Threads : Outstanding(u)' =>
             \E x \in Threads : pc'[x] = "wait" /\ tgt'[x] = u
      BY <3>7
    <3>9. \A x \in Threads :
            /\ pc'[x] = "wait" => Waiting(x)'
            /\ pc'[x] \notin {"kill", "take", "copy", "unlock"}
      <4>1. \A x \in Threads : x # t => pc'[x] \in {"idle", "lock"}
        BY <3>4, <3>6
      <4>2. pc'[t] = "wait"
        BY <3>4
      <4> QED BY <3>5, <4>1, <4>2
    <3> QED BY <3>8, <3>9 DEF OnTime
  <2>5. CASE Answered(t)
    <3>1. /\ Ready(t) /\ \A u \in Threads : ~Outstanding(u)
      BY <1>00, <2>5 DEF Answered, OnTime, Waiting, Ready
    <3> QED BY <1>00, <2>5, <3>1 DEF Answered, OnTime, Ready, Filled
  <2>6. CASE Timeout(t)
    <3>1. ~Outstanding(tgt[t])
      BY <1>0, <2>6 DEF Timeout
    <3>2. /\ Ready(t) /\ \A u \in Threads : ~Outstanding(u)
      BY <1>00, <2>6, <3>1 DEF Timeout, OnTime, Waiting, Ready
    <3> QED BY <1>00, <2>6, <3>2 DEF Timeout, OnTime, Ready, Filled
  <2>7. CASE Take(t)
    <3>1. Ready(t) /\ \A u \in Threads : ~Outstanding(u)
      BY <1>00, <2>7 DEF Take, OnTime
    <3>2. Copying(t)'
      <4>1. CASE count = -1
        <5>1. {w \in Words : w <= count} = {}
          BY <4>1 DEF Words
        <5> QED BY <2>7, <5>1 DEF Take, Copying, Blank
      <4>2. CASE count = Frames /\ Filled(t)
        <5>1. \A w \in Words : w <= count
          BY <4>2 DEF Words
        <5> QED BY <2>7, <4>2, <5>1 DEF Take, Copying, Filled
      <4> QED BY <3>1, <4>1, <4>2 DEF Ready
    <3> QED BY <2>7, <3>1, <3>2 DEF Take, OnTime
  <2>8. ASSUME NEW w \in Words, CopyWord(t, w) PROVE OnTime'
    <3>1. /\ Copying(t) /\ \A u \in Threads : ~Outstanding(u)
      BY <1>00, <2>8 DEF CopyWord, OnTime
    <3>2. Copying(t)'
      BY <2>8, <3>1 DEF CopyWord, Copying, Filled
    <3> QED BY <2>8, <3>1, <3>2 DEF CopyWord, OnTime
  <2>9. CASE Disarm(t)
    <3>1. pc[t] = "copy" /\ todo[t] = {}
      BY <2>9 DEF Disarm
    <3>2. Copying(t) /\ \A u \in Threads : ~Outstanding(u)
      BY <1>00, <3>1 DEF OnTime
    <3>3. OfTarget(t)
      BY <3>1, <3>2 DEF Copying, OfTarget
    <3> QED BY <2>9, <3>2, <3>3 DEF Disarm, OnTime, OfTarget
  <2>10. CASE Unlock(t)
    BY <1>00, <2>10 DEF Unlock, OnTime
  <2> QED BY <1>4, <2>1, <2>2, <2>3, <2>4, <2>5, <2>6, <2>7, <2>8, <2>9, <2>10
          DEF BacktraceStep
<1>5. ASSUME NEW t \in Threads, ActiveStep(t) PROVE FALSE
  BY <1>5 DEF ActiveStep, AtLock, AtInstall, AtNext, AtArm, AtSend, AtAnswered,
     AtTimeout, AtTake, AtRestore, AtUnlock
<1>6. ASSUME NEW t \in Tracers, NEW u \in Threads, Backtrace(t, u)
      PROVE  OnTime'
  BY <1>6, OnTimeFrame DEF Backtrace
<1>7. CASE UNCHANGED vars
  BY <1>7, OnTimeFrame DEF vars
<1> QED BY <1>1, <1>2, <1>3, <1>4, <1>5, <1>6, <1>7 DEF Next, Ended

TraceInv == TypeOK /\ TraceOnly /\ OnTime

LEMMA TraceInductive == Listers = {} => (Spec => []TraceInv)
<1> SUFFICES ASSUME Listers = {} PROVE Spec => []TraceInv
  OBVIOUS
<1>1. Init => TraceInv
  BY TypeInit, ThreadsAssumption
  DEF Init, TraceInv, TraceOnly, OnTime, Holding, Outstanding
<1>2. TraceInv /\ [Next]_vars => TraceInv'
  BY TypeStep, TraceOnlyStep, OnTimeStep DEF TraceInv
<1> QED BY <1>1, <1>2, PTL DEF Spec

\* As long as nobody calls activeThreads, a signal that backtrace sends is
\* handled whenever it arrives: the process survives every timeout.
THEOREM BacktraceNeverFatal == Listers = {} => (Spec => []NoFatalDelivery)
<1>1. TraceInv => NoFatalDelivery
  BY DEF TraceInv, TraceOnly, NoFatalDelivery
<1> QED BY TraceInductive, <1>1, PTL

\* As long as no wait was given up before its answer, a caller of backtrace
\* gets the whole stack of the thread it asked, or nothing.
THEOREM BacktraceAttributed ==
  Listers = {} => (Spec => []TraceOfTargetUnlessLate)
<1>1. TraceInv => TraceOfTargetUnlessLate
  BY ThreadsAssumption DEF TraceInv, OnTime, TraceOfTargetUnlessLate
<1> QED BY TraceInductive, <1>1, PTL

-----------------------------------------------------------------------------
(* activeThreads alone *)

Asking == {"at_next", "at_arm", "at_kill", "at_wait", "at_take"}
ListHolding == {"at_install", "at_unlock"} \union Asking

\* The mutex covers the installation of the handler and its removal.
ListOnly ==
  /\ disp \in {"default", "active"}
  /\ \A t \in Threads :
       /\ pc[t] \in {"idle", "at_lock"} \union ListHolding
       /\ pc[t] \in ListHolding <=> atMutex = t
       /\ hpc[t] \in {"off", "active"}
       /\ old[t] \in {"default", "active"}
       /\ pc[t] \in Asking => disp = "active"

\* The signal t sent: ended with its thread or answered, queued, in its handler.
Sought(t) ==
  LET u == tgt[t] IN
  \/ pending[u] = 0 /\ hpc[u] = "off"
  \/ pending[u] = 1 /\ hpc[u] = "off" /\ ~finished
  \/ pending[u] = 0 /\ hpc[u] = "active" /\ ~finished

\* While no answer is late, no signal is under way outside a wait for it.
ListOnTime ==
  ~late =>
    /\ proc = "up"
    /\ \A u \in Threads : Outstanding(u) =>
         \E t \in Threads : pc[t] = "at_wait" /\ tgt[t] = u
    /\ \A t \in Threads :
         /\ pc[t] \in {"at_arm", "at_kill"} => ~finished
         /\ pc[t] = "at_wait" => Sought(t)

LEMMA ListOnlyStep ==
  ASSUME Tracers = {}, TypeOK, ListOnly, [Next]_vars
  PROVE  ListOnly'
<1> USE ThreadsAssumption
<1> USE DEF TypeOK, ListOnly, ListHolding, Asking, process, signals, shared,
            calls, At, Goto
<1>1. ASSUME NEW t \in Threads, Deliver(t) PROVE ListOnly'
  BY <1>1 DEF Deliver
<1>2. ASSUME NEW t \in Threads, Handler(t) PROVE ListOnly'
  BY <1>2 DEF Handler, TraceFrame, TraceCount, ActiveHandle, ActiveFinished
<1>3. ASSUME NEW t \in Threads, Exit(t) PROVE ListOnly'
  BY <1>3 DEF Exit
<1>4. ASSUME NEW t \in Threads, ActiveStep(t) PROVE ListOnly'
  <2>1. CASE AtLock(t)
    BY <2>1 DEF AtLock
  <2>2. CASE AtInstall(t)
    BY <2>2 DEF AtInstall
  <2>3. ASSUME NEW u \in Threads, AtNext(t, u) PROVE ListOnly'
    BY <2>3 DEF AtNext
  <2>4. CASE AtArm(t)
    BY <2>4 DEF AtArm
  <2>5. CASE AtSend(t)
    BY <2>5 DEF AtSend, Kill
  <2>6. CASE AtAnswered(t)
    BY <2>6 DEF AtAnswered
  <2>7. CASE AtTimeout(t)
    BY <2>7 DEF AtTimeout
  <2>8. CASE AtTake(t)
    BY <2>8 DEF AtTake
  <2>9. CASE AtRestore(t)
    BY <2>9 DEF AtRestore
  <2>10. CASE AtUnlock(t)
    BY <2>10 DEF AtUnlock
  <2> QED BY <1>4, <2>1, <2>2, <2>3, <2>4, <2>5, <2>6, <2>7, <2>8, <2>9, <2>10
          DEF ActiveStep
<1>5. ASSUME NEW t \in Threads, BacktraceStep(t) PROVE FALSE
  BY <1>5 DEF BacktraceStep, Lock, Install, Arm, Send, Answered, Timeout, Take,
     CopyWord, Disarm, Unlock
<1>6. ASSUME NEW t \in Listers, ActiveThreads(t) PROVE ListOnly'
  BY <1>6 DEF ActiveThreads
<1>7. CASE UNCHANGED vars
  BY <1>7 DEF vars
<1> QED BY <1>1, <1>2, <1>3, <1>4, <1>5, <1>6, <1>7 DEF Next, Ended

\* A step that neither touches the signals nor takes anybody in or out of the
\* three labels between the first store and the answer.
LEMMA ListFrame ==
  ASSUME TypeOK, ListOnTime, UNCHANGED <<proc, pending, hpc, finished, late>>,
         \A x \in Threads :
           \/ pc'[x] = pc[x] /\ tgt'[x] = tgt[x]
           \/ pc[x] # "at_wait" /\ pc'[x] \notin {"at_arm", "at_kill", "at_wait"}
           \/ pc[x] = "at_arm" /\ pc'[x] = "at_kill"
  PROVE  ListOnTime'
<1> SUFFICES ASSUME ~late PROVE ListOnTime'
  BY DEF ListOnTime
<1>1. \A u \in Threads : Outstanding(u)' => Outstanding(u)
  BY DEF Outstanding
<1>2. \A x \in Threads :
        /\ pc'[x] \in {"at_arm", "at_kill"} => ~finished'
        /\ pc'[x] = "at_wait" => Sought(x)'
  BY DEF ListOnTime, Sought
<1>3. ASSUME NEW u \in Threads, Outstanding(u)
      PROVE  \E t \in Threads : pc'[t] = "at_wait" /\ tgt'[t] = u
  BY <1>3 DEF ListOnTime
<1> QED BY <1>1, <1>2, <1>3 DEF ListOnTime

LEMMA ListOnTimeStep ==
  ASSUME Tracers = {}, TypeOK, ListOnly, ListOnTime, [Next]_vars
  PROVE  ListOnTime'
<1> USE ThreadsAssumption
<1> USE DEF TypeOK, ListOnly, ListHolding, Asking, process, signals, shared,
            calls, At, Goto, Outstanding
<1>0. SUFFICES ASSUME ~late' PROVE ListOnTime'
  BY DEF ListOnTime
<1>00. ~late
  BY <1>0 DEF Next, Deliver, Handler, TraceFrame, TraceCount, ActiveHandle,
     ActiveFinished, Exit, BacktraceStep, Lock, Install, Arm, Send, Answered,
     Timeout, Take, CopyWord, Disarm, Unlock, ActiveStep, AtLock, AtInstall,
     AtNext, AtArm, AtSend, AtAnswered, AtTimeout, AtTake, AtRestore, AtUnlock,
     Backtrace, ActiveThreads, Ended, vars
<1>1. ASSUME NEW u \in Threads, Deliver(u) PROVE ListOnTime'
  <2>1. pending[u] > 0 /\ hpc[u] = "off"
    BY <1>1 DEF Deliver
  <2>2. PICK t \in Threads : pc[t] = "at_wait" /\ tgt[t] = u /\ atMutex = t
    BY <2>1, <1>00 DEF ListOnTime
  <2>3. pending[u] = 1 /\ ~finished
    <3>1. Sought(t)
      BY <2>2, <1>00 DEF ListOnTime
    <3> QED BY <2>1, <2>2, <3>1 DEF Sought
  <2>4. /\ pending' = [pending EXCEPT ![u] = 0]
        /\ hpc' = [hpc EXCEPT ![u] = "active"]
        /\ UNCHANGED <<proc, shared, calls, late>>
    BY <1>1, <2>2, <2>3 DEF Deliver
  <2>5. \A x \in Threads : Outstanding(x)' => x = u
    BY <2>2, <2>4, <1>00 DEF ListOnTime
  <2>6. Sought(t)'
    BY <2>2, <2>3, <2>4 DEF Sought
  <2>7. \A x \in Threads : x # t => pc[x] \in {"idle", "at_lock"}
    BY <2>2
  <2> QED BY <1>00, <2>2, <2>4, <2>5, <2>6, <2>7 DEF ListOnTime
<1>2. ASSUME NEW u \in Threads, Handler(u) PROVE ListOnTime'
  <2>1. hpc[u] = "active"
    BY <1>2 DEF Handler, TraceFrame, TraceCount, ActiveHandle, ActiveFinished
  <2>2. PICK t \in Threads : pc[t] = "at_wait" /\ tgt[t] = u /\ atMutex = t
    BY <2>1, <1>00 DEF ListOnTime
  <2>3. pending[u] = 0 /\ ~finished
    BY <2>1, <2>2, <1>00 DEF ListOnTime, Sought
  <2>4. \A x \in Threads : x # t => pc[x] \in {"idle", "at_lock"}
    BY <2>2
  <2>5. CASE ActiveHandle(u)
    BY <2>5, ListFrame DEF ActiveHandle
  <2>6. CASE ActiveFinished(u)
    <3>1. Sought(t)'
      BY <2>2, <2>3, <2>6 DEF ActiveFinished, Sought
    <3>2. \A x \in Threads : Outstanding(x) => x = u
      BY <2>2, <1>00 DEF ListOnTime
    <3>3. \A x \in Threads : ~Outstanding(x)'
      BY <2>3, <2>6, <3>2 DEF ActiveFinished
    <3> QED BY <1>00, <2>2, <2>4, <2>6, <3>1, <3>3 DEF ActiveFinished, ListOnTime
  <2> QED BY <1>2, <2>1, <2>5, <2>6 DEF Handler, TraceFrame, TraceCount
<1>3. ASSUME NEW u \in Threads, Exit(u) PROVE ListOnTime'
  <2>1. /\ hpc[u] = "off"
        /\ pending' = [pending EXCEPT ![u] = 0]
        /\ UNCHANGED <<proc, hpc, hpos, shared, calls, late>>
    BY <1>3 DEF Exit
  <2>2. \A x \in Threads : Outstanding(x)' => Outstanding(x)
    BY <2>1
  <2>3. \A x \in Threads : Sought(x) => Sought(x)'
    BY <2>1 DEF Sought
  <2> QED BY <1>00, <2>1, <2>2, <2>3 DEF ListOnTime
<1>4. ASSUME NEW t \in Threads, ActiveStep(t) PROVE ListOnTime'
  <2>1. CASE AtLock(t)
    BY <2>1, ListFrame DEF AtLock
  <2>2. CASE AtInstall(t)
    BY <2>2, ListFrame DEF AtInstall
  <2>3. ASSUME NEW u \in Threads, AtNext(t, u) PROVE ListOnTime'
    <3>1. \A x \in Threads : ~Outstanding(x)
      BY <1>00, <2>3 DEF AtNext, ListOnTime
    <3>2. \A x \in Threads : x # t => pc[x] \in {"idle", "at_lock"}
      BY <2>3 DEF AtNext
    <3> QED BY <1>00, <2>3, <3>1, <3>2 DEF AtNext, ListOnTime
  <2>4. CASE AtArm(t)
    <3>1. \A x \in Threads :
            \/ pc'[x] = pc[x] /\ tgt'[x] = tgt[x]
            \/ pc[x] = "at_arm" /\ pc'[x] = "at_kill"
      BY <2>4 DEF AtArm
    <3>2. UNCHANGED <<proc, pending, hpc, finished, late>>
      BY <2>4 DEF AtArm
    <3> QED BY <3>1, <3>2, ListFrame
  <2>5. CASE AtSend(t)
    <3>1. \A u \in Threads : ~Outstanding(u)
      BY <1>00, <2>5 DEF AtSend, ListOnTime
    <3>2. ~finished
      BY <1>00, <2>5 DEF AtSend, ListOnTime
    <3>3. /\ pending[tgt[t]] = 0 /\ hpc[tgt[t]] = "off" /\ tgt[t] \in Threads
          /\ \A u \in Threads : pending[u] = 0
      BY <3>1
    <3>4. /\ pending' = pending \/ pending' = [pending EXCEPT ![tgt[t]] = 1]
          /\ UNCHANGED <<proc, hpc, hpos, atMutex, finished, tgt, late>>
          /\ pc' = [pc EXCEPT ![t] = "at_wait"]
      BY <2>5, <3>3 DEF AtSend, Kill
    <3>5. Sought(t)'
      BY <3>2, <3>3, <3>4 DEF Sought
    <3>6. \A x \in Threads : x # t => pc[x] \in {"idle", "at_lock"}
      BY <2>5 DEF AtSend
    <3>7. ASSUME NEW u \in Threads, Outstanding(u)'
          PROVE  pc'[t] = "at_wait" /\ tgt'[t] = u
      BY <2>5, <3>1, <3>4, <3>7 DEF AtSend
    <3>8. \A u \in Threads : Outstanding(u)' =>
             \E x \in Threads : pc'[x] = "at_wait" /\ tgt'[x] = u
      BY <3>7
    <3>9. \A x \in Threads :
            /\ pc'[x] = "at_wait" => Sought(x)'
            /\ pc'[x] \notin {"at_arm", "at_kill"}
      <4>1. \A x \in Threads : x # t => pc'[x] \in {"idle", "at_lock"}
        BY <3>4, <3>6
      <4>2. pc'[t] = "at_wait"
        BY <3>4
      <4> QED BY <3>5, <4>1, <4>2
    <3>10. proc' = "up"
      BY <1>00, <3>4 DEF ListOnTime
    <3> QED BY <3>8, <3>9, <3>10 DEF ListOnTime
  <2>6. CASE AtAnswered(t)
    <3>1. \A u \in Threads : ~Outstanding(u)
      BY <1>00, <2>6 DEF AtAnswered, ListOnTime, Sought
    <3> QED BY <1>00, <2>6, <3>1 DEF AtAnswered, ListOnTime
  <2>7. CASE AtTimeout(t)
    <3>1. ~Outstanding(tgt[t])
      BY <1>0, <2>7 DEF AtTimeout
    <3>2. \A u \in Threads : ~Outstanding(u)
      BY <1>00, <2>7, <3>1 DEF AtTimeout, ListOnTime
    <3> QED BY <1>00, <2>7, <3>2 DEF AtTimeout, ListOnTime
  <2>8. CASE AtTake(t)
    BY <2>8, ListFrame DEF AtTake
  <2>9. CASE AtRestore(t)
    BY <2>9, ListFrame DEF AtRestore
  <2>10. CASE AtUnlock(t)
    <3>1. \A x \in Threads :
            \/ pc'[x] = pc[x] /\ tgt'[x] = tgt[x]
            \/ pc[x] = "at_unlock" /\ pc'[x] = "idle"
      BY <2>10 DEF AtUnlock
    <3>2. UNCHANGED <<proc, pending, hpc, finished, late>>
      BY <2>10 DEF AtUnlock
    <3> QED BY <3>1, <3>2, ListFrame
  <2> QED BY <1>4, <2>1, <2>2, <2>3, <2>4, <2>5, <2>6, <2>7, <2>8, <2>9, <2>10
          DEF ActiveStep
<1>5. ASSUME NEW t \in Threads, BacktraceStep(t) PROVE FALSE
  BY <1>5 DEF BacktraceStep, Lock, Install, Arm, Send, Answered, Timeout, Take,
     CopyWord, Disarm, Unlock
<1>6. ASSUME NEW t \in Listers, ActiveThreads(t) PROVE ListOnTime'
  BY <1>6, ListFrame DEF ActiveThreads
<1>7. CASE UNCHANGED vars
  BY <1>7, ListFrame DEF vars
<1> QED BY <1>1, <1>2, <1>3, <1>4, <1>5, <1>6, <1>7 DEF Next, Ended

ListInv == TypeOK /\ ListOnly /\ ListOnTime

LEMMA ListInit == Init => ListInv
  BY TypeInit, ThreadsAssumption
  DEF Init, ListInv, ListOnly, ListOnTime, ListHolding, Asking, Outstanding

LEMMA ListStep == Tracers = {} /\ ListInv /\ [Next]_vars => ListInv'
  BY TypeStep, ListOnlyStep, ListOnTimeStep DEF ListInv

\* As long as nobody calls backtrace for another thread, what can end the
\* process is a signal that arrives after activeThreads stopped waiting for it.
THEOREM ActiveFatalOnlyIfLate == Tracers = {} => (Spec => []FatalOnlyIfLate)
<1> SUFFICES ASSUME Tracers = {} PROVE Spec => []FatalOnlyIfLate
  OBVIOUS
<1>1. Init => ListInv
  BY ListInit
<1>2. ListInv /\ [Next]_vars => ListInv'
  BY ListStep
<1>3. ListInv => FatalOnlyIfLate
  BY DEF ListInv, ListOnTime, FatalOnlyIfLate
<1> QED BY <1>1, <1>2, <1>3, PTL DEF Spec

-----------------------------------------------------------------------------
(* What activeThreads finds *)

InList(t, u) == \E i \in DOMAIN list[t] : list[t][i] = u

\* The list of t while no answer is late: handles of others, each once, none of
\* a thread that is still to be asked.
Distinct(t) ==
  /\ t \notin ask[t]
  /\ \A i, j \in DOMAIN list[t] : list[t][i] = list[t][j] => i = j
  /\ \A i \in DOMAIN list[t] : list[t][i] # t /\ list[t][i] \notin ask[t]

\* A live thread is in the list, still to be asked, or the one that is asked.
Covered(t) ==
  \A u \in live \ {t} :
    \/ InList(t, u)
    \/ u \in ask[t]
    \/ pc[t] \in Asking \ {"at_next"} /\ u = tgt[t]

\* thread_handle is the caller until the asked thread has written its own.
Told(t) ==
  LET u == tgt[t] IN
  /\ pc[t] \in Asking \ {"at_next"} =>
       u # t /\ u \notin ask[t] /\ ~InList(t, u)
  /\ pc[t] = "at_kill" => handle = t
  /\ pc[t] \in {"at_wait", "at_take"} => handle \in {t, u}
  /\ pc[t] = "at_wait" /\ u \in live =>
       pending[u] > 0 \/ (hpc[u] = "active" /\ hpos[u] = 0) \/ handle = u
  /\ pc[t] = "at_take" /\ u \in live => handle = u

FoundBy(t) ==
  /\ Distinct(t)
  /\ Told(t)
  /\ pc[t] \in {"idle", "at_lock", "at_install"} => list[t] = << >>
  /\ pc[t] # "idle" => Covered(t)
  /\ pc[t] = "at_unlock" => ask[t] = {}

ListFound == ~late => \A t \in Threads : FoundBy(t)

\* A step that leaves x's call alone and either x's question or what it is about.
LEMMA FoundKept ==
  ASSUME NEW x \in Threads, FoundBy(x), live' \subseteq live,
         pc'[x] = pc[x], tgt'[x] = tgt[x], ask'[x] = ask[x], list'[x] = list[x],
         \/ pc[x] \notin {"at_kill", "at_wait", "at_take"}
         \/ /\ handle' = handle
            /\ \A u \in live' : /\ pending'[u] = pending[u]
                               /\ hpc'[u] = hpc[u] /\ hpos'[u] = hpos[u]
  PROVE  FoundBy(x)'
<1>1. \A u : InList(x, u)' <=> InList(x, u)
  BY DEF InList
<1>2. Distinct(x)' /\ (Covered(x) => Covered(x)')
  BY <1>1 DEF FoundBy, Distinct, Covered
<1>3. Told(x)'
  BY <1>1 DEF FoundBy, Told, Asking
<1> QED BY <1>2, <1>3 DEF FoundBy

\* The handle that t collects is new.
LEMMA AppendHandle ==
  ASSUME TypeOK, NEW t \in Threads, Distinct(t), handle # t,
         handle \notin ask[t], ~InList(t, handle),
         list' = [list EXCEPT ![t] = Append(@, handle)], ask' = ask
  PROVE  Distinct(t)' /\ \A u : InList(t, u)' <=> InList(t, u) \/ u = handle
<1> DEFINE before == list[t]
           new == Append(list[t], handle)
<1>1. before \in Seq(Owners) /\ handle \in Owners /\ list'[t] = new
  BY DEF TypeOK
<1>2. /\ DOMAIN new = 1 .. Len(before) + 1 /\ DOMAIN before = 1 .. Len(before)
      /\ Len(before) \in Nat
      /\ \A i \in 1 .. Len(before) : new[i] = before[i]
      /\ new[Len(before) + 1] = handle
  BY <1>1
<1> HIDE DEF new
<1>3. \A i \in DOMAIN new : i \in DOMAIN before \/ i = Len(before) + 1
  BY <1>2
<1>4. \A i \in DOMAIN before : i \in DOMAIN new /\ new[i] = before[i]
  BY <1>2
<1>5. Len(before) + 1 \in DOMAIN new
  BY <1>2
<1>6. \A u : InList(t, u)' <=> InList(t, u) \/ u = handle
  BY <1>1, <1>2, <1>3, <1>4, <1>5 DEF InList
<1>7. \A i, j \in DOMAIN new : new[i] = new[j] => i = j
  BY <1>2, <1>3, <1>4 DEF Distinct, InList
<1>8. \A i \in DOMAIN new : new[i] # t /\ new[i] \notin ask[t]
  BY <1>2, <1>3, <1>4 DEF Distinct
<1> QED BY <1>1, <1>6, <1>7, <1>8 DEF Distinct

\* The steps of a call: of its own state and what it has found.
LEMMA ListFoundCall ==
  ASSUME TypeOK, ListOnly, ListOnTime, ~late, ~late', NEW t \in Threads,
         FoundBy(t), ActiveStep(t)
  PROVE  FoundBy(t)' /\ live' = live
<1> USE ThreadsAssumption
<1> USE DEF process, signals, shared, calls, At, Goto
<1>0. t \in DOMAIN pc /\ t \in DOMAIN list /\ t \in DOMAIN ask /\ t \in DOMAIN tgt
  BY DEF TypeOK
<1>1. CASE AtLock(t)
  BY <1>0, <1>1 DEF AtLock, FoundBy, Distinct, Told, Covered, InList, Asking
<1>2. CASE AtInstall(t)
  <2>1. list'[t] = << >> /\ pc'[t] = "at_next" /\ UNCHANGED <<live, list, ask, tgt>>
    BY <1>0, <1>2 DEF AtInstall, FoundBy
  <2> QED BY <1>2, <2>1 DEF AtInstall, FoundBy, Distinct, Told, Covered, InList, Asking
<1>3. ASSUME NEW u \in Threads, AtNext(t, u) PROVE FoundBy(t)' /\ live' = live
  <2>1. /\ pc[t] = "at_next" /\ pc'[t] = "at_arm" /\ u \in ask[t]
        /\ tgt'[t] = u /\ ask'[t] = ask[t] \ {u}
        /\ UNCHANGED <<live, list>>
    BY <1>0, <1>3 DEF AtNext
  <2>2. u # t /\ ~InList(t, u)
    BY <2>1 DEF FoundBy, Distinct, InList
  <2> QED BY <2>1, <2>2 DEF FoundBy, Distinct, Told, Covered, InList, Asking
<1>4. CASE AtArm(t)
  <2>1. /\ pc[t] = "at_arm" /\ pc'[t] = "at_kill" /\ handle' = t
        /\ UNCHANGED <<live, list, ask, tgt>>
    BY <1>0, <1>4 DEF AtArm
  <2> QED BY <2>1 DEF FoundBy, Distinct, Told, Covered, InList, Asking
<1>5. CASE AtSend(t)
  <2>1. /\ pc[t] = "at_kill" /\ pc'[t] = "at_wait"
        /\ Kill(tgt[t])
        /\ UNCHANGED <<live, list, ask, tgt, handle>>
    BY <1>0, <1>5 DEF AtSend
  <2>2. tgt[t] \in Threads /\ ~Outstanding(tgt[t])
    <3>1. \A x \in Threads : pc[x] = "at_wait" => FALSE
      BY <2>1 DEF ListOnly, ListHolding, Asking
    <3> QED BY <3>1 DEF ListOnTime, TypeOK
  <2>3. tgt[t] \in live => pending'[tgt[t]] > 0
    BY <2>1, <2>2, MaxPendingAssumption DEF Kill, Outstanding, TypeOK
  <2> QED BY <2>1, <2>3 DEF FoundBy, Distinct, Told, Covered, InList, Asking
<1>6. ASSUME pc[t] = "at_wait", pc'[t] = "at_take", ~Outstanding(tgt[t]),
             UNCHANGED <<live, list, ask, tgt, handle>>
      PROVE  FoundBy(t)' /\ live' = live
  <2>1. tgt[t] \in live => handle = tgt[t]
    BY <1>6 DEF FoundBy, Told, Outstanding, TypeOK
  <2> QED BY <1>6, <2>1 DEF FoundBy, Distinct, Told, Covered, InList, Asking
<1>7. CASE AtAnswered(t)
  <2>1. /\ pc[t] = "at_wait" /\ pc'[t] = "at_take" /\ finished
        /\ UNCHANGED <<live, list, ask, tgt, handle>>
    BY <1>0, <1>7 DEF AtAnswered
  <2>2. ~Outstanding(tgt[t])
    BY <2>1 DEF ListOnTime, Sought, Outstanding
  <2> QED BY <1>6, <2>1, <2>2
<1>8. CASE AtTimeout(t)
  <2>1. /\ pc[t] = "at_wait" /\ pc'[t] = "at_take" /\ ~Outstanding(tgt[t])
        /\ UNCHANGED <<live, list, ask, tgt, handle>>
    BY <1>0, <1>8 DEF AtTimeout
  <2> QED BY <1>6, <2>1
<1>9. CASE AtTake(t)
  <2>1. /\ pc[t] = "at_take" /\ pc'[t] = "at_next"
        /\ handle \in {t, tgt[t]}
        /\ tgt[t] \in live => handle = tgt[t]
        /\ tgt[t] # t /\ tgt[t] \notin ask[t] /\ ~InList(t, tgt[t])
        /\ UNCHANGED <<live, ask, tgt, handle>>
    BY <1>0, <1>9 DEF AtTake, FoundBy, Told, Asking
  <2>2. CASE handle = t
    <3>1. list'[t] = list[t] /\ tgt[t] \notin live
      BY <1>0, <1>9, <2>1, <2>2 DEF AtTake
    <3> QED BY <2>1, <3>1 DEF FoundBy, Distinct, Told, Covered, InList, Asking
  <2>3. CASE handle = tgt[t]
    <3>1. list' = [list EXCEPT ![t] = Append(@, handle)]
      BY <1>0, <1>9, <2>1, <2>3 DEF AtTake
    <3>2. Distinct(t)' /\ \A u : InList(t, u)' <=> InList(t, u) \/ u = handle
      BY <2>1, <2>3, <3>1, AppendHandle DEF FoundBy
    <3>3. Covered(t)'
      BY <2>1, <2>3, <3>2 DEF FoundBy, Covered
    <3> QED BY <2>1, <3>2, <3>3 DEF FoundBy, Told, Asking
  <2> QED BY <2>1, <2>2, <2>3
<1>10. CASE AtRestore(t)
  <2>1. /\ pc[t] = "at_next" /\ pc'[t] = "at_unlock" /\ ask[t] = {}
        /\ UNCHANGED <<live, list, ask, tgt>>
    BY <1>0, <1>10 DEF AtRestore
  <2> QED BY <2>1 DEF FoundBy, Distinct, Told, Covered, InList, Asking
<1>11. CASE AtUnlock(t)
  <2>1. /\ pc[t] = "at_unlock" /\ pc'[t] = "idle" /\ list'[t] = << >>
        /\ UNCHANGED <<live, ask, tgt>>
    BY <1>0, <1>11 DEF AtUnlock
  <2>2. DOMAIN list'[t] = {}
    BY <2>1
  <2> QED BY <2>1, <2>2 DEF FoundBy, Distinct, Told, Asking
<1> QED BY <1>1, <1>2, <1>3, <1>4, <1>5, <1>7, <1>8, <1>9, <1>10, <1>11
        DEF ActiveStep

LEMMA ListFoundStep ==
  ASSUME Tracers = {}, TypeOK, ListOnly, ListOnTime, ListFound, [Next]_vars
  PROVE  ListFound'
<1> USE ThreadsAssumption
<1> USE DEF process, signals, shared, calls, At, Goto
<1>0. SUFFICES ASSUME ~late' PROVE ListFound'
  BY DEF ListFound
<1>00. ~late
  BY <1>0 DEF Next, Deliver, Handler, TraceFrame, TraceCount, ActiveHandle,
     ActiveFinished, Exit, BacktraceStep, Lock, Install, Arm, Send, Answered,
     Timeout, Take, CopyWord, Disarm, Unlock, ActiveStep, AtLock, AtInstall,
     AtNext, AtArm, AtSend, AtAnswered, AtTimeout, AtTake, AtRestore, AtUnlock,
     Backtrace, ActiveThreads, Ended, vars
<1>01. \A x \in Threads : FoundBy(x)
  BY <1>00 DEF ListFound
\* Whoever asks, asks alone: the others wait for the mutex or do not call.
<1>02. \A t, x \in Threads :
         pc[t] \in ListHolding /\ x # t => pc[x] \in {"idle", "at_lock"}
  BY DEF ListOnly
\* A signal under way is that of a caller who waits for it.
<1>03. ASSUME NEW u \in Threads, Outstanding(u)
       PROVE  \E t \in Threads : /\ pc[t] = "at_wait" /\ tgt[t] = u /\ Sought(t)
                                /\ Told(t)
  BY <1>00, <1>01, <1>03 DEF ListOnTime, FoundBy
<1>1. ASSUME NEW u \in Threads, Deliver(u) PROVE ListFound'
  <2>1. PICK t \in Threads : /\ pc[t] = "at_wait" /\ tgt[t] = u /\ Sought(t)
                             /\ Told(t)
    BY <1>1, <1>03 DEF Deliver, Outstanding
  <2>2. disp = "active"
    BY <2>1 DEF ListOnly, Asking
  <2>3. /\ hpc' = [hpc EXCEPT ![u] = "active"]
        /\ hpos' = [hpos EXCEPT ![u] = 0]
        /\ UNCHANGED <<live, shared, calls, late>>
    BY <1>1, <2>2 DEF Deliver
  <2>4. Told(t)'
    <3>1. hpc'[u] = "active" /\ hpos'[u] = 0
      BY <2>3 DEF TypeOK
    <3> QED BY <2>1, <2>3, <3>1 DEF Told, InList
  <2>5. FoundBy(t)'
    BY <1>01, <2>1, <2>3, <2>4 DEF FoundBy, Distinct, Covered, InList
  <2>6. ASSUME NEW x \in Threads, x # t PROVE FoundBy(x)'
    <3>1. pc[x] \in {"idle", "at_lock"}
      BY <1>02, <2>1, <2>6 DEF ListHolding, Asking
    <3> QED BY <1>01, <2>3, <3>1, FoundKept
  <2> QED BY <2>5, <2>6 DEF ListFound
<1>2. ASSUME NEW u \in Threads, Handler(u) PROVE ListFound'
  <2>1. hpc[u] = "active"
    BY <1>2 DEF Handler, TraceFrame, TraceCount, ActiveHandle, ActiveFinished,
       ListOnly
  <2>2. PICK t \in Threads : /\ pc[t] = "at_wait" /\ tgt[t] = u /\ Sought(t)
                             /\ Told(t)
    BY <2>1, <1>03 DEF Outstanding
  <2>3. pending[u] = 0
    BY <2>1, <2>2 DEF Sought
  <2>4. UNCHANGED <<live, calls, late>>
    BY <1>2 DEF Handler, TraceFrame, TraceCount, ActiveHandle, ActiveFinished
  <2>5. Told(t)'
    <3>1. CASE ActiveHandle(u)
      <4>1. handle' = u
        BY <3>1 DEF ActiveHandle
      <4> QED BY <2>2, <2>4, <4>1 DEF Told, InList
    <3>2. CASE ActiveFinished(u)
      <4>1. hpos[u] = 1 /\ handle' = handle
        BY <3>2 DEF ActiveFinished
      <4>2. u \in live => handle = u
        BY <2>2, <2>3, <4>1 DEF Told
      <4> QED BY <2>2, <2>4, <4>1, <4>2 DEF Told, InList
    <3> QED BY <1>2, <2>1, <3>1, <3>2 DEF Handler, TraceFrame, TraceCount
  <2>6. FoundBy(t)'
    BY <1>01, <2>2, <2>4, <2>5 DEF FoundBy, Distinct, Covered, InList
  <2>7. ASSUME NEW x \in Threads, x # t PROVE FoundBy(x)'
    <3>1. pc[x] \in {"idle", "at_lock"}
      BY <1>02, <2>2, <2>7 DEF ListHolding, Asking
    <3> QED BY <1>01, <2>4, <3>1, FoundKept
  <2> QED BY <2>6, <2>7 DEF ListFound
<1>3. ASSUME NEW u \in Threads, Exit(u) PROVE ListFound'
  <2>1. /\ live' = live \ {u} /\ pending' = [pending EXCEPT ![u] = 0]
        /\ UNCHANGED <<hpc, hpos, shared, calls, late>>
    BY <1>3 DEF Exit
  <2>2. \A v \in live' : pending'[v] = pending[v]
    BY <2>1 DEF TypeOK
  <2> QED BY <1>01, <2>1, <2>2, FoundKept DEF ListFound
<1>4. ASSUME NEW t \in Threads, ActiveStep(t) PROVE ListFound'
  <2>1. FoundBy(t)' /\ live' = live
    BY <1>0, <1>00, <1>01, <1>4, ListFoundCall
  <2>2. \A x \in Threads : x # t =>
          pc'[x] = pc[x] /\ tgt'[x] = tgt[x] /\ ask'[x] = ask[x] /\ list'[x] = list[x]
    BY <1>4 DEF ActiveStep, AtLock, AtInstall, AtNext, AtArm, AtSend, AtAnswered,
       AtTimeout, AtTake, AtRestore, AtUnlock, TypeOK
  <2>3. ASSUME NEW x \in Threads, x # t
        PROVE  \/ pc[x] \notin {"at_kill", "at_wait", "at_take"}
               \/ UNCHANGED <<handle, pending, hpc, hpos>>
    <3>1. CASE AtLock(t)
      BY <3>1 DEF AtLock
    <3>2. CASE ~AtLock(t)
      <4>1. pc[t] \in ListHolding
        BY <1>4, <3>2 DEF ActiveStep, AtInstall, AtNext, AtArm, AtSend, AtAnswered,
           AtTimeout, AtTake, AtRestore, AtUnlock, ListHolding, Asking
      <4> QED BY <1>02, <2>3, <4>1
    <3> QED BY <3>1, <3>2
  <2>4. \A x \in Threads : x # t => FoundBy(x)'
    BY <1>01, <2>1, <2>2, <2>3, FoundKept
  <2> QED BY <2>1, <2>4 DEF ListFound
<1>5. ASSUME NEW t \in Threads, BacktraceStep(t) PROVE FALSE
  BY <1>5 DEF BacktraceStep, Lock, Install, Arm, Send, Answered, Timeout, Take,
     CopyWord, Disarm, Unlock, ListOnly, ListHolding, Asking
<1>6. ASSUME NEW t \in Listers, ActiveThreads(t) PROVE ListFound'
  <2>1. /\ t \in Threads /\ pc[t] = "idle" /\ pc'[t] = "at_lock"
        /\ ask'[t] = live \ {t} /\ list[t] = << >>
        /\ UNCHANGED <<live, list, tgt>>
    BY <1>01, <1>6 DEF ActiveThreads, TypeOK, FoundBy
  <2>2. FoundBy(t)'
    <3>1. DOMAIN list'[t] = {}
      BY <2>1
    <3> QED BY <2>1, <3>1 DEF FoundBy, Distinct, Told, Covered, Asking
  <2>3. \A x \in Threads : x # t => FoundBy(x)'
    BY <1>01, <1>6, FoundKept DEF ActiveThreads, TypeOK
  <2> QED BY <2>2, <2>3 DEF ListFound
<1>7. CASE UNCHANGED vars
  BY <1>01, <1>7, FoundKept DEF vars, ListFound
<1> QED BY <1>1, <1>2, <1>3, <1>4, <1>5, <1>6, <1>7 DEF Next, Ended

\* As long as nobody calls backtrace for another thread and no answer is late,
\* the list of activeThreads holds every live thread but the caller once, and
\* nobody twice, whichever threads end while it asks and however many call it.
THEOREM ActiveListExact == Tracers = {} => (Spec => []ListExactUnlessLate)
<1> SUFFICES ASSUME Tracers = {} PROVE Spec => []ListExactUnlessLate
  OBVIOUS
<1>1. Init => ListInv /\ ListFound
  <2> SUFFICES ASSUME Init PROVE ListInv /\ ListFound
    OBVIOUS
  <2>1. ListInv
    BY ListInit
  <2>2. \A t \in Threads :
          pc[t] = "idle" /\ ask[t] = {} /\ list[t] = << >> /\ DOMAIN list[t] = {}
    BY DEF Init
  <2> QED BY <2>1, <2>2 DEF ListFound, FoundBy, Distinct, Told, Asking
<1>2. ListInv /\ ListFound /\ [Next]_vars => (ListInv /\ ListFound)'
  BY ListStep, ListFoundStep DEF ListInv
<1>3. ListInv /\ ListFound => ListExactUnlessLate
  <2> SUFFICES ASSUME ListFound, NEW t \in Listers, pc[t] = "at_unlock", ~late
               PROVE  /\ \A i, j \in DOMAIN list[t] : list[t][i] = list[t][j] => i = j
                      /\ \A i \in DOMAIN list[t] : list[t][i] # t
                      /\ \A u \in live \ {t} : InList(t, u)
    BY DEF ListExactUnlessLate, InList
  <2>1. FoundBy(t)
    BY ThreadsAssumption DEF ListFound
  <2> QED BY <2>1 DEF FoundBy, Distinct, Covered, Asking
<1> QED BY <1>1, <1>2, <1>3, PTL DEF Spec

-----------------------------------------------------------------------------
(* How long the two mutexes are held, whoever else calls what meanwhile *)

\* A thread holds the mutex of the call it is in, from the lock to the unlock.
Owned ==
  \A t \in Threads : /\ pc[t] \in Holding <=> btMutex = t
                     /\ pc[t] \in ListHolding <=> atMutex = t

\* The steps that backtrace has left before it gives its mutex back.
TraceLeft(t) ==
  CASE pc[t] = "install" -> Frames + 7
    [] pc[t] = "arm" -> Frames + 6
    [] pc[t] = "kill" -> Frames + 5
    [] pc[t] = "wait" -> Frames + 4
    [] pc[t] = "take" -> Frames + 3
    [] pc[t] = "copy" -> Cardinality(todo[t]) + 2
    [] pc[t] = "unlock" -> 1
    [] OTHER -> 0

\* The same of activeThreads: five steps for each thread it still has to ask.
ListLeft(t) ==
  CASE pc[t] = "at_install" -> 5 * Cardinality(ask[t]) + 3
    [] pc[t] = "at_next" -> 5 * Cardinality(ask[t]) + 2
    [] pc[t] = "at_arm" -> 5 * Cardinality(ask[t]) + 6
    [] pc[t] = "at_kill" -> 5 * Cardinality(ask[t]) + 5
    [] pc[t] = "at_wait" -> 5 * Cardinality(ask[t]) + 4
    [] pc[t] = "at_take" -> 5 * Cardinality(ask[t]) + 3
    [] pc[t] = "at_unlock" -> 1
    [] OTHER -> 0

\* Every step of the owner of a mutex brings it closer to the unlock, and no step
\* of a thread or of a handler sets it back.
TraceOwnerNears ==
  [][\A t \in Threads : btMutex = t =>
       /\ TraceLeft(t)' <= TraceLeft(t)
       /\ BacktraceStep(t) => TraceLeft(t)' < TraceLeft(t)]_vars
ListOwnerNears ==
  [][\A t \in Threads : atMutex = t =>
       /\ ListLeft(t)' <= ListLeft(t)
       /\ ActiveStep(t) => ListLeft(t)' < ListLeft(t)]_vars

\* A step moves the thread that takes it, and no other.
LEMMA OneMoves ==
  ASSUME TypeOK, [Next]_vars, NEW x \in Threads,
         ~BacktraceStep(x), ~ActiveStep(x), pc[x] # "idle"
  PROVE  UNCHANGED <<pc[x], todo[x], ask[x]>>
<1> USE ThreadsAssumption DEF TypeOK, shared, calls, At, Goto
<1>1. ASSUME NEW t \in Threads, Deliver(t) \/ Handler(t) \/ Exit(t)
      PROVE  UNCHANGED <<pc[x], todo[x], ask[x]>>
  BY <1>1 DEF Deliver, Handler, TraceFrame, TraceCount, ActiveHandle, ActiveFinished,
              Exit
<1>2. ASSUME NEW t \in Threads, t # x, BacktraceStep(t)
      PROVE  UNCHANGED <<pc[x], todo[x], ask[x]>>
  BY <1>2 DEF BacktraceStep, Lock, Install, Arm, Send, Answered, Timeout, Take,
              CopyWord, Disarm, Unlock
<1>3. ASSUME NEW t \in Threads, t # x, ActiveStep(t)
      PROVE  UNCHANGED <<pc[x], todo[x], ask[x]>>
  BY <1>3 DEF ActiveStep, AtLock, AtInstall, AtNext, AtArm, AtSend, AtAnswered,
              AtTimeout, AtTake, AtRestore, AtUnlock
<1>4. ASSUME NEW t \in Tracers, NEW u \in Threads, Backtrace(t, u)
      PROVE  UNCHANGED <<pc[x], todo[x], ask[x]>>
  BY <1>4 DEF Backtrace
<1>5. ASSUME NEW t \in Listers, ActiveThreads(t)
      PROVE  UNCHANGED <<pc[x], todo[x], ask[x]>>
  BY <1>5 DEF ActiveThreads
<1>6. CASE UNCHANGED vars
  BY <1>6 DEF vars
<1>. QED
  BY <1>1, <1>2, <1>3, <1>4, <1>5, <1>6 DEF Next, Ended

LEMMA OwnedStep == TypeOK /\ Owned /\ [Next]_vars => Owned'
<1> SUFFICES ASSUME TypeOK, Owned, [Next]_vars PROVE Owned'
  OBVIOUS
<1> USE ThreadsAssumption
    DEF TypeOK, Owned, Holding, ListHolding, Asking, shared, calls, At, Goto
<1>1. ASSUME NEW t \in Threads, Deliver(t) \/ Handler(t) \/ Exit(t) PROVE Owned'
  BY <1>1 DEF Deliver, Handler, TraceFrame, TraceCount, ActiveHandle, ActiveFinished,
              Exit
<1>2. ASSUME NEW t \in Threads, BacktraceStep(t) PROVE Owned'
  <2>1. CASE Lock(t) \/ Unlock(t)
    BY <2>1 DEF Lock, Unlock
  <2>2. CASE Install(t) \/ Arm(t) \/ Send(t)
    BY <2>2 DEF Install, Arm, Send
  <2>3. CASE Answered(t) \/ Timeout(t) \/ Take(t)
    BY <2>3 DEF Answered, Timeout, Take
  <2>4. CASE Disarm(t) \/ \E w \in Words : CopyWord(t, w)
    BY <2>4 DEF CopyWord, Disarm
  <2>. QED
    BY <1>2, <2>1, <2>2, <2>3, <2>4 DEF BacktraceStep
<1>3. ASSUME NEW t \in Threads, ActiveStep(t) PROVE Owned'
  <2>1. CASE AtLock(t) \/ AtUnlock(t)
    BY <2>1 DEF AtLock, AtUnlock
  <2>2. CASE AtInstall(t) \/ AtArm(t) \/ AtSend(t)
    BY <2>2 DEF AtInstall, AtArm, AtSend
  <2>3. CASE AtAnswered(t) \/ AtTimeout(t) \/ AtTake(t)
    BY <2>3 DEF AtAnswered, AtTimeout, AtTake
  <2>4. CASE AtRestore(t) \/ \E u \in Threads : AtNext(t, u)
    BY <2>4 DEF AtNext, AtRestore
  <2>. QED
    BY <1>3, <2>1, <2>2, <2>3, <2>4 DEF ActiveStep
<1>4. ASSUME NEW t \in Tracers, NEW u \in Threads, Backtrace(t, u) PROVE Owned'
  BY <1>4 DEF Backtrace
<1>5. ASSUME NEW t \in Listers, ActiveThreads(t) PROVE Owned'
  BY <1>5 DEF ActiveThreads
<1>6. CASE UNCHANGED vars
  BY <1>6 DEF vars
<1>. QED
  BY <1>1, <1>2, <1>3, <1>4, <1>5, <1>6 DEF Next, Ended

\* The words that memcpy still copies can be counted, and are no more than a stack.
LEMMA WordsCounted ==
  ASSUME NEW S \in SUBSET Words
  PROVE  /\ IsFiniteSet(S) /\ Cardinality(S) \in Nat /\ Cardinality(S) <= Frames
         /\ \A w \in S : Cardinality(S \ {w}) = Cardinality(S) - 1
<1>1. IsFiniteSet(Words) /\ Cardinality(Words) = Frames
  BY FramesAssumption, FS_Interval DEF Words
<1>. QED
  BY <1>1, FS_Subset, FS_CardinalityType, FS_RemoveElement

\* A step of backtrace under its mutex.
LEMMA TraceStepNears ==
  ASSUME TypeOK, NEW t \in Threads, pc[t] \in Holding, BacktraceStep(t)
  PROVE  TraceLeft(t)' < TraceLeft(t)
<1> USE FramesAssumption DEF TypeOK, At, Goto
<1>1. ASSUME NEW S \in SUBSET Words PROVE Cardinality(S) \in 0 .. Frames
  BY WordsCounted
<1>2. CASE Install(t)
  BY <1>2 DEF Install, TraceLeft
<1>3. CASE Arm(t)
  BY <1>3 DEF Arm, TraceLeft
<1>4. CASE Send(t)
  BY <1>4 DEF Send, TraceLeft
<1>5. CASE Answered(t) \/ Timeout(t)
  BY <1>5 DEF Answered, Timeout, TraceLeft
<1>6. CASE Take(t)
  <2>1. pc[t] = "take" /\ pc'[t] = "copy" /\ todo'[t] \in SUBSET Words
    BY <1>6 DEF Take
  <2>2. Cardinality(todo'[t]) \in 0 .. Frames
    BY <1>1, <2>1
  <2>. QED
    BY <2>1, <2>2 DEF TraceLeft
<1>7. ASSUME NEW w \in Words, CopyWord(t, w) PROVE TraceLeft(t)' < TraceLeft(t)
  <2>1. /\ pc[t] = "copy" /\ pc'[t] = "copy"
        /\ w \in todo[t] /\ todo'[t] = todo[t] \ {w} /\ todo[t] \in SUBSET Words
    BY <1>7 DEF CopyWord
  <2>2. /\ Cardinality(todo[t]) \in Nat
        /\ Cardinality(todo'[t]) = Cardinality(todo[t]) - 1
    BY <2>1, WordsCounted
  <2>. QED
    BY <2>1, <2>2 DEF TraceLeft
<1>8. CASE Disarm(t)
  <2>1. pc[t] = "copy" /\ pc'[t] = "unlock" /\ Cardinality(todo[t]) \in Nat
    BY <1>1, <1>8 DEF Disarm
  <2>. QED
    BY <2>1 DEF TraceLeft
<1>9. CASE Unlock(t)
  BY <1>9 DEF Unlock, TraceLeft
<1>10. ~Lock(t)
  BY DEF Lock, Holding
<1>. QED
  BY <1>2, <1>3, <1>4, <1>5, <1>6, <1>7, <1>8, <1>9, <1>10 DEF BacktraceStep

LEMMA OwnedAlways == Spec => [](TypeOK /\ Owned)
<1>1. Init => Owned
  BY ThreadsAssumption DEF Init, Owned, Holding, ListHolding, Asking
<1>. QED
  BY <1>1, TypeInit, TypeStep, OwnedStep, PTL DEF Spec

\* backtrace( tid ) gives StackTrace_mutex back after at most Frames + 7 steps of its
\* own, whether the thread it asks answers, ends or blocks the signal, and whatever
\* other threads call: the wait has a limit, and nothing moves the owner back.
THEOREM TraceOwnerNearsHolds == Spec => TraceOwnerNears
<1>1. ASSUME TypeOK, Owned, [Next]_vars, NEW t \in Threads, btMutex = t
      PROVE  /\ TraceLeft(t)' <= TraceLeft(t)
             /\ BacktraceStep(t) => TraceLeft(t)' < TraceLeft(t)
  <2>1. pc[t] \in Holding /\ pc[t] # "idle"
    BY <1>1 DEF Owned, Holding
  <2>2. BacktraceStep(t) => TraceLeft(t)' < TraceLeft(t)
    BY <1>1, <2>1, TraceStepNears
  <2>3. ~ActiveStep(t)
    BY <2>1 DEF Holding, ActiveStep, AtLock, AtInstall, AtNext, AtArm, AtSend,
                AtAnswered, AtTimeout, AtTake, AtRestore, AtUnlock, At
  <2>4. ASSUME UNCHANGED <<pc[t], todo[t]>> PROVE TraceLeft(t)' = TraceLeft(t)
    BY ONLY <2>4 DEF TraceLeft
  <2>5. TypeOK'
    BY <1>1, TypeStep
  <2>6. TraceLeft(t) \in Int /\ TraceLeft(t)' \in Int
    <3>1. Cardinality(todo[t]) \in Nat /\ Cardinality(todo[t])' \in Nat
      BY <1>1, <2>5, WordsCounted DEF TypeOK
    <3>. QED
      BY <3>1, FramesAssumption DEF TraceLeft
  <2>. QED
    BY <1>1, <2>1, <2>2, <2>3, <2>4, <2>6, OneMoves
<1>2. TypeOK /\ Owned /\ [Next]_vars =>
        [\A t \in Threads : btMutex = t =>
           /\ TraceLeft(t)' <= TraceLeft(t)
           /\ BacktraceStep(t) => TraceLeft(t)' < TraceLeft(t)]_vars
  BY <1>1
<1>. QED
  BY <1>2, OwnedAlways, PTL DEF Spec, TraceOwnerNears

\* The threads that are still to be asked can be counted.
LEMMA AskCounted ==
  ASSUME IsFiniteSet(Threads), NEW S \in SUBSET Threads
  PROVE  /\ Cardinality(S) \in Nat
         /\ \A u \in S : Cardinality(S \ {u}) = Cardinality(S) - 1
  BY FS_Subset, FS_CardinalityType, FS_RemoveElement

\* A step of activeThreads under its mutex.
LEMMA ListStepNears ==
  ASSUME IsFiniteSet(Threads), TypeOK, NEW t \in Threads, pc[t] \in ListHolding,
         ActiveStep(t)
  PROVE  ListLeft(t)' < ListLeft(t)
<1> USE DEF TypeOK, At, Goto
<1>1. Cardinality(ask[t]) \in Nat
  BY AskCounted
<1>2. CASE AtInstall(t)
  BY <1>1, <1>2 DEF AtInstall, ListLeft
<1>3. ASSUME NEW u \in Threads, AtNext(t, u) PROVE ListLeft(t)' < ListLeft(t)
  <2>1. /\ pc[t] = "at_next" /\ pc'[t] = "at_arm"
        /\ u \in ask[t] /\ ask'[t] = ask[t] \ {u} /\ ask[t] \in SUBSET Threads
    BY <1>3 DEF AtNext
  <2>2. Cardinality(ask'[t]) = Cardinality(ask[t]) - 1
    BY <2>1, AskCounted
  <2>. QED
    BY <1>1, <2>1, <2>2 DEF ListLeft
<1>4. CASE AtArm(t)
  BY <1>1, <1>4 DEF AtArm, ListLeft
<1>5. CASE AtSend(t)
  BY <1>1, <1>5 DEF AtSend, ListLeft
<1>6. CASE AtAnswered(t) \/ AtTimeout(t)
  BY <1>1, <1>6 DEF AtAnswered, AtTimeout, ListLeft
<1>7. CASE AtTake(t)
  BY <1>1, <1>7 DEF AtTake, ListLeft
<1>8. CASE AtRestore(t)
  BY <1>1, <1>8 DEF AtRestore, ListLeft
<1>9. CASE AtUnlock(t)
  BY <1>9 DEF AtUnlock, ListLeft
<1>10. ~AtLock(t)
  BY DEF AtLock, ListHolding, Asking
<1>. QED
  BY <1>2, <1>3, <1>4, <1>5, <1>6, <1>7, <1>8, <1>9, <1>10 DEF ActiveStep

\* activeThreads() gives its own StackTrace_mutex back after at most five steps for
\* each thread of the process and three more, whichever threads answer, end or
\* call backtrace meanwhile.
THEOREM ListOwnerNearsHolds == IsFiniteSet(Threads) => (Spec => ListOwnerNears)
<1> SUFFICES ASSUME IsFiniteSet(Threads) PROVE Spec => ListOwnerNears
  OBVIOUS
<1>1. ASSUME TypeOK, Owned, [Next]_vars, NEW t \in Threads, atMutex = t
      PROVE  /\ ListLeft(t)' <= ListLeft(t)
             /\ ActiveStep(t) => ListLeft(t)' < ListLeft(t)
  <2>1. pc[t] \in ListHolding /\ pc[t] # "idle"
    BY <1>1 DEF Owned, ListHolding, Asking
  <2>2. ActiveStep(t) => ListLeft(t)' < ListLeft(t)
    BY <1>1, <2>1, ListStepNears
  <2>3. ~BacktraceStep(t)
    BY <2>1 DEF ListHolding, Asking, BacktraceStep, Lock, Install, Arm, Send, Answered,
                Timeout, Take, CopyWord, Disarm, Unlock, At
  <2>4. ASSUME UNCHANGED <<pc[t], ask[t]>> PROVE ListLeft(t)' = ListLeft(t)
    BY ONLY <2>4 DEF ListLeft
  <2>5. TypeOK'
    BY <1>1, TypeStep
  <2>6. ListLeft(t) \in Int /\ ListLeft(t)' \in Int
    <3>1. Cardinality(ask[t]) \in Nat /\ Cardinality(ask[t])' \in Nat
      BY <1>1, <2>5, AskCounted DEF TypeOK
    <3>. QED
      BY <3>1 DEF ListLeft
  <2>. QED
    BY <1>1, <2>1, <2>2, <2>3, <2>4, <2>6, OneMoves
<1>2. TypeOK /\ Owned /\ [Next]_vars =>
        [\A t \in Threads : atMutex = t =>
           /\ ListLeft(t)' <= ListLeft(t)
           /\ ActiveStep(t) => ListLeft(t)' < ListLeft(t)]_vars
  BY <1>1
<1>. QED
  BY <1>2, OwnedAlways, PTL DEF Spec, ListOwnerNears
=============================================================================
