------------------------- MODULE TerminationProofs -------------------------
(***************************************************************************)
(* Proofs about the end of a failing process, for any threads and any      *)
(* number of failures: a process ends with one report, the first failure   *)
(* is reported, the handlers that interrupt each other are no more than    *)
(* what struck the thread, and threads block each other only when a signal *)
(* struck the owner of a mutex.                                            *)
(***************************************************************************)
EXTENDS Termination, SequenceTheorems, TLAPS

-----------------------------------------------------------------------------
(* The stacks of activities *)

\* What a thread does when no handler interrupts it.
Basic == {"run", "work", "set_term", "set_sigs"}
Frames == [at : Labels, kind : Kinds]

\* A thread has its own activity at the bottom of its stack, and handlers above.
StackOK(s) ==
  /\ s \in Seq(Frames)
  /\ Len(s) >= 1
  /\ \A i \in 1 .. Len(s) : s[i].at \in Basic <=> i = Len(s)
  /\ s[Len(s)].kind = "none"

Shape ==
  /\ stack \in [Threads -> Seq(Frames)]
  /\ \A t \in Threads : StackOK(stack[t])
  /\ disp \in [Signals -> {"default", "term", "trace"}]
  /\ forceExit \in {0, 2}
  /\ reports \in Nat
  /\ failures \in Nat

LEMMA OneBelowTwo ==
  \A n \in Nat : (n = 1 => n <= 2 /\ n # 2) /\ (1 <= n /\ n <= 2 => n = 1 \/ n = 2)
  OBVIOUS

LEMMA AboveOne == \A n \in Nat : n >= 1 /\ n # 1 => n >= 2 /\ n \in 2 .. n
  OBVIOUS

\* The running activity of t, and whether it is its own.
LEMMA TopFacts ==
  ASSUME Shape, NEW t \in Threads
  PROVE  /\ stack[t] \in Seq(Frames) /\ Len(stack[t]) \in Nat /\ Len(stack[t]) >= 1
         /\ Top(t) = stack[t][1] /\ Top(t) \in Frames
         /\ Top(t).at \in Labels /\ Top(t).kind \in Kinds
         /\ Top(t).at \in Basic <=> Len(stack[t]) = 1
         /\ Len(stack[t]) = 1 => Top(t).kind = "none"
<1>1. stack[t] \in Seq(Frames) /\ Len(stack[t]) >= 1 /\ Len(stack[t]) \in Nat
      /\ StackOK(stack[t])
  BY DEF Shape, StackOK
<1>2. Top(t) = stack[t][1] /\ Top(t) \in Frames
  BY <1>1 DEF Top
<1>3. 1 \in 1 .. Len(stack[t])
  BY <1>1
<1>. QED
  BY <1>1, <1>2, <1>3 DEF StackOK, Frames

\* The running activity of t is replaced by one of the same sort, own or handler.
LEMMA ReplaceFacts ==
  ASSUME Shape, NEW t \in Threads, NEW f \in Frames,
         stack' = [stack EXCEPT ![t][1] = f],
         f.at \in Basic <=> Top(t).at \in Basic,
         f.at \in Basic => f.kind = Top(t).kind
  PROVE  /\ stack' \in [Threads -> Seq(Frames)]
         /\ \A u \in Threads : StackOK(stack'[u])
         /\ \A u \in Threads \ {t} : stack'[u] = stack[u]
         /\ Len(stack'[t]) = Len(stack[t])
         /\ stack'[t][1] = f
         /\ \A i \in 2 .. Len(stack[t]) : stack'[t][i] = stack[t][i]
<1> DEFINE s == stack[t]
           r == [s EXCEPT ![1] = f]
<1>1. s \in Seq(Frames) /\ Len(s) >= 1 /\ StackOK(s) /\ Len(s) \in Nat
  BY DEF Shape, StackOK
<1>2. Top(t) = s[1]
  BY TopFacts
<1>3. /\ r \in Seq(Frames) /\ Len(r) = Len(s)
      /\ r[1] = f
      /\ \A i \in 2 .. Len(s) : r[i] = s[i]
  BY <1>1, ExceptSeq
<1>4. stack' = [stack EXCEPT ![t] = r]
  OBVIOUS
<1> HIDE DEF r
<1>5. ASSUME NEW i \in 1 .. Len(r) PROVE r[i].at \in Basic <=> i = Len(r)
  <2>1. CASE i = 1
    BY <1>1, <1>2, <1>3, <2>1 DEF StackOK
  <2>2. CASE i # 1
    BY <1>1, <1>3, <2>2 DEF StackOK
  <2>. QED
    BY <2>1, <2>2
<1>6. r[Len(r)].kind = "none"
  <2>1. s[Len(s)].kind = "none" /\ Len(s) \in 1 .. Len(s)
    BY <1>1 DEF StackOK
  <2>2. CASE Len(s) = 1
    BY <1>2, <1>3, <1>5, <2>1, <2>2
  <2>3. CASE Len(s) # 1
    <3>1. Len(s) \in Nat /\ Len(s) >= 1
      BY <1>1
    <3>2. Len(s) \in 2 .. Len(s)
      BY <2>3, <3>1, AboveOne
    <3>. QED
      BY <1>3, <2>1, <3>2
  <2>. QED
    BY <2>2, <2>3
<1>7. StackOK(r)
  BY <1>1, <1>3, <1>5, <1>6 DEF StackOK
<1>. QED
  BY <1>1, <1>3, <1>4, <1>7 DEF Shape

\* The running activity of t gets another label.
LEMMA JumpFacts ==
  ASSUME Shape, NEW t \in Threads, NEW label \in Labels, Jump(t, label),
         label \in Basic <=> Top(t).at \in Basic
  PROVE  /\ stack' \in [Threads -> Seq(Frames)]
         /\ \A u \in Threads : StackOK(stack'[u])
         /\ \A u \in Threads \ {t} : stack'[u] = stack[u]
         /\ Len(stack'[t]) = Len(stack[t])
         /\ stack'[t][1] = Frame(label, Top(t).kind)
         /\ \A i \in 2 .. Len(stack[t]) : stack'[t][i] = stack[t][i]
<1> DEFINE f == Frame(label, Top(t).kind)
<1>1. Top(t) = stack[t][1] /\ Top(t) \in Frames /\ Top(t).kind \in Kinds
  BY TopFacts
<1>2. f = [stack[t][1] EXCEPT !.at = label]
  BY <1>1 DEF Frame, Frames
<1>3. f \in Frames /\ f.at = label /\ f.kind = Top(t).kind
  BY <1>1 DEF Frame, Frames
<1>4. stack' = [stack EXCEPT ![t][1] = f]
  BY <1>2 DEF Jump
<1> HIDE DEF f
<1>. QED
  BY <1>3, <1>4, ReplaceFacts DEF f

\* A handler interrupts t.
LEMMA PushFacts ==
  ASSUME Shape, NEW t \in Threads, NEW label \in Labels \ Basic,
         NEW kind \in Kinds, Push(t, label, kind)
  PROVE  /\ stack' \in [Threads -> Seq(Frames)]
         /\ \A u \in Threads : StackOK(stack'[u])
         /\ \A u \in Threads \ {t} : stack'[u] = stack[u]
         /\ Len(stack'[t]) = Len(stack[t]) + 1
         /\ stack'[t][1] = Frame(label, kind)
         /\ \A i \in 1 .. Len(stack[t]) : stack'[t][i + 1] = stack[t][i]
<1> DEFINE s == stack[t]
           f == Frame(label, kind)
           r == <<f>> \o s
<1>1. s \in Seq(Frames) /\ Len(s) >= 1 /\ StackOK(s) /\ Len(s) \in Nat
  BY DEF Shape, StackOK
<1>2. f \in Frames /\ <<f>> \in Seq(Frames) /\ Len(<<f>>) = 1 /\ f.at = label
  BY DEF Frame, Frames
<1> HIDE DEF f
<1>3. /\ r \in Seq(Frames) /\ Len(r) = Len(s) + 1
      /\ r[1] = f
      /\ \A i \in 1 .. Len(s) : r[i + 1] = s[i]
  BY <1>1, <1>2, ConcatProperties
<1>4. stack' = [stack EXCEPT ![t] = r]
  BY DEF Push, f
<1> HIDE DEF r
<1>5. ASSUME NEW i \in 1 .. Len(r) PROVE r[i].at \in Basic <=> i = Len(r)
  <2>1. CASE i = 1
    BY <1>1, <1>2, <1>3, <2>1
  <2>2. CASE i # 1
    <3>1. i - 1 \in 1 .. Len(s) /\ r[i] = s[i - 1]
      BY <1>1, <1>3, <2>2
    <3>. QED
      BY <1>1, <1>3, <3>1 DEF StackOK
  <2>. QED
    BY <2>1, <2>2
<1>6. r[Len(r)].kind = "none"
  BY <1>1, <1>3 DEF StackOK
<1>7. StackOK(r)
  BY <1>1, <1>3, <1>5, <1>6 DEF StackOK
<1>. QED
  BY <1>1, <1>3, <1>4, <1>7 DEF Shape, f

\* A handler of t returns.
LEMMA PopFacts ==
  ASSUME Shape, NEW t \in Threads, Pop(t), Top(t).kind # "none"
  PROVE  /\ stack' \in [Threads -> Seq(Frames)]
         /\ \A u \in Threads : StackOK(stack'[u])
         /\ \A u \in Threads \ {t} : stack'[u] = stack[u]
         /\ Len(stack'[t]) = Len(stack[t]) - 1
         /\ \A i \in 1 .. Len(stack'[t]) : stack'[t][i] = stack[t][i + 1]
<1> DEFINE s == stack[t]
           r == Tail(s)
<1>1. s \in Seq(Frames) /\ Len(s) >= 1 /\ StackOK(s) /\ Len(s) \in Nat
  BY DEF Shape, StackOK
<1>2. Len(s) # 1
  BY <1>1 DEF StackOK, Top
<1>0. Len(s) \in Nat /\ Len(s) >= 2
  <2>1. Len(s) \in Nat /\ Len(s) >= 1
    BY <1>1
  <2>. QED
    BY <1>2, <2>1, AboveOne
<1>3. /\ r \in Seq(Frames) /\ Len(r) = Len(s) - 1
      /\ \A i \in 1 .. Len(r) : r[i] = s[i + 1]
  BY <1>1, <1>2
<1>4. stack' = [stack EXCEPT ![t] = r]
  BY DEF Pop
<1> HIDE DEF r
<1>5. \A i \in 1 .. Len(r) : r[i].at \in Basic <=> i = Len(r)
  BY <1>1, <1>2, <1>3 DEF StackOK
<1>6. r[Len(r)].kind = "none"
  <2>1. Len(r) \in 1 .. Len(r) /\ Len(r) + 1 = Len(s)
    BY ONLY <1>0, <1>3
  <2>2. r[Len(r)] = s[Len(s)]
    BY <1>3, <2>1
  <2>. QED
    BY <1>1, <2>2 DEF StackOK
<1>7. Len(r) >= 1
  BY ONLY <1>0, <1>3
<1>8. StackOK(r)
  BY <1>3, <1>5, <1>6, <1>7 DEF StackOK
<1>. QED
  BY <1>1, <1>3, <1>4, <1>8 DEF Shape

LEMMA ShapeInit == Init => Shape
<1> SUFFICES ASSUME Init PROVE Shape
  OBVIOUS
<1> DEFINE f == Frame("run", "none")
<1>1. f \in Frames /\ f.at \in Basic /\ f.kind = "none"
  BY DEF Frame, Frames, Labels, Kinds, Basic
<1>2. stack = [t \in Threads |-> <<f>>]
  BY DEF Init
<1> HIDE DEF f
<1>3. /\ <<f>> \in Seq(Frames) /\ Len(<<f>>) = 1
      /\ <<f>>[1] = f
  BY <1>1
<1>4. StackOK(<<f>>)
  BY <1>1, <1>3 DEF StackOK
<1>. QED
  BY <1>2, <1>3, <1>4 DEF Init, Shape

LEMMA ShapeStep == Shape /\ [Next]_vars => Shape'
<1> SUFFICES ASSUME Shape, [Next]_vars PROVE Shape'
  OBVIOUS
<1> DEFINE Fits == /\ stack' \in [Threads -> Seq(Frames)]
                   /\ \A u \in Threads : StackOK(stack'[u])
           Others == /\ disp' \in [Signals -> {"default", "term", "trace"}]
                     /\ forceExit' \in {0, 2}
                     /\ reports' \in Nat
                     /\ failures' \in Nat
<1>0. ASSUME Fits, Others PROVE Shape'
  BY <1>0 DEF Shape
<1> HIDE DEF Fits, Others
<1> USE DEF handlers, signals, ending, tracing, Shape
<1>1. ASSUME NEW t \in Threads, NEW label \in Labels, Jump(t, label),
             label \in Basic <=> Top(t).at \in Basic
      PROVE  Fits
  BY ONLY Shape, <1>1, JumpFacts DEF Fits
<1>2. ASSUME NEW t \in Threads, NEW label \in Labels \ Basic, NEW kind \in Kinds,
             Push(t, label, kind)
      PROVE  Fits
  BY ONLY Shape, <1>2, PushFacts DEF Fits
<1>3. ASSUME NEW t \in Threads, Pop(t), Top(t).kind # "none"
      PROVE  Fits
  BY ONLY Shape, <1>3, PopFacts DEF Fits
<1>4. ASSUME UNCHANGED stack PROVE Fits
  BY <1>4 DEF Fits
<1>5. CASE UNCHANGED vars
  BY <1>0, <1>4, <1>5 DEF vars, Others
<1>6. ASSUME NEW t \in Threads PROVE
        /\ SetErrorHandlers(t) => Fits /\ Others
        /\ SetTerminate(t) => Fits /\ Others
        /\ SetSignals(t) => Fits /\ Others
        /\ WorkBegin(t) => Fits /\ Others
        /\ WorkEnd(t) => Fits /\ Others
  <2>1. SetErrorHandlers(t) => Fits /\ Others
    BY <1>1 DEF SetErrorHandlers, At, Labels, Basic, Others
  <2>2. SetTerminate(t) => Fits /\ Others
    BY <1>1 DEF SetTerminate, At, Labels, Basic, Others
  <2>3. SetSignals(t) => Fits /\ Others
    BY <1>1 DEF SetSignals, At, Labels, Basic, Others
  <2>4. WorkBegin(t) => Fits /\ Others
    BY <1>1 DEF WorkBegin, Interrupt, Signals, At, Labels, Basic, Others
  <2>5. WorkEnd(t) => Fits /\ Others
    BY <1>1 DEF WorkEnd, At, Labels, Basic, Others
  <2>. QED
    BY <2>1, <2>2, <2>3, <2>4, <2>5
<1>7. ASSUME NEW t \in Threads PROVE
        /\ ClearErrorHandlers(t) => Fits /\ Others
        /\ ClearErrorHandler(t) => Fits /\ Others
        /\ \A list : ClearSignalList(t, list) => Fits /\ Others
        /\ Deliver(t) => Fits /\ Others
  <2>1. ClearErrorHandlers(t) => Fits /\ Others
    BY <1>4 DEF ClearErrorHandlers, Others
  <2>2. ClearErrorHandler(t) => Fits /\ Others
    BY <1>2 DEF ClearErrorHandler, Labels, Basic, Kinds, Others
  <2>3. \A list : ClearSignalList(t, list) => Fits /\ Others
    BY <1>4 DEF ClearSignalList, Others
  <2>4. Deliver(t) => Fits /\ Others
    BY <1>2, <1>4 DEF Deliver, Labels, Basic, Kinds, Signals, Others
  <2>. QED
    BY <2>1, <2>2, <2>3, <2>4
<1>8. ASSUME NEW t \in Threads PROVE
        /\ \A k \in {"exception", "abort"} : Throw(t, k) => Fits /\ Others
        /\ MPIError(t) => Fits /\ Others
        /\ \A k \in {"signal", "fault"} : Signal(t, k) => Fits /\ Others
        /\ Rethrow(t) => Fits /\ Others
        /\ CallAbortFun(t) => Fits /\ Others
  <2>1. \A k \in {"exception", "abort"} : Throw(t, k) => Fits /\ Others
    BY <1>2, <1>4 DEF Throw, Labels, Basic, Kinds, Others
  <2>2. MPIError(t) => Fits /\ Others
    BY <1>4, <2>1 DEF MPIError, Others
  <2>3. \A k \in {"signal", "fault"} : Signal(t, k) => Fits /\ Others
    BY <1>2, <1>4 DEF Signal, Labels, Basic, Kinds, Others
  <2>4. Rethrow(t) => Fits /\ Others
    <3>1. SUFFICES ASSUME Rethrow(t) PROVE Fits /\ Others
      OBVIOUS
    <3> DEFINE f == Frame("clear_signals",
                          IF triedThrow THEN "exception" ELSE Top(t).kind)
    <3>2. f \in Frames /\ f.at \notin Basic /\ Top(t).at \notin Basic
      BY <3>1, TopFacts DEF Rethrow, At, Frame, Frames, Labels, Basic, Kinds
    <3>3. stack' = [stack EXCEPT ![t][1] = f]
      BY <3>1, TopFacts DEF Rethrow
    <3> HIDE DEF f
    <3>4. Fits
      BY <3>2, <3>3, ReplaceFacts DEF Fits
    <3>. QED
      BY <3>1, <3>4 DEF Rethrow, Others
  <2>5. CallAbortFun(t) => Fits /\ Others
    BY <1>1, <1>3, <1>4 DEF CallAbortFun, At, Labels, Basic, Others
  <2>. QED
    BY <2>1, <2>2, <2>3, <2>4, <2>5
<1>9. ASSUME NEW t \in Threads PROVE
        /\ ClearSignals(t) => Fits /\ Others
        /\ Lock(t) => Fits /\ Others
        /\ ClearFun(t) => Fits /\ Others
        /\ ClearTerm(t) => Fits /\ Others
        /\ ClearSigs(t) => Fits /\ Others
  <2>1. ClearSignals(t) => Fits /\ Others
    BY <1>1 DEF ClearSignals, ClearCaught, At, Labels, Basic, Others
  <2>2. Lock(t) => Fits /\ Others
    BY <1>1 DEF Lock, At, Labels, Basic, Others
  <2>3. ClearFun(t) => Fits /\ Others
    BY <1>1 DEF ClearFun, At, Labels, Basic, Others
  <2>4. ClearTerm(t) => Fits /\ Others
    BY <1>1 DEF ClearTerm, At, Labels, Basic, Others
  <2>5. ClearSigs(t) => Fits /\ Others
    BY <1>1, <1>3 DEF ClearSigs, ClearCaught, At, Labels, Basic, Others
  <2>. QED
    BY <2>1, <2>2, <2>3, <2>4, <2>5
<1>10. ASSUME NEW t \in Threads PROVE
        /\ Decide(t) => Fits /\ Others
        /\ What(t) => Fits /\ Others
        /\ Walk(t) => Fits /\ Others
        /\ PrintError(t) => Fits /\ Others
        /\ Unlock(t) => Fits /\ Others
        /\ Abort(t) => Fits /\ Others
  <2>1. Decide(t) => Fits /\ Others
    BY <1>1 DEF Decide, At, Labels, Basic, Others
  <2>2. What(t) => Fits /\ Others
    BY <1>1 DEF What, Interrupt, Signals, At, Labels, Basic, Others
  <2>3. Walk(t) => Fits /\ Others
    BY <1>1 DEF Walk, At, Labels, Basic, Others
  <2>4. PrintError(t) => Fits /\ Others
    BY <1>1, <1>4 DEF PrintError, At, Labels, Basic, Others
  <2>5. Unlock(t) => Fits /\ Others
    BY <1>1 DEF Unlock, At, Labels, Basic, Others
  <2>6. Abort(t) => Fits /\ Others
    BY <1>4 DEF Abort, Others
  <2>. QED
    BY <2>1, <2>2, <2>3, <2>4, <2>5, <2>6
<1>11. CASE Next
  BY <1>0, <1>5, <1>6, <1>7, <1>8, <1>9, <1>10, <1>11, TerminationAssumption
     DEF Next, Step, Dead
<1>. QED
  BY <1>5, <1>11

-----------------------------------------------------------------------------
(* One report *)

\* From the decision to print an error to the line that prints it.
Reporting == {"what", "walk", "print"}

\* force_exit is set before anything is printed: one activity of all threads gets
\* past the decision, and there is none once it has printed.
OneOnItsWay ==
  /\ \A t, u \in Threads :
       \A i \in 1 .. Len(stack[t]), j \in 1 .. Len(stack[u]) :
         stack[t][i].at \in Reporting /\ stack[u][j].at \in Reporting
           => t = u /\ i = j
  /\ forceExit = 0 \/ (reports = 1 /\ proc = "up") =>
       \A t \in Threads : \A i \in 1 .. Len(stack[t]) : stack[t][i].at \notin Reporting
  /\ forceExit = 0 => reports = 0
  /\ reports <= 1

\* A step that leaves force_exit and the reports alone keeps the invariant if no
\* activity begins to report.
LEMMA QuietTop ==
  ASSUME Shape, OneOnItsWay, NEW t \in Threads, NEW f \in Frames,
         \A u \in Threads \ {t} : stack'[u] = stack[u],
         Len(stack'[t]) = Len(stack[t]),
         stack'[t][1] = f,
         \A i \in 2 .. Len(stack[t]) : stack'[t][i] = stack[t][i],
         f.at \in Reporting => Top(t).at \in Reporting,
         UNCHANGED <<forceExit, reports>>, proc = "up"
  PROVE  OneOnItsWay'
<1>1. /\ \A u \in Threads : Len(stack'[u]) = Len(stack[u]) /\ Len(stack[u]) \in Nat
      /\ \A u \in Threads : \A i \in 1 .. Len(stack[u]) :
           stack'[u][i].at \in Reporting => stack[u][i].at \in Reporting
  <2>1. \A u \in Threads : Len(stack'[u]) = Len(stack[u]) /\ Len(stack[u]) \in Nat
    BY TopFacts
  <2>2. \A u \in Threads : \A i \in 1 .. Len(stack[u]) :
           stack'[u][i].at \in Reporting => stack[u][i].at \in Reporting
    <3>1. stack'[t][1].at \in Reporting => stack[t][1].at \in Reporting
      BY TopFacts
    <3>2. \A i \in 1 .. Len(stack[t]) : i = 1 \/ i \in 2 .. Len(stack[t])
      BY TopFacts
    <3>. QED
      BY <3>1, <3>2
  <2>. QED
    BY <2>1, <2>2
<1>2. ASSUME NEW t1 \in Threads, NEW t2 \in Threads,
             NEW i \in 1 .. Len(stack'[t1]), NEW j \in 1 .. Len(stack'[t2]),
             stack'[t1][i].at \in Reporting, stack'[t2][j].at \in Reporting
      PROVE  t1 = t2 /\ i = j
  BY <1>1, <1>2 DEF OneOnItsWay
<1>3. ASSUME forceExit' = 0 \/ (reports' = 1 /\ proc' = "up"), NEW u \in Threads,
             NEW i \in 1 .. Len(stack'[u])
      PROVE  stack'[u][i].at \notin Reporting
  BY <1>1, <1>3 DEF OneOnItsWay
<1>. QED
  BY <1>2, <1>3 DEF OneOnItsWay

LEMMA QuietJump ==
  ASSUME Shape, OneOnItsWay, NEW t \in Threads, NEW label \in Labels,
         Jump(t, label), label \in Basic <=> Top(t).at \in Basic,
         label \in Reporting => Top(t).at \in Reporting,
         UNCHANGED <<forceExit, reports>>, proc = "up"
  PROVE  OneOnItsWay'
<1> DEFINE f == Frame(label, Top(t).kind)
<1>1. f \in Frames /\ f.at = label
  BY TopFacts DEF Frame, Frames
<1>2. /\ \A u \in Threads \ {t} : stack'[u] = stack[u]
      /\ Len(stack'[t]) = Len(stack[t])
      /\ stack'[t][1] = f
      /\ \A i \in 2 .. Len(stack[t]) : stack'[t][i] = stack[t][i]
  BY JumpFacts
<1> HIDE DEF f
<1>. QED
  BY <1>1, <1>2, QuietTop

LEMMA QuietPush ==
  ASSUME Shape, OneOnItsWay, NEW t \in Threads, NEW label \in Labels \ Basic,
         NEW kind \in Kinds, Push(t, label, kind), label \notin Reporting,
         UNCHANGED <<forceExit, reports>>, proc = "up"
  PROVE  OneOnItsWay'
<1> DEFINE Old(u, i) == IF u = t THEN i - 1 ELSE i
<1>1. ASSUME NEW u \in Threads, NEW i \in 1 .. Len(stack'[u]),
             stack'[u][i].at \in Reporting
      PROVE  Old(u, i) \in 1 .. Len(stack[u]) /\ stack[u][Old(u, i)].at \in Reporting
  <2>1. CASE u # t
    BY <1>1, <2>1, PushFacts, TopFacts
  <2>2. ~(u = t /\ i = 1)
    <3>1. Frame(label, kind).at \notin Reporting
      BY DEF Frame
    <3>2. stack'[t][1] = Frame(label, kind)
      BY PushFacts
    <3>. QED
      BY <1>1, <3>1, <3>2
  <2>3. CASE u = t /\ i # 1
    <3>1. Len(stack'[t]) = Len(stack[t]) + 1 /\ Len(stack[t]) \in Nat
      BY PushFacts, TopFacts
    <3>2. i - 1 \in 1 .. Len(stack[t])
      BY <2>3, <3>1
    <3>3. stack'[t][(i - 1) + 1] = stack[t][i - 1]
      BY <3>2, PushFacts
    <3>. QED
      BY <1>1, <2>3, <3>2, <3>3
  <2>. QED
    BY <2>1, <2>2, <2>3
<1>3. ASSUME NEW t1 \in Threads, NEW t2 \in Threads,
             NEW i \in 1 .. Len(stack'[t1]), NEW j \in 1 .. Len(stack'[t2]),
             stack'[t1][i].at \in Reporting, stack'[t2][j].at \in Reporting
      PROVE  t1 = t2 /\ i = j
  <2>1. Old(t1, i) \in 1 .. Len(stack[t1]) /\ stack[t1][Old(t1, i)].at \in Reporting
    BY <1>1, <1>3
  <2>2. Old(t2, j) \in 1 .. Len(stack[t2]) /\ stack[t2][Old(t2, j)].at \in Reporting
    BY <1>1, <1>3
  <2> HIDE DEF Old
  <2>3. t1 = t2 /\ Old(t1, i) = Old(t2, j)
    BY <2>1, <2>2 DEF OneOnItsWay
  <2>. QED
    BY <2>3 DEF Old
<1>4. ASSUME forceExit' = 0 \/ (reports' = 1 /\ proc' = "up"), NEW u \in Threads,
             NEW i \in 1 .. Len(stack'[u])
      PROVE  stack'[u][i].at \notin Reporting
  BY <1>1, <1>4 DEF OneOnItsWay
<1>. QED
  BY <1>3, <1>4 DEF OneOnItsWay

LEMMA QuietPop ==
  ASSUME Shape, OneOnItsWay, NEW t \in Threads, Pop(t), Top(t).kind # "none",
         UNCHANGED <<forceExit, reports>>, proc = "up"
  PROVE  OneOnItsWay'
<1> DEFINE Old(u, i) == IF u = t THEN i + 1 ELSE i
<1>1. ASSUME NEW u \in Threads, NEW i \in 1 .. Len(stack'[u]),
             stack'[u][i].at \in Reporting
      PROVE  Old(u, i) \in 1 .. Len(stack[u]) /\ stack[u][Old(u, i)].at \in Reporting
  <2>1. CASE u # t
    BY <1>1, <2>1, PopFacts, TopFacts
  <2>2. CASE u = t
    <3>1. Len(stack'[t]) = Len(stack[t]) - 1 /\ Len(stack[t]) \in Nat
      BY PopFacts, TopFacts
    <3>2. i + 1 \in 1 .. Len(stack[t])
      BY <2>2, <3>1
    <3>3. stack'[t][i] = stack[t][i + 1]
      BY <2>2, PopFacts
    <3>. QED
      BY <1>1, <2>2, <3>2, <3>3
  <2>. QED
    BY <2>1, <2>2
<1>3. ASSUME NEW t1 \in Threads, NEW t2 \in Threads,
             NEW i \in 1 .. Len(stack'[t1]), NEW j \in 1 .. Len(stack'[t2]),
             stack'[t1][i].at \in Reporting, stack'[t2][j].at \in Reporting
      PROVE  t1 = t2 /\ i = j
  <2>1. Old(t1, i) \in 1 .. Len(stack[t1]) /\ stack[t1][Old(t1, i)].at \in Reporting
    BY <1>1, <1>3
  <2>2. Old(t2, j) \in 1 .. Len(stack[t2]) /\ stack[t2][Old(t2, j)].at \in Reporting
    BY <1>1, <1>3
  <2> HIDE DEF Old
  <2>3. t1 = t2 /\ Old(t1, i) = Old(t2, j)
    BY <2>1, <2>2 DEF OneOnItsWay
  <2>. QED
    BY <2>3 DEF Old
<1>4. ASSUME forceExit' = 0 \/ (reports' = 1 /\ proc' = "up"), NEW u \in Threads,
             NEW i \in 1 .. Len(stack'[u])
      PROVE  stack'[u][i].at \notin Reporting
  BY <1>1, <1>4 DEF OneOnItsWay
<1>. QED
  BY <1>3, <1>4 DEF OneOnItsWay

LEMMA QuietStutter ==
  ASSUME OneOnItsWay, UNCHANGED <<stack, forceExit, reports>>, proc = "up"
  PROVE  OneOnItsWay'
  BY DEF OneOnItsWay

LEMMA ReportStep ==
  ASSUME ~ThrowException, Shape, OneOnItsWay, [Next]_vars
  PROVE  OneOnItsWay'
<1> USE DEF handlers, signals, ending, tracing
<1>1. CASE UNCHANGED vars
  BY <1>1 DEF vars, OneOnItsWay
<1>2. ASSUME NEW t \in Threads,
             \/ SetErrorHandlers(t) \/ SetTerminate(t) \/ SetSignals(t)
             \/ WorkBegin(t) \/ WorkEnd(t) \/ ClearSignals(t) \/ Lock(t)
             \/ ClearFun(t) \/ ClearTerm(t) \/ What(t) \/ Walk(t) \/ Unlock(t)
      PROVE  OneOnItsWay'
  BY <1>2, QuietJump
     DEF SetErrorHandlers, SetTerminate, SetSignals, WorkBegin, WorkEnd, ClearSignals,
         Lock, ClearFun, ClearTerm, What, Walk, Unlock, At, Labels, Basic, Reporting
<1>3. ASSUME NEW t \in Threads,
             \/ ClearErrorHandlers(t) \/ (\E list : ClearSignalList(t, list))
             \/ Abort(t)
      PROVE  OneOnItsWay'
  BY <1>3, QuietStutter DEF ClearErrorHandlers, ClearSignalList, Abort, At
<1>4. ASSUME NEW t \in Threads, NEW k \in Kinds,
             \/ ClearErrorHandler(t) \/ Deliver(t) \/ Throw(t, k) \/ MPIError(t)
             \/ Signal(t, k)
      PROVE  OneOnItsWay'
  <2>1. CASE ClearErrorHandler(t)
    BY <2>1, QuietPush DEF ClearErrorHandler, At, Labels, Basic, Reporting, Kinds
  <2>2. CASE Deliver(t)
    BY <2>2, QuietPush, QuietStutter
       DEF Deliver, Shape, Signals, Labels, Basic, Reporting, Kinds
  <2>3. ASSUME NEW l \in Kinds, Throw(t, l) PROVE OneOnItsWay'
    BY <2>3, QuietPush, QuietStutter DEF Throw, At, Labels, Basic, Reporting
  <2>4. CASE MPIError(t)
    BY <2>3, <2>4, QuietStutter DEF MPIError, At, Kinds
  <2>5. CASE Signal(t, k)
    BY <2>5, QuietPush, QuietStutter DEF Signal, Labels, Basic, Reporting
  <2>. QED
    BY <1>4, <2>1, <2>2, <2>3, <2>4, <2>5
<1>5. ASSUME NEW t \in Threads, Rethrow(t)
      PROVE  OneOnItsWay'
  <2> DEFINE f == Frame("clear_signals",
                        IF triedThrow THEN "exception" ELSE Top(t).kind)
  <2>1. /\ f \in Frames /\ f.at \notin Basic /\ f.at \notin Reporting
        /\ Top(t).at \notin Basic
    BY <1>5, TopFacts
       DEF Rethrow, At, Frame, Frames, Labels, Basic, Kinds, Reporting
  <2>2. stack' = [stack EXCEPT ![t][1] = f]
    BY <1>5, TopFacts DEF Rethrow
  <2> HIDE DEF f
  <2>3. /\ \A u \in Threads \ {t} : stack'[u] = stack[u]
        /\ Len(stack'[t]) = Len(stack[t])
        /\ stack'[t][1] = f
        /\ \A i \in 2 .. Len(stack[t]) : stack'[t][i] = stack[t][i]
    BY <2>1, <2>2, ReplaceFacts
  <2>. QED
    BY <1>5, <2>1, <2>3, QuietTop DEF Rethrow, At
<1>6. ASSUME NEW t \in Threads, CallAbortFun(t) \/ ClearSigs(t)
      PROVE  OneOnItsWay'
  BY <1>6, QuietJump, QuietPop, QuietStutter
     DEF CallAbortFun, ClearSigs, At, Labels, Basic, Reporting
<1>7. ASSUME NEW t \in Threads, Decide(t)
      PROVE  OneOnItsWay'
  <2>1. CASE forceExit = 2
    BY <1>7, <2>1, QuietJump DEF Decide, At, Labels, Basic, Reporting
  <2>2. CASE forceExit = 0
    <3> DEFINE label == IF Top(t).kind = "exception" THEN "print" ELSE "what"
    <3>1. /\ forceExit' = 2 /\ UNCHANGED <<reports, proc>>
          /\ Jump(t, label)
      BY <1>7, <2>2 DEF Decide
    <3>2. label \in Labels /\ label \notin Basic /\ Top(t).at \notin Basic
      BY <1>7 DEF Decide, At, Labels, Basic
    <3> HIDE DEF label
    <3>3. /\ \A u \in Threads \ {t} : stack'[u] = stack[u]
          /\ Len(stack'[t]) = Len(stack[t])
          /\ \A i \in 2 .. Len(stack[t]) : stack'[t][i] = stack[t][i]
      BY <3>1, <3>2, JumpFacts
    <3>4. ASSUME NEW u \in Threads, NEW i \in 1 .. Len(stack'[u]),
                 stack'[u][i].at \in Reporting
          PROVE  u = t /\ i = 1
      <4>1. \A j \in 1 .. Len(stack[t]) : j = 1 \/ j \in 2 .. Len(stack[t])
        BY TopFacts
      <4>. QED
        BY <2>2, <3>3, <3>4, <4>1 DEF OneOnItsWay
    <3>5. reports' = 0
      BY <2>2, <3>1 DEF OneOnItsWay
    <3>. QED
      BY <3>1, <3>4, <3>5 DEF OneOnItsWay
  <2>. QED
    BY <2>1, <2>2 DEF Shape
<1>8. ASSUME NEW t \in Threads, PrintError(t)
      PROVE  OneOnItsWay'
  <2>1. Top(t).at \in Reporting /\ Top(t) = stack[t][1] /\ 1 \in 1 .. Len(stack[t])
        /\ proc = "up"
    BY <1>8, TopFacts DEF PrintError, At, Reporting
  <2>2. reports = 0 /\ forceExit # 0
    BY <2>1 DEF OneOnItsWay, Shape
  <2>3. reports' = 1 /\ forceExit' = forceExit
    BY <1>8, <2>2 DEF PrintError
  <2>4. CASE proc' = "dead" /\ UNCHANGED stack
    BY <2>2, <2>3, <2>4 DEF OneOnItsWay
  <2>5. CASE Jump(t, "unlock")
    <3>1. /\ \A u \in Threads \ {t} : stack'[u] = stack[u]
          /\ Len(stack'[t]) = Len(stack[t])
          /\ stack'[t][1] = Frame("unlock", Top(t).kind)
          /\ \A i \in 2 .. Len(stack[t]) : stack'[t][i] = stack[t][i]
      BY <1>8, <2>5, JumpFacts DEF PrintError, At, Labels, Basic
    <3>2. stack'[t][1].at \notin Reporting
      BY <3>1 DEF Frame, Reporting
    <3>3. ASSUME NEW u \in Threads, NEW i \in 1 .. Len(stack'[u])
          PROVE  stack'[u][i].at \notin Reporting
      <4>1. CASE u # t
        BY <2>1, <3>1, <4>1 DEF OneOnItsWay
      <4>2. CASE u = t /\ i # 1
        <5>1. i \in 2 .. Len(stack[t]) /\ i \in 1 .. Len(stack[t])
          BY <3>1, <4>2, TopFacts
        <5>. QED
          BY <2>1, <3>1, <4>2, <5>1 DEF OneOnItsWay
      <4>. QED
        BY <3>2, <4>1, <4>2
    <3>. QED
      BY <2>2, <2>3, <3>3 DEF OneOnItsWay
  <2>. QED
    BY <1>8, <2>4, <2>5 DEF PrintError
<1>9. CASE Next
  BY <1>1, <1>2, <1>3, <1>4, <1>5, <1>6, <1>7, <1>8, <1>9, TerminationAssumption
     DEF Next, Step, Dead, Kinds
<1>. QED
  BY <1>1, <1>9

\* However many threads fail, and however signals interrupt the failing ones at
\* any label, one error is printed, unless terminate is made to throw.
THEOREM OneReportHolds ==
  ASSUME ~ThrowException
  PROVE  Spec => []OneReport
<1>1. Init => OneOnItsWay
  <2> SUFFICES ASSUME Init PROVE OneOnItsWay
    OBVIOUS
  <2>1. \A t \in Threads : Len(stack[t]) = 1 /\ stack[t][1].at = "run"
    BY DEF Init, Frame
  <2>. QED
    BY <2>1 DEF Init, OneOnItsWay, Reporting
<1>2. Shape /\ OneOnItsWay /\ [Next]_vars => OneOnItsWay'
  BY ReportStep
<1>3. OneOnItsWay => OneReport
  BY DEF OneOnItsWay, OneReport
<1>. QED
  BY <1>1, <1>2, <1>3, ShapeInit, ShapeStep, PTL DEF Spec

-----------------------------------------------------------------------------
(* The first failure *)

\* The program has not cleared its handlers, and setErrorHandler has not taken the
\* signal of a pending backtrace over.
Undisturbed == installed # "cleared" /\ ~raced

\* Nothing has failed: every thread is at its own activity, a handler that is
\* installed finds the rest of its chain installed, and a thread that is asked
\* for its stack has the handler that answers.
Intact ==
  /\ proc = "up" /\ reports = 0 /\ forceExit = 0
  /\ \A t \in Threads : Len(stack[t]) = 1
  /\ asked # {} => disp["trace"] = "trace"
  /\ \A t \in Threads :
       Top(t).at \in {"set_term", "set_sigs"} => abortFun = "terminate" /\ mpi # "fatal"
  /\ \A t \in Threads : Top(t).at = "set_sigs" => termHandler = "term_func"
  /\ termHandler = "term_func" \/ disp["fail"] = "term" => abortFun = "terminate"
  /\ installed = "yes" => /\ termHandler = "term_func"
                          /\ disp["fail"] = "term"
                          /\ mpi # "fatal"

\* What the one handler that runs has still to do, and finds installed.
Handled(f) ==
  /\ f.at \in {"rethrow", "clear_signals", "abort_fun", "lock", "clear_fun"} =>
       abortFun = "terminate" /\ forceExit = 0
  /\ f.at \in {"clear_term", "clear_sigs", "decide"} => forceExit = 0
  /\ f.at \in {"unlock", "abort"} => reports > 0
  /\ f.kind # "user"

\* One failure: one thread runs one handler, whose chain is there, or the process
\* is over, with a report if the handlers were installed.
Struck ==
  /\ \A t \in Threads : Len(stack[t]) <= 2
  /\ \A t, u \in Threads : Len(stack[t]) = 2 /\ Len(stack[u]) = 2 => t = u
  /\ \A t \in Threads : Len(stack[t]) = 2 => Handled(Top(t))
  /\ asked # {} => disp["trace"] # "term"
  /\ proc = "dead" => reports > 0 \/ installed # "yes"

FirstFailure ==
  Undisturbed => /\ failures = 0 => Intact
                 /\ failures = 1 => Struck

\* A step before the first failure.
LEMMA IntactStep ==
  ASSUME Shape, Intact, Next, Undisturbed', failures = 0, failures' = 0
  PROVE  Intact'
<1> USE DEF handlers, signals, ending, tracing
<1>1. \A t \in Threads : Top(t).at \in Basic /\ Len(stack[t]) = 1
  BY TopFacts DEF Intact
<1>2. PICK t \in Threads :
        \/ SetErrorHandlers(t) \/ SetTerminate(t) \/ SetSignals(t)
        \/ WorkBegin(t) \/ WorkEnd(t) \/ Deliver(t)
        \/ UNCHANGED vars
  <2>1. \A t \in Threads :
          ~ (\/ Rethrow(t) \/ ClearSignals(t) \/ CallAbortFun(t) \/ Lock(t)
             \/ ClearFun(t) \/ ClearTerm(t) \/ ClearSigs(t) \/ Decide(t) \/ What(t)
             \/ Walk(t) \/ PrintError(t) \/ Unlock(t) \/ Abort(t))
    BY <1>1 DEF Rethrow, ClearSignals, CallAbortFun, Lock, ClearFun, ClearTerm,
                ClearSigs, Decide, What, Walk, PrintError, Unlock, Abort, At, Basic
  <2>2. \A t \in Threads : \A k : ~Throw(t, k) /\ ~MPIError(t) /\ ~Signal(t, k)
    BY DEF Throw, MPIError, Signal
  <2>3. \A t \in Threads : \A list :
          ~ClearErrorHandlers(t) /\ ~ClearErrorHandler(t) /\ ~ClearSignalList(t, list)
    BY DEF ClearErrorHandlers, ClearErrorHandler, ClearSignalList, Undisturbed
  <2>. QED
    BY <2>1, <2>2, <2>3, TerminationAssumption DEF Next, Step, Dead
<1>3. ASSUME NEW label \in Basic, Jump(t, label)
      PROVE  /\ \A u \in Threads : Len(stack'[u]) = 1
             /\ \A u \in Threads : Top(u)'.at = IF u = t THEN label ELSE Top(u).at
  <2>1. /\ stack' \in [Threads -> Seq(Frames)]
        /\ \A u \in Threads \ {t} : stack'[u] = stack[u]
        /\ Len(stack'[t]) = Len(stack[t])
        /\ stack'[t][1] = Frame(label, Top(t).kind)
    BY <1>1, <1>3, JumpFacts DEF Labels, Basic
  <2>2. \A u \in Threads : Len(stack'[u]) = 1
    BY <1>1, <2>1
  <2>3. Top(t)'.at = label
    BY <2>1, <2>2 DEF Top, Frame
  <2>. QED
    BY <2>1, <2>2, <2>3 DEF Top
<1>4. CASE SetErrorHandlers(t)
  BY <1>3, <1>4 DEF SetErrorHandlers, HandleMPI, Intact, Basic, At
<1>5. CASE SetTerminate(t)
  BY <1>3, <1>5 DEF SetTerminate, Intact, Basic, At
<1>6. CASE SetSignals(t)
  BY <1>3, <1>6 DEF SetSignals, Intact, Basic, At, Undisturbed, Signals
<1>7. CASE WorkBegin(t)
  <2>1. disp'["fail"] = disp["fail"] /\ (asked' # {} => disp'["trace"] = "trace")
    BY <1>7 DEF WorkBegin, Interrupt, Intact, Shape, Signals
  <2>. QED
    BY <1>3, <1>7, <2>1 DEF WorkBegin, Intact, Basic, At
<1>8. CASE WorkEnd(t)
  BY <1>3, <1>8 DEF WorkEnd, Intact, Basic, At
<1>9. CASE Deliver(t)
  BY <1>9 DEF Deliver, Intact, Top
<1>10. CASE UNCHANGED vars
  BY <1>10 DEF vars, Intact, Top
<1>. QED
  BY <1>2, <1>4, <1>5, <1>6, <1>7, <1>8, <1>9, <1>10

\* The first failure itself.
LEMMA FailStep ==
  ASSUME Shape, Intact, Next, Undisturbed', failures = 0, failures' = 1
  PROVE  Struck'
<1> USE DEF handlers, signals, ending, tracing
<1>1. PICK t \in Threads, k \in {"exception", "abort", "signal", "fault"} :
        \/ Throw(t, k) \/ MPIError(t) \/ Signal(t, k)
  BY TerminationAssumption
     DEF Next, Step, Dead, SetErrorHandlers, SetTerminate, SetSignals, WorkBegin,
         WorkEnd, Deliver, ClearErrorHandlers, ClearErrorHandler, ClearSignalList,
         Rethrow, ClearSignals, CallAbortFun, Lock, ClearFun, ClearTerm, ClearSigs,
         Decide, What, Walk, PrintError, Unlock, Abort, vars
<1>2. ASSUME NEW label \in {"rethrow", "abort_fun"}, NEW kind \in Kinds \ {"user"},
             Push(t, label, kind), abortFun = "terminate",
             UNCHANGED <<proc, handlers, ending, tracing>>
      PROVE  Struck'
  <2>1. /\ stack' \in [Threads -> Seq(Frames)]
        /\ \A u \in Threads \ {t} : stack'[u] = stack[u]
        /\ Len(stack'[t]) = Len(stack[t]) + 1
        /\ stack'[t][1] = Frame(label, kind)
    BY <1>2, PushFacts DEF Labels, Basic
  <2>2. \A u \in Threads : Len(stack'[u]) = IF u = t THEN 2 ELSE 1
    <3>1. Len(stack[t]) = 1 /\ \A u \in Threads : Len(stack[u]) = 1
      BY DEF Intact
    <3>2. Len(stack'[t]) = 2
      BY <2>1, <3>1
    <3>. QED
      BY <2>1, <3>1, <3>2
  <2>3. Top(t)'.at = label /\ Top(t)'.kind = kind
    BY <2>1, <2>2 DEF Top, Frame
  <2>. QED
    BY <1>2, <2>2, <2>3 DEF Intact, Struck, Handled
<1>3. ASSUME proc' = "dead", UNCHANGED <<stack, handlers, ending, tracing>>,
             installed # "yes"
      PROVE  Struck'
  <2>1. \A u \in Threads : Len(stack'[u]) \in Nat /\ Len(stack'[u]) = 1
    BY <1>3, TopFacts DEF Intact
  <2>2. \A u \in Threads : Len(stack'[u]) <= 2 /\ Len(stack'[u]) # 2
    BY <2>1, OneBelowTwo
  <2>3. (asked # {} => disp["trace"] # "term")'
    BY <1>3 DEF Intact
  <2>. QED
    BY <1>3, <2>2, <2>3 DEF Struck
<1>4. ASSUME NEW l \in {"exception", "abort", "signal", "fault"}, Throw(t, l)
      PROVE  Struck'
  BY <1>2, <1>3, <1>4 DEF Throw, Intact, Kinds
<1>5. CASE MPIError(t)
  BY <1>3, <1>4, <1>5 DEF MPIError, Intact
<1>6. CASE Signal(t, k)
  BY <1>2, <1>3, <1>6 DEF Signal, Intact, Kinds
<1>. QED
  BY <1>1, <1>4, <1>5, <1>6

\* A step after the first failure, other than a second one.
LEMMA StruckStep ==
  ASSUME Shape, Struck, Next, Undisturbed', failures = 1, failures' = 1
  PROVE  Struck'
<1> USE DEF handlers, signals, ending, tracing
<1>1. \A u \in Threads : \A k :
        ~Throw(u, k) /\ ~MPIError(u) /\ ~Signal(u, k)
  BY DEF Throw, MPIError, Signal
<1>2. \A u \in Threads : \A list :
        ~ClearErrorHandlers(u) /\ ~ClearErrorHandler(u) /\ ~ClearSignalList(u, list)
  BY DEF ClearErrorHandlers, ClearErrorHandler, ClearSignalList, Undisturbed
<1>0. ASSUME NEW u \in Threads
      PROVE  /\ Top(u).at \notin Basic <=> Len(stack[u]) = 2
             /\ Len(stack[u]) = 2 => Handled(Top(u))
  BY TopFacts, OneBelowTwo DEF Struck
\* A step that moves t on, and keeps what the handlers that run rely on.
<1>3. ASSUME NEW t \in Threads, NEW f \in Frames, proc = "up",
             \A u \in Threads \ {t} : stack'[u] = stack[u],
             Len(stack'[t]) = Len(stack[t]),
             stack'[t][1] = f,
             f.at \in Basic <=> Top(t).at \in Basic,
             f.at \notin Basic => Handled(f)',
             Top(t).at \in Basic =>
               (abortFun' = "terminate" \/ abortFun' = abortFun) /\ forceExit' = forceExit,
             reports' >= reports, reports' \in Nat,
             asked' # {} => disp'["trace"] # "term",
             proc' = "dead" => reports' > 0
      PROVE  Struck'
  <2>1. \A u \in Threads : Len(stack'[u]) = Len(stack[u])
    BY <1>3
  <2>2. Top(t)' = f
    BY <1>3, TopFacts DEF Top
  <2>3. \A u \in Threads \ {t} : Top(u)' = Top(u)
    BY <1>3 DEF Top
  <2>4. ASSUME NEW u \in Threads, Len(stack'[u]) = 2 PROVE Handled(Top(u))'
    <3>0. Len(stack[u]) = 2 /\ Top(u).at \notin Basic
      BY <1>0, <2>1, <2>4
    <3>1. CASE u = t
      <4>1. Handled(f)'
        BY <1>3, <3>0, <3>1
      <4>. QED
        BY <2>2, <3>1, <4>1 DEF Handled
    <3>2. CASE u # t
      <4>1. Top(t).at \in Basic
        BY <1>0, <3>0, <3>2 DEF Struck
      <4>2. /\ abortFun' = "terminate" \/ abortFun' = abortFun
            /\ forceExit' = forceExit
            /\ reports' >= reports /\ reports' \in Nat /\ reports \in Nat
        BY <1>3, <4>1 DEF Shape
      <4>3. Handled(Top(u)) /\ Top(u)' = Top(u)
        BY <1>0, <2>3, <3>0, <3>2
      <4>. QED
        BY <4>2, <4>3 DEF Handled
    <3>. QED
      BY <3>1, <3>2
  <2>. QED
    BY <1>3, <2>1, <2>4 DEF Struck
<1>4. ASSUME NEW t \in Threads, NEW label \in Labels, Jump(t, label), proc = "up",
             label \in Basic <=> Top(t).at \in Basic,
             \A kind \in Kinds :
               kind = Top(t).kind /\ label \notin Basic => Handled(Frame(label, kind))',
             Top(t).at \in Basic =>
               (abortFun' = "terminate" \/ abortFun' = abortFun) /\ forceExit' = forceExit,
             reports' >= reports, reports' \in Nat,
             asked' # {} => disp'["trace"] # "term",
             proc' = "dead" => reports' > 0
      PROVE  Struck'
  <2>1. PICK kind \in Kinds : kind = Top(t).kind
    BY TopFacts
  <2>2. PICK f \in Frames : f = Frame(label, kind)
    BY DEF Frame, Frames
  <2>3. f.at = label
    BY <2>2 DEF Frame
  <2>4. /\ \A u \in Threads \ {t} : stack'[u] = stack[u]
        /\ Len(stack'[t]) = Len(stack[t])
        /\ stack'[t][1] = f
    BY <1>4, <2>1, <2>2, JumpFacts
  <2>5. f.at \notin Basic => Handled(f)'
    BY <1>4, <2>1, <2>2, <2>3
  <2>. QED
    BY <1>3, <1>4, <2>3, <2>4, <2>5
<1>5. ASSUME UNCHANGED <<stack, abortFun, forceExit, disp>>,
             reports' >= reports, reports' \in Nat, asked' \subseteq asked,
             proc' = "dead" => reports' > 0 \/ (proc = "dead" /\ UNCHANGED installed)
      PROVE  Struck'
  <2>1. \A t \in Threads : Top(t)' = Top(t)
    BY <1>5 DEF Top
  <2>2. ASSUME NEW t \in Threads, Len(stack'[t]) = 2 PROVE Handled(Top(t))'
    BY <1>0, <1>5, <2>1, <2>2 DEF Handled, Shape
  <2>3. proc' = "dead" => reports' > 0 \/ installed' # "yes"
    BY <1>5 DEF Struck, Shape
  <2>. QED
    BY <1>5, <2>2, <2>3 DEF Struck
<1> USE DEF At, Labels, Basic
<1>6. ASSUME NEW t \in Threads,
             \/ SetErrorHandlers(t) \/ SetTerminate(t) \/ SetSignals(t)
             \/ WorkBegin(t) \/ WorkEnd(t) \/ Deliver(t)
      PROVE  Struck'
  <2> USE DEF Shape, Struck
  <2>1. CASE SetErrorHandlers(t)
    BY <1>4, <2>1 DEF SetErrorHandlers
  <2>2. CASE SetTerminate(t)
    BY <1>4, <2>2 DEF SetTerminate
  <2>3. CASE SetSignals(t)
    <3>1. asked' = {}
      BY <2>3 DEF SetSignals, Undisturbed
    <3>2. Jump(t, "run") /\ proc = "up" /\ Top(t).at \in Basic
          /\ UNCHANGED <<proc, abortFun, forceExit, reports>>
      BY <2>3 DEF SetSignals
    <3>. QED
      BY <1>4, <3>1, <3>2
  <2>4. CASE WorkBegin(t)
    BY <1>4, <2>4 DEF WorkBegin, Interrupt, Signals
  <2>5. CASE WorkEnd(t)
    BY <1>4, <2>5 DEF WorkEnd
  <2>6. CASE Deliver(t)
    <3>1. disp["trace"] \in {"default", "trace"} /\ asked' \subseteq asked /\ proc = "up"
      BY <2>6 DEF Deliver, Signals
    <3>2. UNCHANGED stack /\ proc' \in {"up", "traced"}
      BY <2>6, <3>1 DEF Deliver
    <3>3. UNCHANGED <<abortFun, forceExit, disp, reports>>
      BY <2>6 DEF Deliver
    <3>. QED
      BY <1>5, <3>1, <3>2, <3>3
  <2>. QED
    BY <1>6, <2>1, <2>2, <2>3, <2>4, <2>5, <2>6
<1>7. ASSUME NEW t \in Threads,
             \/ Rethrow(t) \/ ClearSignals(t) \/ CallAbortFun(t) \/ Lock(t)
             \/ ClearFun(t) \/ ClearTerm(t) \/ ClearSigs(t) \/ Decide(t) \/ What(t)
             \/ Walk(t) \/ PrintError(t) \/ Unlock(t) \/ Abort(t)
      PROVE  Struck'
  <2>0. proc = "up" /\ Top(t).at \notin Basic /\ Handled(Top(t))
    BY <1>0, <1>7 DEF Rethrow, ClearSignals, CallAbortFun, Lock, ClearFun, ClearTerm,
      ClearSigs, Decide, What, Walk, PrintError, Unlock, Abort
  <2> USE DEF Shape, Struck, Handled, Frame
  <2>1. CASE Rethrow(t)
    <3> DEFINE f == Frame("clear_signals",
                          IF triedThrow THEN "exception" ELSE Top(t).kind)
    <3>1. f \in Frames /\ f.at = "clear_signals" /\ f.kind # "user"
      BY <2>0, TopFacts DEF Frames, Kinds
    <3>2. stack' = [stack EXCEPT ![t][1] = f]
      BY <2>1, TopFacts DEF Rethrow
    <3> HIDE DEF f
    <3>3. /\ \A u \in Threads \ {t} : stack'[u] = stack[u]
          /\ Len(stack'[t]) = Len(stack[t])
          /\ stack'[t][1] = f
      BY <2>0, <3>1, <3>2, ReplaceFacts
    <3>4. abortFun' = "terminate" /\ forceExit' = 0 /\ reports' = reports
          /\ UNCHANGED <<proc, asked, disp>>
      BY <2>0, <2>1 DEF Rethrow
    <3>. QED
      BY <1>3, <2>0, <3>1, <3>3, <3>4
  <2>2. CASE ClearSignals(t)
    <3>1. asked' # {} => disp'["trace"] # "term"
      BY <2>2 DEF ClearSignals, ClearCaught, Signals
    <3>. QED
      BY <1>4, <2>0, <2>2, <3>1 DEF ClearSignals
  <2>3. CASE CallAbortFun(t)
    BY <1>4, <2>0, <2>3 DEF CallAbortFun
  <2>4. CASE Lock(t)
    BY <1>4, <2>0, <2>4 DEF Lock
  <2>5. CASE ClearFun(t)
    BY <1>4, <2>0, <2>5 DEF ClearFun
  <2>6. CASE ClearTerm(t)
    BY <1>4, <2>0, <2>6 DEF ClearTerm
  <2>7. CASE ClearSigs(t)
    <3>1. asked' # {} => disp'["trace"] # "term"
      BY <2>7 DEF ClearSigs, ClearCaught, Signals
    <3>. QED
      BY <1>4, <2>0, <2>7, <3>1 DEF ClearSigs
  <2>8. CASE Decide(t)
    BY <1>4, <2>0, <2>8 DEF Decide
  <2>9. CASE What(t)
    BY <1>4, <2>0, <2>9 DEF What, Interrupt, Signals
  <2>10. CASE Walk(t)
    BY <1>4, <2>0, <2>10 DEF Walk
  <2>11. CASE PrintError(t)
    <3>1. reports' = reports + 1 /\ UNCHANGED <<abortFun, forceExit, disp, asked>>
      BY <2>11 DEF PrintError
    <3>2. CASE UNCHANGED stack
      BY <1>5, <2>11, <3>1, <3>2 DEF PrintError
    <3>3. CASE Jump(t, "unlock") /\ UNCHANGED proc
      BY <1>4, <2>0, <3>1, <3>3
    <3>. QED
      BY <2>11, <3>2, <3>3 DEF PrintError
  <2>12. CASE Unlock(t)
    BY <1>4, <2>0, <2>12 DEF Unlock
  <2>13. CASE Abort(t)
    BY <1>5, <2>0, <2>13 DEF Abort
  <2>. QED
    BY <1>7, <2>1, <2>2, <2>3, <2>4, <2>5, <2>6, <2>7, <2>8, <2>9, <2>10, <2>11,
       <2>12, <2>13
<1>8. CASE UNCHANGED vars
  BY <1>5, <1>8 DEF vars, Shape
<1> HIDE DEF Labels, Basic, At
<1>. QED
  BY <1>1, <1>2, <1>6, <1>7, <1>8, TerminationAssumption DEF Next, Step, Dead

\* A step that gives no activity a label of R leaves no thread with one that had
\* none before.
LEMMA NoNewLabel ==
  ASSUME Shape, NEW t \in Threads, NEW R,
         \/ \E label \in Labels \ R :
              Jump(t, label) /\ (label \in Basic <=> Top(t).at \in Basic)
         \/ \E label \in Labels \ (Basic \union R), kind \in Kinds : Push(t, label, kind)
         \/ Pop(t) /\ Top(t).kind # "none"
         \/ Rethrow(t) /\ "clear_signals" \notin R
         \/ UNCHANGED stack,
         NEW u \in Threads, NEW i \in 1 .. Len(stack'[u]), stack'[u][i].at \in R
  PROVE  \E j \in 1 .. Len(stack[u]) : stack[u][j].at \in R
<1>0. /\ Len(stack[t]) \in Nat /\ Len(stack[t]) >= 1
      /\ \A j \in 1 .. Len(stack[t]) : j = 1 \/ j \in 2 .. Len(stack[t])
  BY TopFacts
<1>1. ASSUME NEW f \in Frames, f.at \notin R,
             \A v \in Threads \ {t} : stack'[v] = stack[v],
             Len(stack'[t]) = Len(stack[t]),
             stack'[t][1] = f,
             \A j \in 2 .. Len(stack[t]) : stack'[t][j] = stack[t][j]
      PROVE  \E j \in 1 .. Len(stack[u]) : stack[u][j].at \in R
  <2>1. CASE u # t
    BY <1>1, <2>1
  <2>2. CASE u = t
    <3>1. i \in 1 .. Len(stack[t]) /\ i # 1
      BY <1>1, <2>2
    <3>2. stack'[t][i] = stack[t][i]
      BY <1>0, <1>1, <3>1
    <3>. QED
      BY <2>2, <3>1, <3>2
  <2>. QED
    BY <2>1, <2>2
<1>2. CASE \E label \in Labels \ R :
             Jump(t, label) /\ (label \in Basic <=> Top(t).at \in Basic)
  <2>1. PICK label \in Labels \ R :
             Jump(t, label) /\ (label \in Basic <=> Top(t).at \in Basic)
    BY <1>2
  <2> DEFINE f == Frame(label, Top(t).kind)
  <2>2. f \in Frames /\ f.at \notin R
    BY TopFacts DEF Frame, Frames
  <2>3. /\ \A v \in Threads \ {t} : stack'[v] = stack[v]
        /\ Len(stack'[t]) = Len(stack[t])
        /\ stack'[t][1] = f
        /\ \A j \in 2 .. Len(stack[t]) : stack'[t][j] = stack[t][j]
    BY <2>1, JumpFacts
  <2> HIDE DEF f
  <2>. QED
    BY <1>1, <2>2, <2>3
<1>3. CASE Rethrow(t) /\ "clear_signals" \notin R
  <2> DEFINE f == Frame("clear_signals",
                        IF triedThrow THEN "exception" ELSE Top(t).kind)
  <2>1. /\ f \in Frames /\ f.at \notin Basic /\ f.at \notin R
        /\ Top(t).at \notin Basic
    BY <1>3, TopFacts DEF Rethrow, At, Frame, Frames, Labels, Basic, Kinds
  <2>2. stack' = [stack EXCEPT ![t][1] = f]
    BY <1>3, TopFacts DEF Rethrow
  <2> HIDE DEF f
  <2>3. /\ \A v \in Threads \ {t} : stack'[v] = stack[v]
        /\ Len(stack'[t]) = Len(stack[t])
        /\ stack'[t][1] = f
        /\ \A j \in 2 .. Len(stack[t]) : stack'[t][j] = stack[t][j]
    BY <2>1, <2>2, ReplaceFacts
  <2>. QED
    BY <1>1, <2>1, <2>3
<1>4. CASE \E label \in Labels \ (Basic \union R), kind \in Kinds : Push(t, label, kind)
  <2>1. PICK label \in Labels \ (Basic \union R), kind \in Kinds : Push(t, label, kind)
    BY <1>4
  <2>2. /\ \A v \in Threads \ {t} : stack'[v] = stack[v]
        /\ Len(stack'[t]) = Len(stack[t]) + 1
        /\ stack'[t][1] = Frame(label, kind)
        /\ \A j \in 1 .. Len(stack[t]) : stack'[t][j + 1] = stack[t][j]
    BY <2>1, PushFacts
  <2>3. Frame(label, kind).at \notin R
    BY DEF Frame
  <2>4. CASE u # t
    BY <2>2, <2>4
  <2>5. CASE u = t
    <3>1. i # 1
      BY <2>2, <2>3, <2>5
    <3>2. i - 1 \in 1 .. Len(stack[t]) /\ (i - 1) + 1 = i
      BY <1>0, <2>2, <2>5, <3>1
    <3>3. stack'[t][(i - 1) + 1] = stack[t][i - 1]
      BY <2>2, <3>2
    <3>. QED
      BY <2>5, <3>2, <3>3
  <2>. QED
    BY <2>4, <2>5
<1>5. CASE Pop(t) /\ Top(t).kind # "none"
  <2>1. /\ \A v \in Threads \ {t} : stack'[v] = stack[v]
        /\ Len(stack'[t]) = Len(stack[t]) - 1
        /\ \A j \in 1 .. Len(stack'[t]) : stack'[t][j] = stack[t][j + 1]
    BY <1>5, PopFacts
  <2>2. CASE u # t
    BY <2>1, <2>2
  <2>3. CASE u = t
    <3>1. i + 1 \in 1 .. Len(stack[t])
      BY <1>0, <2>1, <2>3
    <3>. QED
      BY <2>1, <2>3, <3>1
  <2>. QED
    BY <2>2, <2>3
<1>6. CASE UNCHANGED stack
  BY <1>6
<1>. QED
  BY <1>2, <1>3, <1>4, <1>5, <1>6

\* Only the main thread installs handlers, and has not done so before.
Setting == {"set_term", "set_sigs"}
Installing ==
  \A t \in Threads : \A i \in 1 .. Len(stack[t]) :
    stack[t][i].at \in Setting => t = Main /\ installed = "no"

LEMMA InstallingStep == Shape /\ Installing /\ [Next]_vars => Installing'
<1> SUFFICES ASSUME Shape, Installing, [Next]_vars PROVE Installing'
  OBVIOUS
<1> USE DEF handlers, signals, ending, tracing
<1>1. CASE UNCHANGED vars
  BY <1>1 DEF vars, Installing
<1>2. ASSUME NEW t \in Threads, UNCHANGED installed,
         \/ \E label \in Labels \ Setting :
              Jump(t, label) /\ (label \in Basic <=> Top(t).at \in Basic)
         \/ \E label \in Labels \ (Basic \union Setting), kind \in Kinds :
              Push(t, label, kind)
         \/ Pop(t) /\ Top(t).kind # "none"
         \/ Rethrow(t) /\ "clear_signals" \notin Setting
         \/ UNCHANGED stack
      PROVE  Installing'
  BY <1>2, NoNewLabel DEF Installing
<1>3. ASSUME NEW t \in Threads, WorkBegin(t) \/ WorkEnd(t) \/ Deliver(t)
      PROVE  Installing'
  BY <1>2, <1>3
     DEF WorkBegin, WorkEnd, Deliver, At, Labels, Basic, Setting, Kinds, Shape, Signals
<1>4. ASSUME NEW t \in Threads, NEW k \in Kinds,
             Throw(t, k) \/ MPIError(t) \/ Signal(t, k)
      PROVE  Installing'
  BY <1>2, <1>4 DEF Throw, MPIError, Signal, Labels, Basic, Setting, Kinds
<1>5. ASSUME NEW t \in Threads,
             \/ Rethrow(t) \/ ClearSignals(t) \/ CallAbortFun(t) \/ Lock(t)
             \/ ClearFun(t) \/ ClearTerm(t) \/ ClearSigs(t)
      PROVE  Installing'
  <2>1. CASE Rethrow(t)
    BY <1>2, <2>1 DEF Rethrow, Setting
  <2>2. CASE ClearSignals(t) \/ Lock(t) \/ ClearFun(t) \/ ClearTerm(t)
    BY <1>2, <2>2
       DEF ClearSignals, Lock, ClearFun, ClearTerm, At, Labels, Basic, Setting
  <2>3. CASE CallAbortFun(t) \/ ClearSigs(t)
    BY <1>2, <2>3 DEF CallAbortFun, ClearSigs, At, Labels, Basic, Setting
  <2>. QED
    BY <1>5, <2>1, <2>2, <2>3
<1>6. ASSUME NEW t \in Threads,
             \/ Decide(t) \/ What(t) \/ Walk(t) \/ PrintError(t) \/ Unlock(t) \/ Abort(t)
      PROVE  Installing'
  BY <1>2, <1>6
     DEF Decide, What, Walk, PrintError, Unlock, Abort, At, Labels, Basic, Setting
<1>7. CASE SetErrorHandlers(Main)
  BY <1>7, JumpFacts, TerminationAssumption
     DEF SetErrorHandlers, Installing, At, Labels, Basic
<1>8. ASSUME NEW t \in Threads, Top(t).at \in Setting
      PROVE  /\ t = Main /\ installed = "no" /\ Len(stack[t]) = 1
             /\ \A u \in Threads \ {t} : \A i \in 1 .. Len(stack[u]) :
                  stack[u][i].at \notin Setting
  BY <1>8, TopFacts DEF Installing, Setting, Basic
<1>9. ASSUME NEW t \in Threads, SetTerminate(t)
      PROVE  Installing'
  <2>1. /\ t = Main /\ installed' = "no"
        /\ \A u \in Threads \ {t} : stack'[u] = stack[u]
    BY <1>8, <1>9, JumpFacts DEF SetTerminate, At, Labels, Basic, Setting
  <2>. QED
    BY <2>1 DEF Installing
<1>10. ASSUME NEW t \in Threads, SetSignals(t)
       PROVE  Installing'
  <2>1. /\ Len(stack'[t]) = Len(stack[t])
        /\ stack'[t][1] = Frame("run", Top(t).kind)
        /\ \A u \in Threads \ {t} : stack'[u] = stack[u]
    BY <1>10, JumpFacts DEF SetSignals, At, Labels, Basic
  <2>2. stack'[t][1].at \notin Setting
    BY <2>1 DEF Frame, Setting
  <2>3. Top(t).at \in Setting
    BY <1>10 DEF SetSignals, At, Setting
  <2>4. \A i \in 1 .. Len(stack'[t]) : i = 1
    <3>1. Len(stack'[t]) = 1
      BY <1>8, <2>1, <2>3
    <3>. QED
      BY <3>1
  <2>. QED
    BY <1>8, <2>1, <2>2, <2>3, <2>4 DEF Installing
<1>11. ASSUME \/ ClearErrorHandlers(Main) \/ ClearErrorHandler(Main)
              \/ \E list : ClearSignalList(Main, list)
       PROVE  Installing'
  <2>1. \A u \in Threads : \A i \in 1 .. Len(stack[u]) : stack[u][i].at \notin Setting
    BY <1>11 DEF ClearErrorHandlers, ClearErrorHandler, ClearSignalList, Installing
  <2>2. \/ UNCHANGED stack
        \/ \E label \in Labels \ (Basic \union Setting), kind \in Kinds :
             Push(Main, label, kind)
    BY <1>11 DEF ClearErrorHandlers, ClearErrorHandler, ClearSignalList,
                 Labels, Basic, Setting, Kinds
  <2>. QED
    BY <2>1, <2>2, NoNewLabel, TerminationAssumption DEF Installing
<1>12. CASE Next
  BY <1>1, <1>3, <1>4, <1>5, <1>6, <1>7, <1>9, <1>10, <1>11, <1>12
     DEF Next, Step, Dead, Kinds
<1>. QED
  BY <1>1, <1>12

LEMMA FirstFailureStep ==
  Shape /\ Installing /\ FirstFailure /\ [Next]_vars => FirstFailure'
<1> SUFFICES ASSUME Shape, Installing, FirstFailure, [Next]_vars, Undisturbed',
                    failures' \in {0, 1}
             PROVE  (failures' = 0 => Intact') /\ (failures' = 1 => Struck')
  BY DEF FirstFailure
<1> USE DEF handlers, signals, ending, tracing
<1>1. CASE UNCHANGED vars
  BY <1>1 DEF vars, FirstFailure, Undisturbed, Intact, Struck, Handled, Top
<1>2. CASE Next
  <2>1. Undisturbed
    <3>1. \A t \in Threads : SetSignals(t) => installed = "no" /\ ~raced
      <4>1. \A t \in Threads : Top(t) = stack[t][1] /\ 1 \in 1 .. Len(stack[t])
        BY TopFacts
      <4>. QED
        BY <4>1 DEF SetSignals, At, Installing, Setting, Undisturbed
    <3>2. (\E t \in Threads : SetSignals(t)) \/ (UNCHANGED raced /\
            (UNCHANGED installed \/ installed' = "cleared"))
      BY <1>2 DEF Next, Step, Dead, SetErrorHandlers, SetTerminate, WorkBegin, WorkEnd,
           Deliver, ClearErrorHandlers, ClearErrorHandler, ClearSignalList, Throw,
           MPIError, Signal, Rethrow, ClearSignals, CallAbortFun, Lock, ClearFun,
           ClearTerm, ClearSigs, Decide, What, Walk, PrintError, Unlock, Abort, vars
    <3>. QED
      BY <3>1, <3>2 DEF Undisturbed
  <2>2. failures' = failures \/ failures' = failures + 1
    BY <1>2 DEF Next, Step, Dead, SetErrorHandlers, SetTerminate,
         SetSignals, WorkBegin, WorkEnd, Deliver, ClearErrorHandlers,
         ClearErrorHandler, ClearSignalList, Throw, MPIError, Signal,
         Rethrow, ClearSignals, CallAbortFun, Lock, ClearFun, ClearTerm, ClearSigs,
         Decide, What, Walk, PrintError, Unlock, Abort, vars
  <2>3. \/ failures = 0 /\ failures' = 0
        \/ failures = 0 /\ failures' = 1
        \/ failures = 1 /\ failures' = 1
    BY <2>2 DEF Shape
  <2>. QED
    BY <1>2, <2>1, <2>3, IntactStep, FailStep, StruckStep DEF FirstFailure
<1>. QED
  BY <1>1, <1>2

LEMMA FirstFailureAlways == Spec => [](Shape /\ FirstFailure)
<1>1. Init => FirstFailure /\ Installing
  <2> SUFFICES ASSUME Init PROVE FirstFailure /\ Installing
    OBVIOUS
  <2>1. \A t \in Threads : /\ Len(stack[t]) = 1
                           /\ Top(t).at = "run" /\ stack[t][1].at = "run"
    <3> DEFINE f == Frame("run", "none")
    <3>1. f.at = "run" /\ stack = [t \in Threads |-> <<f>>]
      BY DEF Init, Frame
    <3> HIDE DEF f
    <3>2. Len(<<f>>) = 1 /\ Head(<<f>>) = f /\ <<f>>[1] = f
      OBVIOUS
    <3>. QED
      BY <3>1, <3>2 DEF Top
  <2>2. Intact
    BY <2>1 DEF Init, Intact, Signals
  <2>3. Installing
    BY <2>1 DEF Installing, Setting
  <2>4. failures = 0
    BY DEF Init
  <2>. QED
    BY <2>2, <2>3, <2>4 DEF FirstFailure
<1>. QED
  BY <1>1, ShapeInit, ShapeStep, InstallingStep, FirstFailureStep, PTL DEF Spec

\* One failure of any thread, at any point of the program, does not end a process
\* with handlers before it is reported.
THEOREM SilentDeathHolds == Spec => []SilentDeathNeedsSecondFailure
<1>1. Shape /\ FirstFailure => SilentDeathNeedsSecondFailure
  BY DEF Shape, FirstFailure, Undisturbed, Intact, Struck, SilentDeathNeedsSecondFailure
<1>. QED
  BY <1>1, FirstFailureAlways, PTL

\* A process in which nothing fails is not ended by the signal of backtrace, and
\* reports no error for it.
THEOREM TracingIsHarmlessHolds == Spec => []TracingIsHarmless
<1>1. FirstFailure => TracingIsHarmless
  BY DEF FirstFailure, Undisturbed, Intact, TracingIsHarmless
<1>. QED
  BY <1>1, FirstFailureAlways, PTL
-----------------------------------------------------------------------------
(* How deep a stack can be *)

\* The activities above t's own: one for each failure, one for the program's call
\* of clearErrorHandler, and one for a callstack signal that was pending when
\* setSignals took its handler over.
Handlers(t) ==
  failures + (IF installed = "cleared" THEN 1 ELSE 0)
    + (IF installed = "no" \/ (t \in asked /\ disp["trace"] = "term") THEN 0 ELSE 1)

Depth ==
  /\ installed = "no" => disp["trace"] # "term"
  /\ \A t \in Threads : Len(stack[t]) <= 1 + Handlers(t)
  /\ failures <= MaxFailures

\* The types that Shape leaves out.
OtherTypes ==
  /\ proc \in {"up", "dead", "traced"}
  /\ installed \in {"no", "yes", "cleared"}
  /\ abortFun \in {"empty", "terminate", "noop"}
  /\ termHandler \in {"default", "term_func", "null"}
  /\ signalsSet \subseteq Signals
  /\ mpi \in {"off", "fatal", "throw"}
  /\ {triedThrow, raced} \subseteq BOOLEAN
  /\ asked \subseteq Threads
  /\ {tMutex, stMutex} \subseteq Threads \union {NoThread}

LEMMA OtherTypesStep == Shape /\ OtherTypes /\ [Next]_vars => OtherTypes'
<1> SUFFICES ASSUME Shape, OtherTypes, [Next]_vars PROVE OtherTypes'
  OBVIOUS
<1> USE DEF handlers, signals, ending, tracing, Shape, OtherTypes
<1>1. CASE UNCHANGED vars
  BY <1>1 DEF vars
<1>2. ASSUME NEW t \in Threads,
             \/ SetErrorHandlers(t) \/ SetTerminate(t) \/ SetSignals(t)
             \/ ClearErrorHandlers(t) \/ ClearErrorHandler(t)
             \/ \E list : ClearSignalList(t, list)
      PROVE  OtherTypes'
  BY <1>2 DEF SetErrorHandlers, SetTerminate, SetSignals, ClearErrorHandlers,
              ClearErrorHandler, ClearSignalList, HandleMPI
<1>3. ASSUME NEW t \in Threads,
             WorkBegin(t) \/ WorkEnd(t) \/ Deliver(t) \/ What(t) \/ Walk(t)
      PROVE  OtherTypes'
  <2>1. /\ UNCHANGED <<installed, abortFun, termHandler, signalsSet, mpi, triedThrow,
                       raced, tMutex>>
        /\ stMutex' = stMutex \/ stMutex' = t \/ stMutex' = NoThread
    BY <1>3 DEF WorkBegin, WorkEnd, Deliver, What, Walk
  <2>3. asked' \subseteq Threads
    <3>1. CASE \E others \in SUBSET Threads : asked' = asked \union others
      BY <3>1
    <3>2. CASE asked' \subseteq asked
      BY <3>2
    <3>3. WorkBegin(t) => \E others \in SUBSET Threads : asked' = asked \union others
      <4>1. {{}} \union {{u} : u \in Threads \ {t}} \subseteq SUBSET Threads
        OBVIOUS
      <4>. QED
        BY <4>1 DEF WorkBegin, Interrupt
    <3>4. What(t) => \E others \in SUBSET Threads : asked' = asked \union others
      <4>1. SUBSET (Threads \ {t}) \subseteq SUBSET Threads
        OBVIOUS
      <4>. QED
        BY <4>1 DEF What, Interrupt
    <3>. QED
      BY <1>3, <3>1, <3>2, <3>3, <3>4 DEF WorkEnd, Deliver, Walk
  <2>2. proc' \in {"up", "dead", "traced"}
    BY <1>3 DEF WorkBegin, WorkEnd, Deliver, What, Walk, Signals
  <2>. QED
    BY <2>1, <2>2, <2>3
<1>4. ASSUME NEW t \in Threads, NEW k,
             Throw(t, k) \/ MPIError(t) \/ Signal(t, k) \/ Rethrow(t)
      PROVE  OtherTypes'
  BY <1>4 DEF Throw, MPIError, Signal, Rethrow
<1>5. ASSUME NEW t \in Threads,
             \/ ClearSignals(t) \/ CallAbortFun(t) \/ Lock(t) \/ ClearFun(t)
             \/ ClearTerm(t) \/ ClearSigs(t)
      PROVE  OtherTypes'
  BY <1>5 DEF ClearSignals, CallAbortFun, Lock, ClearFun, ClearTerm, ClearSigs, ClearCaught
<1>6. ASSUME NEW t \in Threads,
             Decide(t) \/ PrintError(t) \/ Unlock(t) \/ Abort(t)
      PROVE  OtherTypes'
  BY <1>6 DEF Decide, PrintError, Unlock, Abort
<1>7. CASE Next
  BY <1>1, <1>2, <1>3, <1>4, <1>5, <1>6, <1>7, TerminationAssumption DEF Next, Step, Dead
<1>. QED
  BY <1>1, <1>7

LEMMA DepthStep == Shape /\ Installing /\ OtherTypes /\ Depth /\ [Next]_vars => Depth'
<1> SUFFICES ASSUME Shape, Installing, OtherTypes, Depth, [Next]_vars PROVE Depth'
  OBVIOUS
<1>0. MaxFailures \in Nat /\ Main \in Threads /\ failures \in Nat
  BY TerminationAssumption DEF Shape
<1>1. ASSUME NEW t \in Threads PROVE Len(stack[t]) \in Nat
  BY <1>1, TopFacts
<1> USE DEF handlers, signals, ending, tracing
\* No thread gets another activity.
<1>2. ASSUME \A u \in Threads : Len(stack'[u]) \in Nat /\ Len(stack'[u]) <= Len(stack[u]),
             UNCHANGED failures, UNCHANGED installed \/ installed' # "no",
             installed = "cleared" => installed' = "cleared",
             disp'["trace"] = "term" => disp["trace"] = "term" /\ asked' \subseteq asked
      PROVE  Depth'
  <2>1. ASSUME NEW u \in Threads PROVE Len(stack'[u]) <= 1 + Handlers(u)'
    <3>1. Handlers(u) \in Int /\ Handlers(u)' \in Int /\ Handlers(u) <= Handlers(u)'
      BY <1>0, <1>2 DEF Handlers
    <3>. QED
      BY <1>1, <1>2, <3>1 DEF Depth
  <2>. QED
    BY <1>2, <2>1 DEF Depth
<1>3. ASSUME UNCHANGED <<stack, failures, installed, disp, asked>> PROVE Depth'
  BY <1>1, <1>2, <1>3
<1>4. ASSUME NEW t \in Threads, NEW label \in Labels, Jump(t, label),
             label \in Basic <=> Top(t).at \in Basic
      PROVE  \A u \in Threads : Len(stack'[u]) \in Nat /\ Len(stack'[u]) <= Len(stack[u])
  BY <1>1, <1>4, JumpFacts
<1>5. ASSUME NEW t \in Threads, Pop(t), Top(t).kind # "none"
      PROVE  \A u \in Threads : Len(stack'[u]) \in Nat /\ Len(stack'[u]) <= Len(stack[u])
  <2>1. Len(stack'[t]) = Len(stack[t]) - 1 /\ Len(stack[t]) >= 1
    BY <1>5, PopFacts, TopFacts
  <2>2. \A u \in Threads \ {t} : stack'[u] = stack[u]
    BY <1>5, PopFacts
  <2>. QED
    BY <1>1, <2>1, <2>2
\* A thread gets another activity, and the account of all threads or its own grows.
<1>6. ASSUME NEW t \in Threads, NEW label \in Labels \ Basic, NEW kind \in Kinds,
             Push(t, label, kind), failures' \in Nat, failures' <= MaxFailures,
             \A u \in Threads : Handlers(u) <= Handlers(u)' /\ Handlers(u)' \in Int,
             Handlers(t)' >= Handlers(t) + 1,
             installed' = "no" => disp'["trace"] # "term"
      PROVE  Depth'
  <2>1. /\ \A u \in Threads \ {t} : stack'[u] = stack[u]
        /\ Len(stack'[t]) = Len(stack[t]) + 1
    BY <1>6, PushFacts
  <2>2. ASSUME NEW u \in Threads PROVE Len(stack'[u]) <= 1 + Handlers(u)'
    <3>1. Handlers(u) \in Int
      BY <1>0 DEF Handlers
    <3>2. Len(stack[u]) <= 1 + Handlers(u)
      BY DEF Depth
    <3>3. CASE u = t
      BY <1>1, <1>6, <2>1, <3>1, <3>2, <3>3
    <3>4. CASE u # t
      BY <1>1, <1>6, <2>1, <3>1, <3>2, <3>4
    <3>. QED
      BY <3>3, <3>4
  <2>. QED
    BY <1>6, <2>2 DEF Depth
<1>7. CASE UNCHANGED vars
  BY <1>3, <1>7 DEF vars
<1>8. ASSUME NEW t \in Threads, NEW k \in Kinds, Throw(t, k) \/ Signal(t, k)
      PROVE  Depth'
  <2>1. /\ failures' = failures + 1 /\ failures < MaxFailures
        /\ UNCHANGED <<installed, disp, asked>>
        /\ \/ UNCHANGED stack
           \/ \E label \in Labels \ Basic : Push(t, label, k)
    BY <1>8 DEF Throw, Signal, Labels, Basic
  <2>2. failures' \in Nat /\ failures' <= MaxFailures
    BY <1>0, <2>1
  <2>3. \A u \in Threads : Handlers(u)' = Handlers(u) + 1 /\ Handlers(u) \in Int
    BY <1>0, <2>1 DEF Handlers
  <2>4. installed' = "no" => disp'["trace"] # "term"
    BY <2>1 DEF Depth
  <2>5. CASE UNCHANGED stack
    <3>1. \A u \in Threads : Len(stack'[u]) <= 1 + Handlers(u)'
      BY <1>1, <2>3, <2>5 DEF Depth
    <3>. QED
      BY <2>2, <2>4, <3>1 DEF Depth
  <2>6. CASE \E label \in Labels \ Basic : Push(t, label, k)
    BY <1>6, <2>2, <2>3, <2>4, <2>6
  <2>. QED
    BY <2>1, <2>5, <2>6
<1>9. ASSUME NEW t \in Threads, MPIError(t) PROVE Depth'
  <2>1. CASE Throw(t, "abort")
    BY <1>8, <2>1 DEF Kinds
  <2>2. CASE /\ failures < MaxFailures /\ failures' = failures + 1
             /\ UNCHANGED <<stack, installed, disp, asked>>
    <3>1. failures' \in Nat /\ failures' <= MaxFailures
      BY <1>0, <2>2
    <3>2. \A u \in Threads : Handlers(u)' = Handlers(u) + 1 /\ Handlers(u) \in Int
      BY <1>0, <2>2 DEF Handlers
    <3>3. \A u \in Threads : Len(stack'[u]) <= 1 + Handlers(u)'
      BY <1>1, <2>2, <3>2 DEF Depth
    <3>. QED
      BY <2>2, <3>1, <3>3 DEF Depth
  <2>. QED
    BY <1>9, <2>1, <2>2 DEF MPIError
<1>10. ASSUME NEW t \in Threads, Deliver(t) PROVE Depth'
  <2>0. t \in asked /\ asked' = asked \ {t} /\ UNCHANGED <<installed, disp, failures>>
    BY <1>10 DEF Deliver
  <2>1. CASE UNCHANGED stack
    BY <1>1, <1>2, <2>0, <2>1
  <2>2. CASE disp["trace"] = "term" /\ Push(t, "abort_fun", "signal")
    <3>1. installed # "no"
      BY <2>2 DEF Depth
    <3>2. Handlers(t)' = Handlers(t) + 1 /\ Handlers(t) \in Int
      BY <1>0, <2>0, <2>2, <3>1 DEF Handlers
    <3>3. \A u \in Threads : Handlers(u) <= Handlers(u)' /\ Handlers(u)' \in Int
      BY <1>0, <2>0 DEF Handlers
    <3>. QED
      BY <1>0, <1>6, <2>0, <2>2, <3>1, <3>2, <3>3 DEF Labels, Basic, Kinds, Depth
  <2>. QED
    BY <1>10, <2>1, <2>2 DEF Deliver, Shape, Signals
<1>11. ASSUME NEW t \in Threads, WorkBegin(t) \/ WorkEnd(t) \/ What(t) \/ Walk(t)
       PROVE  Depth'
  <2>1. \A u \in Threads : Len(stack'[u]) \in Nat /\ Len(stack'[u]) <= Len(stack[u])
    BY <1>4, <1>11 DEF WorkBegin, WorkEnd, What, Walk, At, Labels, Basic
  <2>2. disp'["trace"] = "term" => disp["trace"] = "term" /\ asked' \subseteq asked
    BY <1>11 DEF WorkBegin, WorkEnd, What, Walk, Interrupt, Shape, Signals
  <2>3. UNCHANGED <<failures, installed>>
    BY <1>11 DEF WorkBegin, WorkEnd, What, Walk
  <2>. QED
    BY <1>2, <2>1, <2>2, <2>3
<1>12. ASSUME NEW t \in Threads,
              \/ ClearSignals(t) \/ Lock(t) \/ ClearFun(t) \/ ClearTerm(t)
              \/ ClearSigs(t) \/ Decide(t) \/ Unlock(t)
       PROVE  Depth'
  <2>1. \A u \in Threads : Len(stack'[u]) \in Nat /\ Len(stack'[u]) <= Len(stack[u])
    BY <1>4, <1>5, <1>12 DEF ClearSignals, Lock, ClearFun, ClearTerm, ClearSigs, Decide,
                             Unlock, At, Labels, Basic
  <2>2. disp'["trace"] = "term" => disp["trace"] = "term" /\ asked' \subseteq asked
    BY <1>12 DEF ClearSignals, Lock, ClearFun, ClearTerm, ClearSigs, Decide, Unlock,
                 ClearCaught, Shape, Signals
  <2>3. UNCHANGED <<failures, installed>>
    BY <1>12 DEF ClearSignals, Lock, ClearFun, ClearTerm, ClearSigs, Decide, Unlock
  <2>. QED
    BY <1>2, <2>1, <2>2, <2>3
<1>13. ASSUME NEW t \in Threads,
              Rethrow(t) \/ CallAbortFun(t) \/ PrintError(t) \/ Abort(t)
       PROVE  Depth'
  <2>1. UNCHANGED <<failures, installed, disp, asked>>
    BY <1>13 DEF Rethrow, CallAbortFun, PrintError, Abort
  <2>2. CASE Rethrow(t)
    <3> DEFINE f == Frame("clear_signals",
                          IF triedThrow THEN "exception" ELSE Top(t).kind)
    <3>1. f \in Frames /\ f.at \notin Basic /\ Top(t).at \notin Basic
      BY <2>2, TopFacts DEF Rethrow, At, Frame, Frames, Labels, Basic, Kinds
    <3>2. stack' = [stack EXCEPT ![t][1] = f]
      BY <2>2, TopFacts DEF Rethrow
    <3> HIDE DEF f
    <3>3. \A u \in Threads : Len(stack'[u]) = Len(stack[u])
      BY <3>1, <3>2, ReplaceFacts
    <3>. QED
      BY <1>1, <1>2, <2>1, <3>3
  <2>3. CASE CallAbortFun(t) \/ PrintError(t) \/ Abort(t)
    <3>1. \/ UNCHANGED stack
          \/ Pop(t) /\ Top(t).kind # "none"
          \/ \E label \in Labels \ Basic : Jump(t, label) /\ Top(t).at \notin Basic
      BY <2>3 DEF CallAbortFun, PrintError, Abort, At, Labels, Basic
    <3>2. \A u \in Threads : Len(stack'[u]) \in Nat /\ Len(stack'[u]) <= Len(stack[u])
      BY <1>1, <1>4, <1>5, <3>1
    <3>. QED
      BY <1>2, <2>1, <3>2
  <2>. QED
    BY <1>13, <2>2, <2>3
<1>14. ASSUME NEW t \in Threads, SetErrorHandlers(t) \/ SetTerminate(t) PROVE Depth'
  <2>1. \A u \in Threads : Len(stack'[u]) \in Nat /\ Len(stack'[u]) <= Len(stack[u])
    BY <1>4, <1>14 DEF SetErrorHandlers, SetTerminate, At, Labels, Basic
  <2>. QED
    BY <1>2, <1>14, <2>1 DEF SetErrorHandlers, SetTerminate
\* The signals that are pending now are the ones that terminateFunctionSignal will see.
<1>15. ASSUME NEW t \in Threads, SetSignals(t) PROVE Depth'
  <2>1. \A u \in Threads : Len(stack'[u]) \in Nat /\ Len(stack'[u]) <= Len(stack[u])
    BY <1>4, <1>15 DEF SetSignals, At, Labels, Basic
  <2>2. installed = "no"
    BY <1>15, TopFacts DEF SetSignals, At, Installing, Setting
  <2>3. installed' = "yes" /\ UNCHANGED failures
    BY <1>15 DEF SetSignals
  <2>4. ASSUME NEW u \in Threads PROVE Len(stack'[u]) <= 1 + Handlers(u)'
    <3>1. Handlers(u) \in Int /\ Handlers(u)' \in Int /\ Handlers(u) <= Handlers(u)'
      BY <1>0, <2>2, <2>3 DEF Handlers
    <3>. QED
      BY <1>1, <2>1, <3>1 DEF Depth
  <2>. QED
    BY <2>3, <2>4 DEF Depth
<1>16. ASSUME ClearErrorHandlers(Main) \/ \E list : ClearSignalList(Main, list)
       PROVE  Depth'
  <2>1. /\ UNCHANGED <<stack, failures, asked>> /\ installed' = "cleared"
        /\ disp'["trace"] = "term" => disp["trace"] = "term"
    BY <1>16 DEF ClearErrorHandlers, ClearSignalList, Signals
  <2>. QED
    BY <1>1, <1>2, <2>1
<1>17. ASSUME ClearErrorHandler(Main) PROVE Depth'
  <2>1. /\ installed = "yes" /\ installed' = "cleared"
        /\ UNCHANGED <<failures, disp, asked>>
        /\ Push(Main, "clear_fun", "user")
    BY <1>17 DEF ClearErrorHandler
  <2>2. \A u \in Threads : Handlers(u)' = Handlers(u) + 1 /\ Handlers(u) \in Int
    BY <1>0, <2>1 DEF Handlers
  <2>. QED
    BY <1>0, <1>6, <2>1, <2>2 DEF Labels, Basic, Kinds, Depth
<1>18. CASE Next
  BY <1>0, <1>7, <1>8, <1>9, <1>10, <1>11, <1>12, <1>13, <1>14, <1>15, <1>16, <1>17, <1>18
     DEF Next, Step, Dead, Kinds
<1>. QED
  BY <1>7, <1>18

\* The variables have their types, and no thread has more activities than the
\* failures, one call of clearErrorHandler and one callstack signal that setSignals
\* found pending account for: terminate and the signal handlers start no others.
THEOREM TypeCorrect == Spec => []TypeOK
<1>1. Init => Installing /\ OtherTypes /\ Depth
  <2> SUFFICES ASSUME Init PROVE Installing /\ OtherTypes /\ Depth
    OBVIOUS
  <2>1. \A t \in Threads : Len(stack[t]) = 1 /\ stack[t][1].at = "run"
    <3> DEFINE f == Frame("run", "none")
    <3>1. f.at = "run" /\ stack = [t \in Threads |-> <<f>>]
      BY DEF Init, Frame
    <3> HIDE DEF f
    <3>. QED
      BY <3>1
  <2>2. Installing
    BY <2>1 DEF Installing, Setting
  <2>3. OtherTypes
    BY DEF Init, OtherTypes
  <2>4. Depth
    BY <2>1, TerminationAssumption DEF Init, Depth, Handlers, Signals
  <2>. QED
    BY <2>2, <2>3, <2>4
<1>2. Shape /\ OtherTypes /\ Depth => TypeOK
  <2> SUFFICES ASSUME Shape, OtherTypes, Depth PROVE TypeOK
    OBVIOUS
  <2>0. MaxFailures \in Nat /\ failures \in Nat /\ failures <= MaxFailures
    BY TerminationAssumption DEF Shape, Depth
  <2>1. ASSUME NEW t \in Threads
        PROVE  /\ Len(stack[t]) \in 1 .. MaxFailures + 3
               /\ \A i \in DOMAIN stack[t] : stack[t][i] \in [at : Labels, kind : Kinds]
    <3>1. stack[t] \in Seq(Frames) /\ Len(stack[t]) \in Nat /\ Len(stack[t]) >= 1
      BY TopFacts
    <3>2. Handlers(t) \in Int /\ Handlers(t) <= failures + 2
      BY <2>0 DEF Handlers
    <3>3. Len(stack[t]) <= 1 + Handlers(t)
      BY DEF Depth
    <3>4. Len(stack[t]) \in 1 .. MaxFailures + 3
      BY <2>0, <3>1, <3>2, <3>3
    <3>5. \A i \in DOMAIN stack[t] : stack[t][i] \in Frames
      BY <3>1
    <3>. QED
      BY <3>4, <3>5 DEF Frames
  <2>. QED
    BY <2>0, <2>1 DEF TypeOK, Shape, OtherTypes
<1>. QED
  BY <1>1, <1>2, ShapeInit, ShapeStep, InstallingStep, OtherTypesStep, DepthStep, PTL DEF Spec

-----------------------------------------------------------------------------
(* Who owns a mutex *)

\* A step of t after which a thread that had a frame of R still has one.
Keeps(t, R) ==
  \/ \E label \in Labels :
       /\ Jump(t, label) /\ (label \in Basic <=> Top(t).at \in Basic)
       /\ Top(t) \in R => Frame(label, Top(t).kind) \in R
  \/ \E label \in Labels \ Basic, kind \in Kinds : Push(t, label, kind)
  \/ Pop(t) /\ Top(t).kind # "none" /\ Top(t) \notin R
  \/ Rethrow(t) /\ Top(t) \notin R
  \/ UNCHANGED stack

\* A step of t after which no thread has a frame of R that had none.
Spares(t, R) ==
  \/ \E label \in Labels :
       /\ Jump(t, label) /\ (label \in Basic <=> Top(t).at \in Basic)
       /\ Frame(label, Top(t).kind) \in R => Top(t) \in R
  \/ \E label \in Labels \ Basic, kind \in Kinds :
       Push(t, label, kind) /\ Frame(label, kind) \notin R
  \/ Pop(t) /\ Top(t).kind # "none"
  \/ /\ Rethrow(t)
     /\ Frame("clear_signals", IF triedThrow THEN "exception" ELSE Top(t).kind) \in R
          => Top(t) \in R
  \/ UNCHANGED stack

Has(u, R) == \E i \in 1 .. Len(stack[u]) : stack[u][i] \in R

LEMMA RethrowFacts ==
  ASSUME Shape, NEW t \in Threads, Rethrow(t)
  PROVE  LET f == Frame("clear_signals", IF triedThrow THEN "exception" ELSE Top(t).kind)
         IN  /\ \A v \in Threads \ {t} : stack'[v] = stack[v]
             /\ Len(stack'[t]) = Len(stack[t])
             /\ stack'[t][1] = f
             /\ \A j \in 2 .. Len(stack[t]) : stack'[t][j] = stack[t][j]
<1> DEFINE f == Frame("clear_signals", IF triedThrow THEN "exception" ELSE Top(t).kind)
<1>1. f \in Frames /\ f.at \notin Basic /\ Top(t).at \notin Basic
  BY TopFacts DEF Rethrow, At, Frame, Frames, Labels, Basic, Kinds
<1>2. stack' = [stack EXCEPT ![t][1] = f]
  BY TopFacts DEF Rethrow
<1> HIDE DEF f
<1>3. /\ \A v \in Threads \ {t} : stack'[v] = stack[v]
      /\ Len(stack'[t]) = Len(stack[t])
      /\ stack'[t][1] = f
      /\ \A j \in 2 .. Len(stack[t]) : stack'[t][j] = stack[t][j]
  BY <1>1, <1>2, ReplaceFacts
<1>. QED
  BY <1>3 DEF f

LEMMA FrameKept ==
  ASSUME Shape, NEW t \in Threads, NEW R, Keeps(t, R), NEW u \in Threads, Has(u, R)
  PROVE  Has(u, R)'
<1>0. PICK i \in 1 .. Len(stack[u]) : stack[u][i] \in R
  BY DEF Has
<1>1. /\ Len(stack[t]) \in Nat /\ Len(stack[t]) >= 1 /\ Top(t) = stack[t][1]
      /\ \A j \in 1 .. Len(stack[t]) : j = 1 \/ j \in 2 .. Len(stack[t])
  BY TopFacts
<1>2. ASSUME u # t, stack'[u] = stack[u] PROVE Has(u, R)'
  BY <1>0, <1>2 DEF Has
<1>3. ASSUME NEW f, Top(t) \in R => f \in R,
             \A v \in Threads \ {t} : stack'[v] = stack[v],
             Len(stack'[t]) = Len(stack[t]),
             stack'[t][1] = f,
             \A j \in 2 .. Len(stack[t]) : stack'[t][j] = stack[t][j]
      PROVE  Has(u, R)'
  <2>1. CASE u = t
    <3>1. stack'[t][i] \in R
      BY <1>0, <1>1, <1>3, <2>1
    <3>. QED
      BY <1>3, <2>1, <3>1 DEF Has
  <2>. QED
    BY <1>2, <1>3, <2>1
<1>4. CASE \E label \in Labels :
             /\ Jump(t, label) /\ (label \in Basic <=> Top(t).at \in Basic)
             /\ Top(t) \in R => Frame(label, Top(t).kind) \in R
  BY <1>3, <1>4, JumpFacts
<1>5. CASE \E label \in Labels \ Basic, kind \in Kinds : Push(t, label, kind)
  <2>1. /\ \A v \in Threads \ {t} : stack'[v] = stack[v]
        /\ Len(stack'[t]) = Len(stack[t]) + 1
        /\ \A j \in 1 .. Len(stack[t]) : stack'[t][j + 1] = stack[t][j]
    BY <1>5, PushFacts
  <2>2. CASE u = t
    <3>1. i + 1 \in 1 .. Len(stack'[t])
      BY <1>1, <2>1, <2>2
    <3>. QED
      BY <1>0, <2>1, <2>2, <3>1 DEF Has
  <2>. QED
    BY <1>2, <2>1, <2>2
<1>6. CASE Pop(t) /\ Top(t).kind # "none" /\ Top(t) \notin R
  <2>1. /\ \A v \in Threads \ {t} : stack'[v] = stack[v]
        /\ Len(stack'[t]) = Len(stack[t]) - 1
        /\ \A j \in 1 .. Len(stack'[t]) : stack'[t][j] = stack[t][j + 1]
    BY <1>6, PopFacts
  <2>2. CASE u = t
    <3>1. i # 1
      BY <1>0, <1>1, <1>6, <2>2
    <3>2. i - 1 \in 1 .. Len(stack'[t]) /\ (i - 1) + 1 = i
      BY <1>1, <2>1, <2>2, <3>1
    <3>3. stack'[t][i - 1] = stack[t][(i - 1) + 1]
      BY <2>1, <3>2
    <3>. QED
      BY <1>0, <2>2, <3>2, <3>3 DEF Has
  <2>. QED
    BY <1>2, <2>1, <2>2
<1>7. CASE Rethrow(t) /\ Top(t) \notin R
  BY <1>3, <1>7, RethrowFacts
<1>8. CASE UNCHANGED stack
  BY <1>0, <1>8 DEF Has
<1>. QED
  BY <1>4, <1>5, <1>6, <1>7, <1>8 DEF Keeps

LEMMA FrameSpared ==
  ASSUME Shape, NEW t \in Threads, NEW R, Spares(t, R), NEW u \in Threads, Has(u, R)'
  PROVE  Has(u, R)
<1>0. PICK i \in 1 .. Len(stack'[u]) : stack'[u][i] \in R
  BY DEF Has
<1>1. /\ Len(stack[t]) \in Nat /\ Len(stack[t]) >= 1 /\ Top(t) = stack[t][1]
      /\ \A j \in 1 .. Len(stack[t]) : j = 1 \/ j \in 2 .. Len(stack[t])
  BY TopFacts
<1>2. ASSUME u # t, stack'[u] = stack[u] PROVE Has(u, R)
  BY <1>0, <1>2 DEF Has
<1>3. ASSUME NEW f, f \in R => Top(t) \in R,
             \A v \in Threads \ {t} : stack'[v] = stack[v],
             Len(stack'[t]) = Len(stack[t]),
             stack'[t][1] = f,
             \A j \in 2 .. Len(stack[t]) : stack'[t][j] = stack[t][j]
      PROVE  Has(u, R)
  <2>1. CASE u = t
    <3>1. stack[t][i] \in R
      BY <1>0, <1>1, <1>3, <2>1
    <3>. QED
      BY <1>0, <1>3, <2>1, <3>1 DEF Has
  <2>. QED
    BY <1>2, <1>3, <2>1
<1>4. CASE \E label \in Labels :
             /\ Jump(t, label) /\ (label \in Basic <=> Top(t).at \in Basic)
             /\ Frame(label, Top(t).kind) \in R => Top(t) \in R
  BY <1>3, <1>4, JumpFacts
<1>5. CASE \E label \in Labels \ Basic, kind \in Kinds :
             Push(t, label, kind) /\ Frame(label, kind) \notin R
  <2>1. /\ \A v \in Threads \ {t} : stack'[v] = stack[v]
        /\ Len(stack'[t]) = Len(stack[t]) + 1
        /\ stack'[t][1] \notin R
        /\ \A j \in 1 .. Len(stack[t]) : stack'[t][j + 1] = stack[t][j]
    BY <1>5, PushFacts
  <2>2. CASE u = t
    <3>1. i # 1
      BY <1>0, <2>1, <2>2
    <3>2. i - 1 \in 1 .. Len(stack[t]) /\ (i - 1) + 1 = i
      BY <1>1, <2>1, <2>2, <3>1
    <3>3. stack'[t][(i - 1) + 1] = stack[t][i - 1]
      BY <2>1, <3>2
    <3>. QED
      BY <1>0, <2>2, <3>2, <3>3 DEF Has
  <2>. QED
    BY <1>2, <2>1, <2>2
<1>6. CASE Pop(t) /\ Top(t).kind # "none"
  <2>1. /\ \A v \in Threads \ {t} : stack'[v] = stack[v]
        /\ Len(stack'[t]) = Len(stack[t]) - 1
        /\ \A j \in 1 .. Len(stack'[t]) : stack'[t][j] = stack[t][j + 1]
    BY <1>6, PopFacts
  <2>2. CASE u = t
    <3>1. i + 1 \in 1 .. Len(stack[t])
      BY <1>1, <2>1, <2>2
    <3>. QED
      BY <1>0, <2>1, <2>2, <3>1 DEF Has
  <2>. QED
    BY <1>2, <2>1, <2>2
<1>7. CASE /\ Rethrow(t)
           /\ Frame("clear_signals", IF triedThrow THEN "exception" ELSE Top(t).kind) \in R
                => Top(t) \in R
  BY <1>3, <1>7, RethrowFacts
<1>8. CASE UNCHANGED stack
  BY <1>0, <1>8 DEF Has
<1>. QED
  BY <1>4, <1>5, <1>6, <1>7, <1>8 DEF Spares

\* The program's own call of clearErrorHandler does nothing but clear.
Clearing == {"clear_fun", "clear_term", "clear_sigs"}
Astray == {f \in Frames : f.kind = "user" /\ f.at \notin Clearing}

\* An activity that has terminate_mutex, or StackTrace_mutex.
Terminating ==
  {f \in Frames :
     /\ f.kind # "user"
     /\ f.at \in Clearing \union {"decide", "what", "walk", "print", "unlock"}}
Walking == {f \in Frames : f.at \in {"work", "walk"}}

\* The owner of a mutex has an activity that will give it back.
Owners ==
  /\ \A u \in Threads : ~Has(u, Astray)
  /\ tMutex # NoThread => tMutex \in Threads /\ Has(tMutex, Terminating)
  /\ stMutex # NoThread => stMutex \in Threads /\ Has(stMutex, Walking)

\* The running activity of t, if it is not one of R.
LEMMA TopSpared ==
  ASSUME Shape, NEW t \in Threads, NEW R, ~Has(t, R)
  PROVE  Top(t) \notin R
<1>1. 1 \in 1 .. Len(stack[t]) /\ Top(t) = stack[t][1]
  BY TopFacts
<1>. QED
  BY <1>1 DEF Has

\* A jump of t to a frame of R.
LEMMA JumpInto ==
  ASSUME Shape, NEW t \in Threads, NEW label \in Labels, Jump(t, label),
         label \in Basic <=> Top(t).at \in Basic, NEW R, Frame(label, Top(t).kind) \in R
  PROVE  Has(t, R)'
<1>1. stack'[t][1] = Frame(label, Top(t).kind) /\ Len(stack'[t]) = Len(stack[t])
  BY JumpFacts
<1>2. 1 \in 1 .. Len(stack'[t])
  BY <1>1, TopFacts
<1>. QED
  BY <1>1, <1>2 DEF Has

LEMMA OwnersStep == Shape /\ Owners /\ [Next]_vars => Owners'
<1> SUFFICES ASSUME Shape, Owners, [Next]_vars PROVE Owners'
  OBVIOUS
<1> USE DEF handlers, signals, ending, tracing
<1>1. ASSUME NEW t \in Threads PROVE /\ Top(t) \in Frames /\ Top(t) \notin Astray
                                     /\ Top(t).at \in Labels /\ Top(t).kind \in Kinds
  BY <1>1, TopFacts, TopSpared DEF Owners
<1>2. ASSUME NEW t \in Threads, Spares(t, Astray)
      PROVE  \A u \in Threads : ~Has(u, Astray)'
  BY <1>2, FrameSpared DEF Owners
\* A mutex is given back, or its owner keeps the frame that has it.
<1>3. ASSUME NEW t \in Threads,
             (Keeps(t, Terminating) /\ tMutex' = tMutex) \/ tMutex' = NoThread
      PROVE  (tMutex # NoThread => tMutex \in Threads /\ Has(tMutex, Terminating))'
  <2> SUFFICES ASSUME NEW u \in Threads, u = tMutex, tMutex' = u,
                      Keeps(t, Terminating), Has(u, Terminating)
               PROVE  Has(u, Terminating)'
    BY <1>3 DEF Owners, Has
  <2>. QED
    BY FrameKept
<1>4. ASSUME NEW t \in Threads,
             (Keeps(t, Walking) /\ stMutex' = stMutex) \/ stMutex' = NoThread
      PROVE  (stMutex # NoThread => stMutex \in Threads /\ Has(stMutex, Walking))'
  <2> SUFFICES ASSUME NEW u \in Threads, u = stMutex, stMutex' = u,
                      Keeps(t, Walking), Has(u, Walking)
               PROVE  Has(u, Walking)'
    BY <1>4 DEF Owners, Has
  <2>. QED
    BY FrameKept
<1>5. ASSUME NEW t \in Threads, Spares(t, Astray),
             Keeps(t, Terminating), tMutex' = tMutex,
             Keeps(t, Walking), stMutex' = stMutex
      PROVE  Owners'
  BY <1>2, <1>3, <1>4, <1>5 DEF Owners, Has
<1>6. ASSUME UNCHANGED <<stack, tMutex, stMutex>> PROVE Owners'
  BY <1>6 DEF Owners, Has
<1>7. ASSUME NEW t \in Threads, NEW label \in Labels, Jump(t, label),
             label \in Basic <=> Top(t).at \in Basic
      PROVE  /\ (Top(t).kind = "user" => label \in Clearing) => Spares(t, Astray)
             /\ (Top(t) \in Terminating => Frame(label, Top(t).kind) \in Terminating)
                  => Keeps(t, Terminating)
             /\ Top(t).at \notin {"work", "walk"} => Keeps(t, Walking)
  <2>1. (Top(t).kind = "user" => label \in Clearing) => Frame(label, Top(t).kind) \notin Astray
    BY DEF Astray, Frame
  <2>2. Top(t).at \notin {"work", "walk"} => Top(t) \notin Walking
    BY DEF Walking
  <2>. QED
    BY <1>7, <2>1, <2>2 DEF Spares, Keeps
<1>8. ASSUME NEW t \in Threads, NEW label \in Labels \ Basic, NEW kind \in Kinds,
             Push(t, label, kind), kind = "user" => label \in Clearing
      PROVE  Spares(t, Astray) /\ Keeps(t, Terminating) /\ Keeps(t, Walking)
  <2>1. Frame(label, kind) \notin Astray
    BY <1>8 DEF Astray, Frame
  <2>. QED
    BY <1>8, <2>1 DEF Spares, Keeps
<1>9. ASSUME UNCHANGED vars PROVE Owners'
  BY <1>6, <1>9 DEF vars
<1>10. ASSUME NEW t \in Threads,
              \/ SetErrorHandlers(t) \/ SetTerminate(t) \/ SetSignals(t)
              \/ ClearErrorHandlers(t) \/ ClearErrorHandler(t)
              \/ \E list : ClearSignalList(t, list)
       PROVE  Owners'
  <2>1. CASE ClearErrorHandlers(t) \/ \E list : ClearSignalList(t, list)
    BY <1>6, <2>1 DEF ClearErrorHandlers, ClearSignalList
  <2>2. CASE ClearErrorHandler(t)
    BY <1>5, <1>8, <2>2 DEF ClearErrorHandler, Labels, Basic, Kinds, Clearing
  <2>3. CASE SetErrorHandlers(t) \/ SetTerminate(t) \/ SetSignals(t)
    <3>1. \E label \in Basic : Jump(t, label)
      BY <2>3 DEF SetErrorHandlers, SetTerminate, SetSignals, Basic
    <3>2. Top(t).at \in Basic \ {"work"} /\ UNCHANGED <<tMutex, stMutex>>
      BY <2>3 DEF SetErrorHandlers, SetTerminate, SetSignals, At, Basic
    <3>3. Top(t) \notin Terminating /\ Top(t).kind # "user"
      BY <1>1, <3>2 DEF Terminating, Astray, Clearing, Basic
    <3>. QED
      BY <1>5, <1>7, <3>1, <3>2, <3>3 DEF Basic, Labels
  <2>. QED
    BY <1>10, <2>1, <2>2, <2>3
<1>11. ASSUME NEW t \in Threads, WorkBegin(t) PROVE Owners'
  <2>1. Jump(t, "work") /\ Top(t).at = "run" /\ stMutex' = t /\ tMutex' = tMutex
    BY <1>11 DEF WorkBegin, At
  <2>2. Top(t) \notin Terminating /\ Top(t).kind # "user"
    BY <1>1, <2>1 DEF Terminating, Astray, Clearing
  <2>3. Frame("work", Top(t).kind) \in Walking
    BY <1>1 DEF Walking, Frame, Frames, Labels
  <2>4. Has(t, Walking)'
    BY <2>1, <2>3, JumpInto DEF Labels, Basic
  <2>5. Spares(t, Astray) /\ Keeps(t, Terminating)
    BY <1>7, <2>1, <2>2 DEF Labels, Basic
  <2>. QED
    BY <1>2, <1>3, <2>1, <2>4, <2>5 DEF Owners, Has
<1>12. ASSUME NEW t \in Threads, WorkEnd(t) PROVE Owners'
  <2>1. Jump(t, "run") /\ Top(t).at = "work" /\ stMutex' = NoThread /\ tMutex' = tMutex
    BY <1>12 DEF WorkEnd, At
  <2>2. Top(t) \notin Terminating /\ Top(t).kind # "user"
    BY <1>1, <2>1 DEF Terminating, Astray, Clearing
  <2>3. Spares(t, Astray) /\ Keeps(t, Terminating)
    BY <1>7, <2>1, <2>2 DEF Labels, Basic
  <2>. QED
    BY <1>2, <1>3, <2>1, <2>3 DEF Owners, Has
<1>13. ASSUME NEW t \in Threads, NEW k \in Kinds \ {"user"},
              Deliver(t) \/ Throw(t, k) \/ MPIError(t) \/ Signal(t, k)
       PROVE  Owners'
  <2>1. /\ UNCHANGED <<tMutex, stMutex>>
        /\ \/ UNCHANGED stack
           \/ \E label \in Labels \ Basic, kind \in Kinds \ {"user"} : Push(t, label, kind)
    BY <1>13 DEF Deliver, Throw, MPIError, Signal, Labels, Basic, Kinds, Shape, Signals
  <2>. QED
    BY <1>5, <1>6, <1>8, <2>1
<1>14. ASSUME NEW t \in Threads, Rethrow(t) PROVE Owners'
  <2> DEFINE f == Frame("clear_signals", IF triedThrow THEN "exception" ELSE Top(t).kind)
  <2>1. Top(t).at = "rethrow" /\ UNCHANGED <<tMutex, stMutex>>
    BY <1>14 DEF Rethrow, At
  <2>2. Top(t) \notin Terminating /\ Top(t) \notin Walking /\ Top(t).kind # "user"
    BY <1>1, <2>1 DEF Terminating, Walking, Astray, Clearing
  <2>3. f \notin Astray
    BY <2>2 DEF Astray, Frame
  <2>4. Spares(t, Astray) /\ Keeps(t, Terminating) /\ Keeps(t, Walking)
    BY <1>14, <2>2, <2>3 DEF Spares, Keeps
  <2>. QED
    BY <1>5, <2>1, <2>4
<1>15. ASSUME NEW t \in Threads,
              \/ ClearSignals(t) \/ CallAbortFun(t) \/ ClearFun(t) \/ ClearTerm(t)
              \/ Decide(t) \/ PrintError(t) \/ Abort(t)
       PROVE  Owners'
  <2>0. UNCHANGED <<tMutex, stMutex>>
    BY <1>15 DEF ClearSignals, CallAbortFun, ClearFun, ClearTerm, Decide, PrintError, Abort
  <2>1. \/ UNCHANGED stack
        \/ Top(t).at = "abort_fun" /\ Pop(t) /\ Top(t).kind = "signal"
        \/ Top(t).at \in {"clear_signals", "abort_fun"}
             /\ \E label \in {"abort_fun", "lock"} : Jump(t, label)
        \/ Top(t).at \in {"clear_fun", "clear_term"}
             /\ \E label \in Clearing : Jump(t, label)
        \/ Top(t).at \in {"decide", "print"}
             /\ \E label \in {"what", "print", "unlock"} : Jump(t, label)
    BY <1>15 DEF ClearSignals, CallAbortFun, ClearFun, ClearTerm, Decide, PrintError, Abort,
                 At, Clearing
  <2>2. CASE UNCHANGED stack
    BY <1>6, <2>0, <2>2
  <2>3. CASE Top(t).at = "abort_fun" /\ Pop(t) /\ Top(t).kind = "signal"
    <3>1. Top(t) \notin Terminating /\ Top(t) \notin Walking
      BY <2>3 DEF Terminating, Walking, Clearing
    <3>. QED
      BY <1>5, <2>0, <2>3, <3>1 DEF Spares, Keeps
  <2>4. CASE Top(t).at \in {"clear_signals", "abort_fun"}
             /\ \E label \in {"abort_fun", "lock"} : Jump(t, label)
    <3>1. Top(t) \notin Terminating /\ Top(t).kind # "user"
      BY <1>1, <2>4 DEF Terminating, Astray, Clearing
    <3>. QED
      BY <1>5, <1>7, <2>0, <2>4, <3>1 DEF Labels, Basic
  <2>5. CASE Top(t).at \in {"clear_fun", "clear_term"}
             /\ \E label \in Clearing : Jump(t, label)
    <3>1. PICK label \in Clearing : Jump(t, label)
      BY <2>5
    <3>2. Top(t) \in Terminating => Frame(label, Top(t).kind) \in Terminating
      BY <1>1 DEF Terminating, Frame, Frames, Clearing, Labels
    <3>. QED
      BY <1>5, <1>7, <2>0, <2>5, <3>1, <3>2 DEF Labels, Basic, Clearing
  <2>6. CASE Top(t).at \in {"decide", "print"}
             /\ \E label \in {"what", "print", "unlock"} : Jump(t, label)
    <3>1. PICK label \in {"what", "print", "unlock"} : Jump(t, label)
      BY <2>6
    <3>2. Top(t) \in Terminating => Frame(label, Top(t).kind) \in Terminating
      BY <1>1 DEF Terminating, Frame, Frames, Labels
    <3>3. Top(t).kind # "user"
      BY <1>1, <2>6 DEF Astray, Clearing
    <3>. QED
      BY <1>5, <1>7, <2>0, <2>6, <3>1, <3>2, <3>3 DEF Labels, Basic
  <2>. QED
    BY <2>1, <2>2, <2>3, <2>4, <2>5, <2>6
\* Utilities::terminate takes and gives back its mutex.
<1>16. ASSUME NEW t \in Threads, Lock(t) PROVE Owners'
  <2>1. Jump(t, "clear_fun") /\ Top(t).at = "lock" /\ tMutex' = t /\ stMutex' = stMutex
    BY <1>16 DEF Lock, At
  <2>2. Top(t).kind # "user"
    BY <1>1, <2>1 DEF Astray, Clearing
  <2>3. Frame("clear_fun", Top(t).kind) \in Terminating
    BY <1>1, <2>2 DEF Terminating, Frame, Frames, Labels, Clearing
  <2>4. Has(t, Terminating)'
    BY <2>1, <2>3, JumpInto DEF Labels, Basic
  <2>5. Spares(t, Astray) /\ Keeps(t, Walking)
    BY <1>7, <2>1, <2>2 DEF Labels, Basic
  <2>. QED
    BY <1>2, <1>4, <2>1, <2>4, <2>5 DEF Owners, Has
<1>17. ASSUME NEW t \in Threads, ClearSigs(t) PROVE Owners'
  <2>1. /\ Top(t).at = "clear_sigs" /\ UNCHANGED <<tMutex, stMutex>>
        /\ IF Top(t).kind = "user" THEN Pop(t) ELSE Jump(t, "decide")
    BY <1>17 DEF ClearSigs, At
  <2>2. CASE Top(t).kind = "user"
    <3>1. Top(t) \notin Terminating /\ Top(t) \notin Walking
      BY <2>1, <2>2 DEF Terminating, Walking
    <3>. QED
      BY <1>5, <2>1, <2>2, <3>1 DEF Spares, Keeps
  <2>3. CASE Top(t).kind # "user"
    <3>1. Frame("decide", Top(t).kind) \in Terminating
      BY <1>1, <2>3 DEF Terminating, Frame, Frames, Labels
    <3>. QED
      BY <1>5, <1>7, <2>1, <2>3, <3>1 DEF Labels, Basic
  <2>. QED
    BY <2>2, <2>3
<1>18. ASSUME NEW t \in Threads, What(t) PROVE Owners'
  <2>1. Jump(t, "walk") /\ Top(t).at = "what" /\ stMutex' = t /\ tMutex' = tMutex
    BY <1>18 DEF What, At
  <2>2. Top(t).kind # "user"
    BY <1>1, <2>1 DEF Astray, Clearing
  <2>3. Frame("walk", Top(t).kind) \in Walking /\ Frame("walk", Top(t).kind) \in Terminating
    BY <1>1, <2>2 DEF Walking, Terminating, Frame, Frames, Labels
  <2>4. Has(t, Walking)'
    BY <2>1, <2>3, JumpInto DEF Labels, Basic
  <2>5. Spares(t, Astray) /\ Keeps(t, Terminating)
    BY <1>7, <2>1, <2>2, <2>3 DEF Labels, Basic
  <2>. QED
    BY <1>2, <1>3, <2>1, <2>4, <2>5 DEF Owners, Has
<1>19. ASSUME NEW t \in Threads, Walk(t) PROVE Owners'
  <2>1. Jump(t, "print") /\ Top(t).at = "walk" /\ stMutex' = NoThread /\ tMutex' = tMutex
    BY <1>19 DEF Walk, At
  <2>2. Top(t).kind # "user"
    BY <1>1, <2>1 DEF Astray, Clearing
  <2>3. Frame("print", Top(t).kind) \in Terminating
    BY <1>1, <2>2 DEF Terminating, Frame, Frames, Labels
  <2>4. Spares(t, Astray) /\ Keeps(t, Terminating)
    BY <1>7, <2>1, <2>2, <2>3 DEF Labels, Basic
  <2>. QED
    BY <1>2, <1>3, <2>1, <2>4 DEF Owners, Has
<1>20. ASSUME NEW t \in Threads, Unlock(t) PROVE Owners'
  <2>1. Jump(t, "abort") /\ Top(t).at = "unlock" /\ tMutex' = NoThread /\ stMutex' = stMutex
    BY <1>20 DEF Unlock, At
  <2>2. Top(t).kind # "user"
    BY <1>1, <2>1 DEF Astray, Clearing
  <2>3. Spares(t, Astray) /\ Keeps(t, Walking)
    BY <1>7, <2>1, <2>2 DEF Labels, Basic
  <2>. QED
    BY <1>2, <1>4, <2>1, <2>3 DEF Owners, Has
<1>21. CASE Next
  BY <1>9, <1>10, <1>11, <1>12, <1>13, <1>14, <1>15, <1>16, <1>17, <1>18, <1>19, <1>20,
     <1>21, TerminationAssumption DEF Next, Step, Dead, Kinds
<1>. QED
  BY <1>9, <1>21

\* Utilities::terminate takes terminate_mutex and then, in what(), StackTrace_mutex,
\* and backtrace takes only the second: threads that wait for each other, or one
\* that waits for itself, can only come of a signal that struck a thread between
\* the lock and the unlock of one of them.
THEOREM DeadlockOnlyInterrupted == Spec => [](Deadlocked => OwnerInterrupted)
<1>1. Init => Owners
  <2> SUFFICES ASSUME Init PROVE Owners
    OBVIOUS
  <2>1. ASSUME NEW u \in Threads, NEW i \in 1 .. Len(stack[u]) PROVE stack[u][i].kind = "none"
    <3> DEFINE f == Frame("run", "none")
    <3>1. f.kind = "none" /\ stack = [t \in Threads |-> <<f>>]
      BY DEF Init, Frame
    <3> HIDE DEF f
    <3>. QED
      BY <3>1
  <2>. QED
    BY <2>1 DEF Init, Owners, Has, Astray
<1>2. Shape /\ Owners => (Deadlocked => OwnerInterrupted)
  <2> SUFFICES ASSUME Shape, Owners, Deadlocked PROVE OwnerInterrupted
    OBVIOUS
  <2>1. PICK C \in SUBSET Threads : C # {} /\ \A t \in C : WaitsFor(t) \in C
    BY DEF Deadlocked
  <2>2. \A t \in C : Top(t).at \in {"lock", "what"}
    BY <2>1, TerminationAssumption DEF WaitsFor
  \* An owner that waits has its mutex further down.
  <2>3. ASSUME NEW u \in C, NEW R, Has(u, R),
               \A f \in R : f.at \in Owning, Top(u) \notin R
        PROVE  OwnerInterrupted
    <3>1. PICK i \in 1 .. Len(stack[u]) : stack[u][i] \in R
      BY <2>3 DEF Has
    <3>2. /\ Top(u) = stack[u][1]
          /\ \A j \in 1 .. Len(stack[u]) : j = 1 \/ j \in 2 .. Len(stack[u])
      BY TopFacts
    <3>3. i \in 2 .. Len(stack[u]) /\ stack[u][i].at \in Owning
      BY <2>3, <3>1, <3>2
    <3>. QED
      BY <3>3 DEF OwnerInterrupted
  <2>4. CASE \E t \in C : Top(t).at = "what"
    <3>1. stMutex \in C /\ Has(stMutex, Walking)
      BY <2>1, <2>4, TerminationAssumption DEF WaitsFor, Owners
    <3>2. Top(stMutex) \notin Walking
      BY <2>2, <3>1 DEF Walking
    <3>3. \A f \in Walking : f.at \in Owning
      BY DEF Walking, Owning
    <3>. QED
      BY <2>3, <3>1, <3>2, <3>3
  <2>5. CASE \A t \in C : Top(t).at = "lock"
    <3>1. tMutex \in C /\ Has(tMutex, Terminating)
      BY <2>1, <2>5, TerminationAssumption DEF WaitsFor, Owners
    <3>2. Top(tMutex) \notin Terminating
      BY <2>5, <3>1 DEF Terminating, Clearing
    <3>3. \A f \in Terminating : f.at \in Owning
      BY DEF Terminating, Clearing, Owning
    <3>. QED
      BY <2>3, <3>1, <3>2, <3>3
  <2>. QED
    BY <2>2, <2>4, <2>5
<1>. QED
  BY <1>1, <1>2, ShapeInit, ShapeStep, OwnersStep, PTL DEF Spec
=============================================================================
