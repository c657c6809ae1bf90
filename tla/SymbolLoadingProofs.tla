------------------------ MODULE SymbolLoadingProofs ------------------------
(* The symbol cache and its commands, for any threads and any number of     *)
(* calls: types, the disposition of SIGCHLD, and what an empty table means. *)
EXTENDS SymbolLoading, TLAPS

-----------------------------------------------------------------------------
(* Types *)

LEMMA TypeInit == Init => TypeOK
<1> SUFFICES ASSUME Init PROVE TypeOK
  OBVIOUS
<1> USE LoadingAssumption DEF Init, Threads
<1>1. Cache!TypeOK
  BY DEF Cache!Init, Cache!TypeOK, Cache!Threads
<1>2. calls \in [Threads -> 0 .. MaxCalls]
  BY DEF Child!Init
<1>3. Child!TypeOK
  BY <1>2 DEF Child!Init, Child!TypeOK
<1>. QED
  BY <1>1, <1>3 DEF TypeOK

\* A step of the cache keeps the types of the cache.
LEMMA CacheTypes ==
  ASSUME Cache!TypeOK, NEW t \in Threads,
         \/ t \in Users /\ (Cache!Lock(t, "test") \/ Cache!Lock(t, "clear"))
         \/ t \in Decoders /\ Cache!Decode(t)
         \/ Cache!Step(t)
         \/ Cache!RunNm(t)
         \/ \E found \in {"empty", "table"} : Cache!Assign(t, found)
  PROVE  Cache!TypeOK'
<1> USE LoadingAssumption DEF Cache!TypeOK, Threads, Cache!Threads, Cache!Goto
<1>1. CASE t \in Users /\ (Cache!Lock(t, "test") \/ Cache!Lock(t, "clear"))
  BY <1>1 DEF Cache!Lock
<1>2. CASE t \in Decoders /\ Cache!Decode(t)
  BY <1>2 DEF Cache!Decode
<1>3. CASE Cache!Test(t, Cache!Then(t))
  BY <1>3 DEF Cache!Test, Cache!Then
<1>4. CASE Cache!Flag(t, Cache!Then(t))
  BY <1>4 DEF Cache!Flag, Cache!Then
<1>5. CASE Cache!CopyData(t)
  BY <1>5 DEF Cache!CopyData
<1>6. CASE Cache!Unlock(t)
  BY <1>6 DEF Cache!Unlock
<1>7. CASE Cache!Clear(t) \/ Cache!ClearAssign(t) \/ Cache!ClearFlag(t)
  BY <1>7 DEF Cache!Clear, Cache!ClearAssign, Cache!ClearFlag
<1>8. CASE Cache!Search(t)
  BY <1>8 DEF Cache!Search
<1>9. CASE Cache!RunNm(t)
  BY <1>9 DEF Cache!RunNm
<1>10. CASE \E found \in {"empty", "table"} : Cache!Assign(t, found)
  BY <1>10 DEF Cache!Assign
<1>. QED
  BY <1>1, <1>2, <1>3, <1>4, <1>5, <1>6, <1>7, <1>8, <1>9, <1>10 DEF Cache!Step

\* A step of a command keeps the types of the commands.
LEMMA ChildTypes ==
  ASSUME Child!TypeOK, NEW t \in Threads,
         \/ Child!SaveAndIgnore(t) \/ Child!Popen(t) \/ Child!PopenFail(t)
         \/ Child!ChildExits(t) \/ Child!Pclose(t) \/ Child!Restore(t)
  PROVE  Child!TypeOK'
<1> USE LoadingAssumption DEF Child!TypeOK, Child!Goto
<1>1. CASE Child!SaveAndIgnore(t)
  <2>1. calls' \in [Threads -> 0 .. MaxCalls]
    BY <1>1 DEF Child!SaveAndIgnore
  <2>2. overlap' \in BOOLEAN
    BY <1>1 DEF Child!SaveAndIgnore
  <2>. QED
    BY <1>1, <2>1, <2>2 DEF Child!SaveAndIgnore
<1>2. CASE Child!Popen(t)
  BY <1>2 DEF Child!Popen
<1>3. CASE Child!PopenFail(t)
  BY <1>3 DEF Child!PopenFail
<1>4. CASE Child!ChildExits(t)
  BY <1>4 DEF Child!ChildExits
<1>5. CASE Child!Pclose(t)
  BY <1>5 DEF Child!Pclose
<1>6. CASE Child!Restore(t)
  BY <1>6 DEF Child!Restore
<1>. QED
  BY <1>1, <1>2, <1>3, <1>4, <1>5, <1>6

\* Every step of the composition is one of the cache by a thread, one of a
\* command, or both at the end of nm.
LEMMA Parts ==
  ASSUME Next
  PROVE  \E t \in Threads :
           \/ /\ CacheStep
              /\ \/ t \in Users /\ Cache!Lock(t, "test") /\ Free(t)
                 \/ t \in Users /\ Cache!Lock(t, "clear") /\ Free(t)
                 \/ t \in Decoders /\ Cache!Decode(t)
                 \/ Cache!Step(t)
                 \/ Store(t)
           \/ /\ ChildStep
              /\ \/ Child!SaveAndIgnore(t) \/ Child!Popen(t) \/ Child!Pclose(t)
                 \/ Child!PopenFail(t) \/ Child!Restore(t) \/ Child!ChildExits(t)
           \/ NmEnds(t)
<1>1. CASE \E t \in Users : Free(t) /\ (GetSymbols(t) \/ ClearSymbols(t))
  BY <1>1 DEF GetSymbols, ClearSymbols, Threads
<1>2. CASE \E t \in Decoders : Free(t) /\ DecodeAddress(t)
  BY <1>2 DEF DecodeAddress, Threads
<1>3. CASE \E t \in Callers : Free(t) /\ CommandBegins(t)
  BY <1>3, LoadingAssumption DEF CommandBegins, Threads
<1>4. ASSUME NEW t \in Threads, Step(t) \/ ChildExits(t)
      PROVE  \/ CacheStep /\ (Cache!Step(t) \/ Store(t))
             \/ ChildStep /\ (\/ Child!SaveAndIgnore(t) \/ Child!Popen(t)
                              \/ Child!Pclose(t) \/ Child!PopenFail(t)
                              \/ Child!Restore(t) \/ Child!ChildExits(t))
             \/ NmEnds(t)
  BY <1>4 DEF Step, NmBegins, Store, Command, CommandEnds, ChildExits, Child!Step
<1>. QED
  BY <1>1, <1>2, <1>3, <1>4 DEF Next

LEMMA TypeStep == TypeOK /\ [Next]_vars => TypeOK'
<1> SUFFICES ASSUME TypeOK, [Next]_vars PROVE TypeOK'
  OBVIOUS
<1>1. CASE UNCHANGED vars
  BY <1>1 DEF vars, cacheVars, childVars, TypeOK, Cache!TypeOK, Child!TypeOK
<1>2. CASE Next
  <2>1. PICK t \in Threads :
           \/ /\ CacheStep
              /\ \/ t \in Users /\ Cache!Lock(t, "test") /\ Free(t)
                 \/ t \in Users /\ Cache!Lock(t, "clear") /\ Free(t)
                 \/ t \in Decoders /\ Cache!Decode(t)
                 \/ Cache!Step(t)
                 \/ Store(t)
           \/ /\ ChildStep
              /\ \/ Child!SaveAndIgnore(t) \/ Child!Popen(t) \/ Child!Pclose(t)
                 \/ Child!PopenFail(t) \/ Child!Restore(t) \/ Child!ChildExits(t)
           \/ NmEnds(t)
    BY <1>2, Parts
  <2>2. CASE CacheStep /\ (\/ t \in Users /\ Cache!Lock(t, "test") /\ Free(t)
                           \/ t \in Users /\ Cache!Lock(t, "clear") /\ Free(t)
                           \/ t \in Decoders /\ Cache!Decode(t)
                           \/ Cache!Step(t)
                           \/ Store(t))
    <3>1. Store(t) => \E found \in {"empty", "table"} : Cache!Assign(t, found)
      BY DEF Store
    <3>2. Cache!TypeOK'
      BY <2>2, <3>1, CacheTypes DEF TypeOK
    <3>3. Child!TypeOK' /\ mixed' \in BOOLEAN
      BY <2>2 DEF CacheStep, childVars, TypeOK, Child!TypeOK
    <3>. QED
      BY <3>2, <3>3 DEF TypeOK
  <2>3. CASE ChildStep /\ (\/ Child!SaveAndIgnore(t) \/ Child!Popen(t)
                           \/ Child!Pclose(t) \/ Child!PopenFail(t)
                           \/ Child!Restore(t) \/ Child!ChildExits(t))
    <3>1. Child!TypeOK'
      BY <2>3, ChildTypes DEF TypeOK
    <3>2. Cache!TypeOK' /\ mixed' \in BOOLEAN
      BY <2>3 DEF ChildStep, cacheVars, TypeOK, Cache!TypeOK
    <3>. QED
      BY <3>1, <3>2 DEF TypeOK
  <2>4. CASE NmEnds(t)
    <3>1. Cache!TypeOK'
      BY <2>4, CacheTypes DEF NmEnds, TypeOK
    <3>2. Child!TypeOK'
      BY <2>4, ChildTypes DEF NmEnds, TypeOK
    <3>3. mixed' \in BOOLEAN
      BY <2>4 DEF NmEnds, TypeOK
    <3>. QED
      BY <3>1, <3>2, <3>3 DEF TypeOK
  <2>. QED
    BY <2>1, <2>2, <2>3, <2>4
<1>. QED
  BY <1>1, <1>2

\* The variables keep their types, a user at work owns StackTrace_mutex and a
\* decoder never does, and a call of exec2 has a child just while it reads.
THEOREM TypeCorrect == Spec => []TypeOK
<1>. QED
  BY TypeInit, TypeStep, PTL DEF Spec

-----------------------------------------------------------------------------
(* The disposition of SIGCHLD *)

\* Without an overlap there is at most one call, the signal is ignored during
\* it, and what it saved is the program's disposition.
Calm ==
  /\ \A s, t \in Threads : at[s] # "idle" /\ at[t] # "idle" => s = t
  /\ \A t \in Threads : at[t] # "idle" => chld = "ignore"
  /\ ~handled
  /\ ~failed => /\ Child!Quiet => chld = "program"
                /\ \A t \in Threads : at[t] # "idle" => saved[t] = "program"

CalmInv == ~overlap => Calm

LEMMA CalmStep == TypeOK /\ CalmInv /\ [Next]_vars => CalmInv'
<1> SUFFICES ASSUME TypeOK, CalmInv, [Next]_vars, ~overlap' PROVE Calm'
  BY DEF CalmInv
<1> USE DEF Child!TypeOK, Child!Goto
<1>0. ASSUME UNCHANGED childVars PROVE Calm'
  BY <1>0 DEF childVars, CalmInv, Calm, Child!Quiet
<1>1. CASE UNCHANGED vars
  BY <1>0, <1>1 DEF vars
<1>2. ASSUME NEW t \in Threads,
             \/ Child!SaveAndIgnore(t) \/ Child!Popen(t) \/ Child!Pclose(t)
             \/ Child!PopenFail(t) \/ Child!Restore(t) \/ Child!ChildExits(t)
      PROVE  Calm'
  <2>1. ~overlap /\ Calm
    BY <1>2 DEF Child!SaveAndIgnore, Child!Popen, Child!Pclose, Child!PopenFail,
                Child!Restore, Child!ChildExits, TypeOK, CalmInv
  <2>2. CASE Child!SaveAndIgnore(t)
    <3>1. Child!Quiet
      BY <1>2, <2>2 DEF Child!SaveAndIgnore, Child!Quiet
    <3>. QED
      BY <2>1, <2>2, <3>1 DEF Child!SaveAndIgnore, Child!Quiet, Calm, TypeOK
  <2>3. CASE Child!Popen(t)
    BY <2>1, <2>3 DEF Child!Popen, Child!Quiet, Calm, TypeOK
  <2>4. CASE Child!Pclose(t)
    BY <2>1, <2>4 DEF Child!Pclose, Child!Quiet, Calm, TypeOK
  <2>5. CASE Child!PopenFail(t)
    BY <2>1, <2>5 DEF Child!PopenFail, Child!Quiet, Calm, TypeOK
  <2>6. CASE Child!Restore(t)
    BY <2>1, <2>6 DEF Child!Restore, Child!Quiet, Calm, TypeOK
  <2>7. CASE Child!ChildExits(t)
    <3>1. at[t] = "read"
      BY <2>7 DEF Child!ChildExits, TypeOK
    <3>. QED
      BY <2>1, <2>7, <3>1 DEF Child!ChildExits, Child!Quiet, Calm, TypeOK
  <2>. QED
    BY <1>2, <2>2, <2>3, <2>4, <2>5, <2>6, <2>7
<1>3. CASE Next
  BY <1>0, <1>2, <1>3, Parts DEF CacheStep, NmEnds
<1>. QED
  BY <1>1, <1>3

LEMMA CalmAlways == Spec => [](TypeOK /\ CalmInv)
<1>1. Init => CalmInv
  BY DEF Init, Child!Init, CalmInv, Calm
<1>. QED
  BY <1>1, TypeInit, TypeStep, CalmStep, PTL DEF Spec

\* exec2 gives the program its SIGCHLD disposition back, whatever threads run
\* however many commands, as long as no two overlap and popen does not fail.
THEOREM RestoredUnlessOverlapHolds == Spec => []RestoredUnlessOverlap
<1>1. CalmInv => RestoredUnlessOverlap
  BY DEF CalmInv, Calm, RestoredUnlessOverlap, Child!RestoredUnlessOverlap
<1>. QED
  BY <1>1, CalmAlways, PTL

\* The program's own SIGCHLD handler runs for a child of exec2 only when two
\* calls overlapped.
THEOREM HandlerOnlyOnOverlapHolds == Spec => []HandlerOnlyOnOverlap
<1>1. TypeOK /\ CalmInv => HandlerOnlyOnOverlap
  BY DEF CalmInv, Calm, HandlerOnlyOnOverlap, Child!HandlerOnlyOnOverlap
<1>. QED
  BY <1>1, CalmAlways, PTL

-----------------------------------------------------------------------------
(* What an empty table means *)

\* Before the first failure, and as long as no decoder met a user, every nm has
\* been run, and a table marked as loaded is that of nm, but for the moment
\* between the two stores of clearSymbols.
Filled ==
  /\ ~Mixing(pc)
  /\ \A t \in Threads : exit[t] # "failed"
  /\ \A t \in Threads : pc[t] = "flag" => data = "table"
  /\ loaded /\ (\A u \in Users : pc[u] # "clear_flag") => data = "table"

FilledInv == ~failed /\ ~mixed => Filled

LEMMA FilledStep == TypeOK /\ FilledInv /\ [Next]_vars => FilledInv'
<1> SUFFICES ASSUME TypeOK, FilledInv, [Next]_vars, ~failed', ~mixed'
             PROVE  Filled'
  BY DEF FilledInv
<1> USE LoadingAssumption DEF Threads, Cache!Threads, Cache!Goto
<1>1. CASE UNCHANGED vars
  BY <1>1 DEF vars, cacheVars, childVars, FilledInv, Filled, Mixing
<1>2. ASSUME NEW t \in Threads, CacheStep,
             \/ t \in Users /\ Cache!Lock(t, "test") /\ Free(t)
             \/ t \in Users /\ Cache!Lock(t, "clear") /\ Free(t)
             \/ t \in Decoders /\ Cache!Decode(t)
             \/ Cache!Step(t)
             \/ Store(t)
      PROVE  Filled'
  <2>1. /\ Filled
        /\ ~Mixing(pc')
        /\ \A s \in Threads : exit'[s] # "failed"
    BY <1>2 DEF CacheStep, childVars, FilledInv, Filled, TypeOK
  <2>2. ~Mixing(pc)'
    BY <2>1 DEF Mixing
  <2> USE DEF TypeOK, Cache!TypeOK
  <2>3. CASE t \in Users /\ (Cache!Lock(t, "test") \/ Cache!Lock(t, "clear"))
    BY <2>1, <2>2, <2>3 DEF Cache!Lock, Filled
  <2>4. CASE t \in Decoders /\ Cache!Decode(t)
    BY <2>1, <2>2, <2>4 DEF Cache!Decode, Filled
  <2>5. CASE Cache!Test(t, Cache!Then(t))
    BY <2>1, <2>2, <2>5 DEF Cache!Test, Cache!Then, Filled
  <2>6. CASE Cache!Flag(t, Cache!Then(t))
    BY <2>1, <2>2, <2>6 DEF Cache!Flag, Cache!Then, Filled
  <2>7. CASE Cache!CopyData(t) \/ Cache!Unlock(t)
    BY <2>1, <2>2, <2>7 DEF Cache!CopyData, Cache!Unlock, Filled
  <2>8. CASE Cache!Clear(t)
    BY <2>1, <2>2, <2>8 DEF Cache!Clear, Filled
  <2>9. CASE Cache!ClearAssign(t)
    <3>1. t \in Users /\ mutex = t
      BY <2>9 DEF Cache!ClearAssign
    <3>2. ASSUME NEW s \in Threads PROVE pc'[s] # "flag"
      BY <2>1, <2>9, <3>1, <3>2 DEF Cache!ClearAssign, Mixing
    <3>. QED
      BY <2>1, <2>2, <2>9, <3>1, <3>2 DEF Cache!ClearAssign, Filled
  <2>10. CASE Cache!ClearFlag(t)
    BY <2>1, <2>2, <2>10 DEF Cache!ClearFlag, Filled
  <2>11. CASE Cache!Search(t)
    BY <2>1, <2>2, <2>11 DEF Cache!Search, Filled
  <2>12. CASE Store(t)
    BY <2>1, <2>2, <2>12 DEF Store, Cache!Assign, Filled
  <2>. QED
    BY <1>2, <2>3, <2>4, <2>5, <2>6, <2>7, <2>8, <2>9, <2>10, <2>11, <2>12
       DEF Cache!Step
<1>3. ASSUME NEW t \in Threads,
             \/ Child!SaveAndIgnore(t) \/ Child!Popen(t) \/ Child!Pclose(t)
             \/ Child!PopenFail(t) \/ Child!Restore(t) \/ Child!ChildExits(t)
      PROVE  ~failed /\ (~mixed /\ Filled => \A s \in Threads : exit'[s] # "failed")
  BY <1>3 DEF Child!SaveAndIgnore, Child!Popen, Child!Pclose, Child!PopenFail,
              Child!Restore, Child!ChildExits, TypeOK, Child!TypeOK, Filled
<1>4. ASSUME NEW t \in Threads, ChildStep,
             \/ Child!SaveAndIgnore(t) \/ Child!Popen(t) \/ Child!Pclose(t)
             \/ Child!PopenFail(t) \/ Child!Restore(t) \/ Child!ChildExits(t)
      PROVE  Filled'
  BY <1>3, <1>4 DEF ChildStep, cacheVars, FilledInv, Filled, Mixing
<1>5. ASSUME NEW t \in Threads, NmEnds(t)
      PROVE  Filled'
  <2>1. Filled /\ ~mixed
    BY <1>3, <1>5 DEF NmEnds, FilledInv, TypeOK
  <2>2. ~Mixing(pc)'
    BY <1>5, <2>1 DEF NmEnds, Mixing
  <2>3. \A s \in Threads : exit'[s] # "failed"
    BY <1>3, <1>5, <2>1 DEF NmEnds
  <2>. QED
    BY <1>5, <2>1, <2>2, <2>3 DEF NmEnds, Cache!RunNm, Filled, TypeOK, Cache!TypeOK
<1>6. CASE Next
  BY <1>2, <1>4, <1>5, <1>6, Parts
<1>. QED
  BY <1>1, <1>6

\* The cache that everybody sees when nobody is at work is filled from nm, for
\* any threads and calls, but after a failing popen and a decoder among users.
THEOREM EmptyOnlyAfterFailureHolds == Spec => []EmptyOnlyAfterFailure
<1>1. Init => FilledInv
  BY LoadingAssumption
  DEF Init, Cache!Init, Child!Init, FilledInv, Filled, Mixing, Threads, Cache!Threads
<1>2. TypeOK /\ FilledInv => EmptyOnlyAfterFailure
  BY LoadingAssumption
  DEF TypeOK, Cache!TypeOK, FilledInv, Filled, EmptyOnlyAfterFailure
<1>. QED
  BY <1>1, <1>2, TypeInit, TypeStep, FilledStep, PTL DEF Spec

-----------------------------------------------------------------------------
(* What getSymbols returns *)

\* getSymbols hands out the symbols of the executable: its copy is not empty,
\* unless popen failed or a decoder filled the cache while a user was at work.
CopiesFilled ==
  \A t \in Users : pc[t] = "unlock" /\ result[t] = "empty" => failed \/ mixed

\* A user copies a loaded table, and holds a copy only until it returns.
Copied ==
  \A t \in Users :
    /\ pc[t] = "copy" => loaded
    /\ pc[t] # "unlock" => result[t] = "none"
    /\ result[t] = "empty" => failed \/ mixed

LEMMA CopiedStep == TypeOK /\ FilledInv /\ Copied /\ [Next]_vars => Copied'
<1> SUFFICES ASSUME TypeOK, FilledInv, Copied, [Next]_vars PROVE Copied'
  OBVIOUS
<1> USE LoadingAssumption DEF Threads, Cache!Threads, Cache!Goto, Copied
<1>1. CASE UNCHANGED vars
  BY <1>1 DEF vars, cacheVars, childVars
<1>2. ASSUME NEW t \in Threads, CacheStep,
             \/ t \in Users /\ Cache!Lock(t, "test") /\ Free(t)
             \/ t \in Users /\ Cache!Lock(t, "clear") /\ Free(t)
             \/ t \in Decoders /\ Cache!Decode(t)
             \/ Cache!Step(t)
             \/ Store(t)
      PROVE  Copied'
  <2>1. failed' = failed /\ (mixed => mixed')
    BY <1>2 DEF CacheStep, childVars
  <2> USE DEF TypeOK, Cache!TypeOK
  <2>2. CASE t \in Users /\ (Cache!Lock(t, "test") \/ Cache!Lock(t, "clear"))
    BY <2>1, <2>2 DEF Cache!Lock
  <2>3. CASE t \in Decoders /\ Cache!Decode(t)
    BY <2>1, <2>3 DEF Cache!Decode
  <2>4. CASE Cache!Test(t, Cache!Then(t))
    BY <2>1, <2>4 DEF Cache!Test, Cache!Then
  <2>5. CASE Cache!Flag(t, Cache!Then(t))
    BY <2>1, <2>5 DEF Cache!Flag, Cache!Then
  <2>6. CASE Cache!CopyData(t)
    <3>1. t \in Users /\ mutex = t /\ loaded
      BY <2>6 DEF Cache!CopyData
    <3>2. \A u \in Users : pc[u] # "clear_flag"
      BY <2>6, <3>1 DEF Cache!CopyData
    <3>3. data = "empty" => failed \/ mixed
      BY <3>1, <3>2 DEF FilledInv, Filled
    <3>. QED
      BY <2>1, <2>6, <3>1, <3>3 DEF Cache!CopyData
  <2>7. CASE Cache!Unlock(t)
    BY <2>1, <2>7 DEF Cache!Unlock
  <2>8. CASE Cache!Clear(t) \/ Cache!ClearAssign(t)
    BY <2>1, <2>8 DEF Cache!Clear, Cache!ClearAssign
  <2>9. CASE Cache!ClearFlag(t)
    <3>1. \A u \in Users : u # t => pc[u] # "copy"
      BY <2>9 DEF Cache!ClearFlag
    <3>. QED
      BY <2>1, <2>9, <3>1 DEF Cache!ClearFlag
  <2>10. CASE Cache!Search(t)
    BY <2>1, <2>10 DEF Cache!Search
  <2>11. CASE Store(t)
    BY <2>1, <2>11 DEF Store, Cache!Assign
  <2>. QED
    BY <1>2, <2>2, <2>3, <2>4, <2>5, <2>6, <2>7, <2>8, <2>9, <2>10, <2>11
       DEF Cache!Step
<1>3. ASSUME NEW t \in Threads,
             \/ Child!SaveAndIgnore(t) \/ Child!Popen(t) \/ Child!Pclose(t)
             \/ Child!PopenFail(t) \/ Child!Restore(t) \/ Child!ChildExits(t)
      PROVE  failed => failed'
  BY <1>3 DEF Child!SaveAndIgnore, Child!Popen, Child!Pclose, Child!PopenFail,
              Child!Restore, Child!ChildExits
<1>4. ASSUME NEW t \in Threads, ChildStep,
             \/ Child!SaveAndIgnore(t) \/ Child!Popen(t) \/ Child!Pclose(t)
             \/ Child!PopenFail(t) \/ Child!Restore(t) \/ Child!ChildExits(t)
      PROVE  Copied'
  BY <1>3, <1>4 DEF ChildStep, cacheVars
<1>5. ASSUME NEW t \in Threads, NmEnds(t) PROVE Copied'
  <2>1. failed => failed'
    BY <1>3, <1>5 DEF NmEnds
  <2>. QED
    BY <1>5, <2>1 DEF NmEnds, Cache!RunNm, TypeOK, Cache!TypeOK
<1>6. CASE Next
  BY <1>2, <1>4, <1>5, <1>6, Parts
<1>. QED
  BY <1>1, <1>6

\* What getSymbols returns is what nm printed, whatever threads get, clear and
\* decode in between, but for the two known exceptions.
THEOREM CopiesFilledHolds == Spec => []CopiesFilled
<1>1. Init => FilledInv /\ Copied
  BY LoadingAssumption
  DEF Init, Cache!Init, Child!Init, FilledInv, Filled, Mixing, Threads, Cache!Threads,
      Copied
<1>2. Copied => CopiesFilled
  BY DEF Copied, CopiesFilled
<1>. QED
  BY <1>1, <1>2, TypeInit, TypeStep, FilledStep, CopiedStep, PTL DEF Spec

-----------------------------------------------------------------------------
(* How long StackTrace_mutex is held *)

\* The steps a user has left before it gives StackTrace_mutex back.
Distance(t) ==
  CASE pc[t] = "test" -> 12
    [] pc[t] = "nm" /\ at[t] = "idle" -> 11
    [] pc[t] = "nm" /\ at[t] = "popen" -> 10
    [] pc[t] = "nm" /\ at[t] = "read" /\ child[t] = "running" -> 9
    [] pc[t] = "nm" /\ at[t] = "read" /\ child[t] # "running" -> 8
    [] pc[t] = "nm" /\ at[t] = "restore" -> 7
    [] pc[t] = "assign" -> 6
    [] pc[t] = "flag" -> 5
    [] pc[t] \in {"copy", "clear"} -> 4
    [] pc[t] = "clear_assign" -> 3
    [] pc[t] = "clear_flag" -> 2
    [] pc[t] = "unlock" -> 1
    [] OTHER -> 0

\* Every step of the owner of StackTrace_mutex, and of its command, brings it
\* closer to the unlock, and no step of another thread sets it back.
OwnerNears ==
  [][\A t \in Users : mutex = t =>
       /\ Distance(t)' <= Distance(t)
       /\ Step(t) \/ ChildExits(t) => Distance(t)' < Distance(t)]_vars

\* The owner of StackTrace_mutex has no command under way but the one it needs,
\* and can begin that one.
Alone ==
  /\ \A t \in Users : pc[t] \notin {"idle", "nm"} => at[t] = "idle"
  /\ \A t \in Users : pc[t] \in {"test", "nm"} /\ at[t] = "idle" => calls[t] < MaxCalls

LEMMA AloneStep == TypeOK /\ Alone /\ [Next]_vars => Alone'
<1> SUFFICES ASSUME TypeOK, Alone, [Next]_vars PROVE Alone'
  OBVIOUS
<1> USE LoadingAssumption
    DEF Threads, Cache!Threads, Cache!Goto, Child!Goto, Alone, TypeOK, Cache!TypeOK,
        Child!TypeOK
<1>1. CASE UNCHANGED vars
  BY <1>1 DEF vars, cacheVars, childVars
<1>2. CASE \E t \in Users : Free(t) /\ (GetSymbols(t) \/ ClearSymbols(t))
  BY <1>2 DEF GetSymbols, ClearSymbols, Free, Cache!Lock, CacheStep, childVars
<1>3. CASE \E t \in Decoders : Free(t) /\ DecodeAddress(t)
  BY <1>3 DEF DecodeAddress, Cache!Decode, CacheStep, childVars
<1>4. ASSUME NEW t \in Threads, CacheStep, Cache!Step(t) \/ Store(t) PROVE Alone'
  <2> USE DEF CacheStep, childVars
  <2>1. CASE Cache!Test(t, Cache!Then(t)) \/ Cache!Flag(t, Cache!Then(t))
    BY <1>4, <2>1 DEF Cache!Test, Cache!Flag, Cache!Then
  <2>2. CASE Cache!CopyData(t) \/ Cache!Unlock(t)
    BY <1>4, <2>2 DEF Cache!CopyData, Cache!Unlock
  <2>3. CASE Cache!Clear(t) \/ Cache!ClearAssign(t) \/ Cache!ClearFlag(t)
    BY <1>4, <2>3 DEF Cache!Clear, Cache!ClearAssign, Cache!ClearFlag
  <2>4. CASE Cache!Search(t) \/ Store(t)
    BY <1>4, <2>4 DEF Cache!Search, Store, Cache!Assign
  <2>. QED
    BY <1>4, <2>1, <2>2, <2>3, <2>4 DEF Cache!Step
<1>5. ASSUME NEW t \in Threads, pc[t] = "idle" \/ pc[t] = "nm", ChildStep,
             Child!SaveAndIgnore(t)
      PROVE  Alone'
  BY <1>5 DEF ChildStep, cacheVars, Child!SaveAndIgnore
<1>6. ASSUME NEW t \in Threads, ChildStep,
             Child!Popen(t) \/ Child!Pclose(t) \/ Child!ChildExits(t)
      PROVE  Alone'
  BY <1>6 DEF ChildStep, cacheVars, Child!Popen, Child!Pclose, Child!ChildExits
<1>7. ASSUME NEW t \in Threads, pc[t] = "idle", ChildStep,
             Child!Restore(t) \/ Child!PopenFail(t)
      PROVE  Alone'
  BY <1>7 DEF ChildStep, cacheVars, Child!Restore, Child!PopenFail
<1>8. ASSUME NEW t \in Threads, NmEnds(t) PROVE Alone'
  BY <1>8 DEF NmEnds, Cache!RunNm, Child!Restore, Child!PopenFail
<1>9. ASSUME NEW t \in Threads, Step(t) \/ ChildExits(t) PROVE Alone'
  <2>1. CASE Cache!Step(t) /\ CacheStep
    BY ONLY <1>4, <2>1, <1>9
  <2>2. CASE Store(t)
    BY ONLY <1>4, <2>2, <1>9 DEF Store
  <2>3. CASE NmBegins(t)
    BY ONLY <1>5, <2>3, <1>9 DEF NmBegins
  <2>4. CASE Command(t) \/ ChildExits(t)
    BY ONLY <1>6, <2>4, <1>9 DEF Command, ChildExits, Child!Step
  <2>5. CASE CommandEnds(t)
    BY ONLY <1>7, <2>5, <1>9 DEF CommandEnds
  <2>. QED
    BY ONLY <1>8, <1>9, <2>1, <2>2, <2>3, <2>4, <2>5 DEF Step
<1>10. ASSUME NEW t \in Callers, CommandBegins(t) PROVE Alone'
  BY <1>5, <1>10 DEF CommandBegins
<1>11. [Next]_vars
  OBVIOUS
<1>. QED
  BY ONLY <1>1, <1>2, <1>3, <1>9, <1>10, <1>11 DEF Next

\* A step of the owner, or the end of its command, is progress.
LEMMA OwnStep ==
  ASSUME TypeOK, Alone, NEW t \in Users, mutex = t, Step(t) \/ ChildExits(t)
  PROVE  Distance(t)' < Distance(t)
<1> USE LoadingAssumption
    DEF Threads, Cache!Threads, Cache!Goto, Child!Goto, TypeOK, Cache!TypeOK,
        Child!TypeOK, Distance
<1>1. CASE Cache!Step(t) /\ CacheStep
  <2> USE <1>1 DEF CacheStep, childVars
  <2>1. CASE Cache!Test(t, Cache!Then(t))
    BY <2>1 DEF Cache!Test, Cache!Then, Alone
  <2>2. CASE Cache!Flag(t, Cache!Then(t))
    BY <2>2 DEF Cache!Flag, Cache!Then
  <2>3. CASE Cache!CopyData(t) \/ Cache!Unlock(t)
    BY <2>3 DEF Cache!CopyData, Cache!Unlock
  <2>4. CASE Cache!Clear(t) \/ Cache!ClearAssign(t) \/ Cache!ClearFlag(t)
    BY <2>4 DEF Cache!Clear, Cache!ClearAssign, Cache!ClearFlag
  <2>5. CASE Cache!Search(t)
    BY <2>5 DEF Cache!Search
  <2>. QED
    BY ONLY <1>1, <2>1, <2>2, <2>3, <2>4, <2>5 DEF Cache!Step
<1>2. CASE NmBegins(t)
  <2>1. /\ pc[t] = "nm" /\ at[t] = "idle"
        /\ pc'[t] = "nm" /\ at'[t] = "popen"
    BY <1>2 DEF NmBegins, Child!SaveAndIgnore, ChildStep, cacheVars
  <2>. QED
    BY ONLY <2>1 DEF Distance
<1>3. CASE NmEnds(t)
  BY <1>3 DEF NmEnds, Cache!RunNm, Child!Restore, Child!PopenFail
<1>4. CASE Store(t)
  BY <1>4 DEF Store, Cache!Assign, CacheStep, childVars
<1>5. CASE Command(t)
  <2>1. pc[t] = "nm"
    BY <1>5 DEF Command, Child!Step, Child!Popen, Child!Pclose, Alone
  <2>2. CASE Child!Popen(t)
    <3>1. /\ at[t] = "popen" /\ pc'[t] = "nm"
          /\ at'[t] = "read" /\ child'[t] = "running"
      BY <1>5, <2>1, <2>2 DEF Command, Child!Popen, ChildStep, cacheVars
    <3>. QED
      BY ONLY <2>1, <3>1 DEF Distance
  <2>3. CASE Child!Pclose(t)
    <3>1. /\ at[t] = "read" /\ child[t] # "running"
          /\ pc'[t] = "nm" /\ at'[t] = "restore"
      BY <1>5, <2>1, <2>3 DEF Command, Child!Pclose, ChildStep, cacheVars
    <3>. QED
      BY ONLY <2>1, <3>1 DEF Distance
  <2>. QED
    BY ONLY <1>5, <2>2, <2>3 DEF Command, Child!Step
<1>6. CASE ChildExits(t)
  <2>1. pc[t] = "nm" /\ at[t] = "read"
    BY <1>6 DEF ChildExits, Child!ChildExits, Alone
  <2>2. /\ child[t] = "running" /\ child'[t] # "running"
        /\ pc'[t] = "nm" /\ at'[t] = "read"
    BY <1>6, <2>1 DEF ChildExits, Child!ChildExits, ChildStep, cacheVars
  <2>. QED
    BY ONLY <2>1, <2>2 DEF Distance
<1>7. ~CommandEnds(t)
  BY DEF CommandEnds
<1>8. Step(t) \/ ChildExits(t)
  OBVIOUS
<1>. QED
  BY ONLY <1>1, <1>2, <1>3, <1>4, <1>5, <1>6, <1>7, <1>8 DEF Step

\* No other thread touches what the owner is at.
LEMMA OtherStep ==
  ASSUME TypeOK, NEW t \in Users, NEW s \in Threads, s # t,
         Step(s) \/ ChildExits(s)
  PROVE  Distance(t)' = Distance(t)
<1> USE LoadingAssumption
    DEF Threads, Cache!Threads, Cache!Goto, Child!Goto, TypeOK, Cache!TypeOK,
        Child!TypeOK
<1>1. ASSUME UNCHANGED <<pc[t], at[t], child[t]>> PROVE Distance(t)' = Distance(t)
  BY ONLY <1>1 DEF Distance
<1>2. CASE Cache!Step(s) /\ CacheStep
  <2>1. pc' = [pc EXCEPT ![s] = pc'[s]]
    BY <1>2 DEF Cache!Step, Cache!Test, Cache!Flag, Cache!CopyData, Cache!Unlock,
                Cache!Clear, Cache!ClearAssign, Cache!ClearFlag, Cache!Search
  <2>. QED
    BY <1>1, <1>2, <2>1 DEF CacheStep, childVars
<1>3. CASE Store(s)
  BY <1>1, <1>3 DEF Store, Cache!Assign, CacheStep, childVars
<1>4. CASE NmBegins(s) \/ CommandEnds(s)
  BY <1>1, <1>4 DEF NmBegins, CommandEnds, Child!SaveAndIgnore, Child!Restore,
                    Child!PopenFail, ChildStep, cacheVars
<1>5. CASE NmEnds(s)
  BY <1>1, <1>5 DEF NmEnds, Cache!RunNm, Child!Restore, Child!PopenFail
<1>6. CASE Command(s) \/ ChildExits(s)
  BY <1>1, <1>6 DEF Command, ChildExits, Child!Step, Child!Popen, Child!Pclose,
                    Child!ChildExits, ChildStep, cacheVars
<1>7. Step(s) \/ ChildExits(s)
  OBVIOUS
<1>. QED
  BY ONLY <1>2, <1>3, <1>4, <1>5, <1>6, <1>7 DEF Step

LEMMA NearsStep ==
  ASSUME TypeOK, Alone, [Next]_vars, NEW t \in Users, mutex = t
  PROVE  /\ Distance(t)' <= Distance(t)
         /\ Step(t) \/ ChildExits(t) => Distance(t)' < Distance(t)
<1>1. Distance(t) \in Nat /\ Distance(t)' \in Nat
  BY DEF Distance
<1> SUFFICES Distance(t)' <= Distance(t)
  BY OwnStep
<1>2. Step(t) \/ ChildExits(t) => Distance(t)' < Distance(t)
  BY OwnStep
<1>3. ASSUME UNCHANGED <<pc[t], at[t], child[t]>> PROVE Distance(t)' = Distance(t)
  BY ONLY <1>3 DEF Distance
<1>4. CASE UNCHANGED vars
  BY <1>1, <1>3, <1>4 DEF vars, cacheVars, childVars
<1>5. ~\E u \in Users : Free(u) /\ (GetSymbols(u) \/ ClearSymbols(u))
  BY LoadingAssumption DEF GetSymbols, ClearSymbols, Cache!Lock
<1>6. CASE \E d \in Decoders : Free(d) /\ DecodeAddress(d)
  <2>1. PICK d \in Decoders : DecodeAddress(d)
    BY <1>6
  <2>2. d # t
    BY LoadingAssumption
  <2>3. UNCHANGED <<pc[t], at[t], child[t]>>
    BY <2>1, <2>2 DEF DecodeAddress, Cache!Decode, CacheStep, childVars, Cache!Goto,
                      TypeOK, Cache!TypeOK, Cache!Threads
  <2>. QED
    BY <1>1, <1>3, <2>3
<1>7. CASE \E c \in Callers : Free(c) /\ CommandBegins(c)
  <2>1. PICK c \in Callers : CommandBegins(c)
    BY <1>7
  <2>2. c # t
    BY <2>1 DEF CommandBegins, TypeOK, Cache!TypeOK
  <2>3. UNCHANGED <<pc[t], at[t], child[t]>>
    BY <2>1, <2>2, LoadingAssumption
       DEF CommandBegins, Child!SaveAndIgnore, ChildStep, cacheVars, Child!Goto,
           TypeOK, Child!TypeOK, Threads
  <2>. QED
    BY <1>1, <1>3, <2>3
<1>8. ASSUME NEW s \in Threads, Step(s) \/ ChildExits(s)
      PROVE  Distance(t)' <= Distance(t)
  <2>1. CASE s = t
    BY <1>1, <1>2, <1>8, <2>1
  <2>2. CASE s # t
    BY <1>1, <1>8, <2>2, OtherStep
  <2>. QED
    BY <2>1, <2>2
<1>. QED
  BY <1>4, <1>5, <1>6, <1>7, <1>8 DEF Next

\* getSymbols and clearSymbols give StackTrace_mutex back after at most twelve
\* steps of their own, the end of nm among them; no other thread delays them.
THEOREM OwnerNearsHolds == Spec => OwnerNears
<1>1. Init => Alone
  BY DEF Init, Cache!Init, Child!Init, Alone, Threads, Cache!Threads
<1>2. TypeOK /\ Alone /\ [Next]_vars =>
        [\A t \in Users : mutex = t =>
           /\ Distance(t)' <= Distance(t)
           /\ Step(t) \/ ChildExits(t) => Distance(t)' < Distance(t)]_vars
  BY NearsStep
<1>. QED
  BY <1>1, <1>2, TypeInit, TypeStep, AloneStep, PTL DEF Spec, OwnerNears

=============================================================================
