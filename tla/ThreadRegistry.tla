--------------------------- MODULE ThreadRegistry ---------------------------
(***************************************************************************)
(* The registry of threads (StackTraceThreads.cpp): a mutex, a fixed-      *)
(* capacity array of native handles, the thread_local object whose         *)
(* destructor unregisters its thread, and registeredThreads(), which reads *)
(* the array without the mutex.                                            *)
(*                                                                         *)
(* The array exists twice.  "array" is what the holder of the mutex has    *)
(* written in its own program order; "seen" is what a thread that does not *)
(* take the mutex can read.  The plain stores of a critical section        *)
(* become visible one word at a time, in any order the compiler and the    *)
(* hardware choose (Publish), and all of them before the unlock.           *)
(***************************************************************************)
EXTENDS Integers, FiniteSets

CONSTANTS
  Threads,    \* native handles; the thread of a handle is also an actor
  ById,       \* the handles callers pass to (un)registerThread(id)
  Readers,    \* the threads that call registeredThreads()
  Capacity,   \* capacity of globalRegisteredThreads (1024 in the code)
  NoThread    \* the value-initialised handle in an array slot; no owner

ASSUME ThreadsAssumption ==
  /\ NoThread \notin Threads
  /\ ById \subseteq Threads
  /\ Readers \subseteq Threads
ASSUME CapacityAssumption == Capacity \in Nat \ {0}

VARIABLES
  life,       \* life[t]: "running", "exiting" (thread_local dtors) or "gone"
  hook,       \* hook[t]: t's thread_local exiter has been touched
  mutex,      \* owner of globalThreadMutex
  array,      \* globalRegisteredThreads as its writer sees it
  seen,       \* globalRegisteredThreads as an unlocked reader sees it
  pc,         \* where t is in its call
  call,       \* the call t is in: its kind and its argument
  copy,       \* copy[t]: the vector registeredThreads() is building in t
  steady,     \* history: handles registered throughout t's copy
  disturbed   \* history: an unregister ran during t's copy

vars == <<life, hook, mutex, array, seen, pc, call, copy, steady, disturbed>>
regVars == <<life, hook, mutex, array, seen, pc, call>>
copyVars == <<copy, steady, disturbed>>

Handles == Threads \union {NoThread}
Slots == 0 .. Capacity - 1
Vectors == [data : [Slots -> Handles], size : 0 .. Capacity]
Calls == [op : {"register", "unregister"}, id : Threads]
Copies == [n : 0 .. Capacity, todo : SUBSET Slots, got : [Slots -> Handles]]

Live(v) == {i \in Slots : i < v.size}
Content(v) == {v.data[i] : i \in Live(v)}
Blank == [i \in Slots |-> NoThread]
NoCopy == [n |-> 0, todo |-> {}, got |-> Blank]

-----------------------------------------------------------------------------
(* StaticVector.h *)

\* Variant: no capacity test.
PushBackUnbounded(v, x) ==
  [data |-> [v.data EXCEPT ![v.size] = x], size |-> v.size + 1]

\* Variant: the newest handle is kept in front.
PushBackInFront(v, x) ==
  IF v.size < Capacity
  THEN [data |-> [v.data EXCEPT ![v.size] = v.data[0], ![0] = x],
        size |-> v.size + 1]
  ELSE v

\* Variant: a full vector makes room by overwriting its last element.
PushBackEvicts(v, x) ==
  IF v.size < Capacity
  THEN [data |-> [v.data EXCEPT ![v.size] = x], size |-> v.size + 1]
  ELSE [v EXCEPT !.data[Capacity - 1] = x]

\* push_back: full, the value is dropped without a word.
PushBack(v, x) ==
  IF v.size < Capacity
  THEN [data |-> [v.data EXCEPT ![v.size] = x], size |-> v.size + 1]
  ELSE v

\* Variant: no find before push_back.
RegisteredAgain(v, x) == PushBack(v, x)

\* registerThread( id ) between lock and unlock.
Registered(v, x) == IF x \in Content(v) THEN v ELSE PushBack(v, x)

\* find: the first slot that holds x (x is in the vector).
Find(v, x) == CHOOSE i \in Live(v) :
                 v.data[i] = x /\ \A j \in Live(v) : v.data[j] = x => i <= j

\* unregisterThread( id ) between lock and unlock: swap with back, shrink.
Unregistered(v, x) ==
  IF x \notin Content(v) THEN v
  ELSE LET i == Find(v, x)
           last == v.size - 1
       IN [data |-> [v.data EXCEPT ![i] = v.data[last], ![last] = v.data[i]],
           size |-> last]

Result(v, c) ==
  IF c.op = "register" THEN Registered(v, c.id) ELSE Unregistered(v, c.id)

-----------------------------------------------------------------------------
Members == Content(array)

\* The handles whose registration is not still being made by the owner.
SettledMembers == IF mutex = NoThread THEN Members
                  ELSE Members \ {call[mutex].id}

Init ==
  /\ life = [t \in Threads |-> "running"]
  /\ hook = [t \in Threads |-> FALSE]
  /\ mutex = NoThread
  /\ array = [data |-> Blank, size |-> 0]
  /\ seen = array
  /\ pc = [t \in Threads |-> "idle"]
  /\ call = [t \in Threads |-> [op |-> "register", id |-> t]]
  /\ copy = [t \in Threads |-> NoCopy]
  /\ steady = [t \in Threads |-> {}]
  /\ disturbed = [t \in Threads |-> FALSE]

Idle(t) == life[t] = "running" /\ pc[t] = "idle"

Enter(t, op, id) ==
  /\ pc' = [pc EXCEPT ![t] = "lock"]
  /\ call' = [call EXCEPT ![t] = [op |-> op, id |-> id]]

\* Variant: exiter is never touched, so its destructor never runs.
RegisterSelfNoHook(t) ==
  /\ Idle(t)
  /\ Enter(t, "register", t)
  /\ UNCHANGED <<life, hook, mutex, array, seen, copyVars>>

\* registerThread(): touching exiter registers its destructor.
RegisterSelf(t) ==
  /\ Idle(t)
  /\ hook' = [hook EXCEPT ![t] = TRUE]
  /\ Enter(t, "register", t)
  /\ UNCHANGED <<life, mutex, array, seen, copyVars>>

RegisterId(t, id) ==
  /\ Idle(t)
  /\ Enter(t, "register", id)
  /\ UNCHANGED <<life, hook, mutex, array, seen, copyVars>>

UnregisterId(t, id) ==
  /\ Idle(t)
  /\ Enter(t, "unregister", id)
  /\ UNCHANGED <<life, hook, mutex, array, seen, copyVars>>

\* The thread function returns: ~ThreadExiter runs if exiter was touched.
ExitHooked(t) ==
  /\ Idle(t)
  /\ hook[t]
  /\ life' = [life EXCEPT ![t] = "exiting"]
  /\ Enter(t, "unregister", t)
  /\ UNCHANGED <<hook, mutex, array, seen, copyVars>>

ExitPlain(t) ==
  /\ Idle(t)
  /\ ~hook[t]
  /\ life' = [life EXCEPT ![t] = "gone"]
  /\ UNCHANGED <<hook, mutex, array, seen, pc, call, copyVars>>

\* A new thread may be given the handle of one that has ended.
Spawn(t) ==
  /\ life[t] = "gone"
  /\ life' = [life EXCEPT ![t] = "running"]
  /\ UNCHANGED <<hook, mutex, array, seen, pc, call, copyVars>>

Lock(t) ==
  /\ pc[t] = "lock"
  /\ mutex = NoThread
  /\ mutex' = t
  /\ pc' = [pc EXCEPT ![t] = "update"]
  /\ disturbed' = [r \in Threads |-> \/ disturbed[r]
                                     \/ /\ pc[r] = "copy"
                                        /\ call[t].op = "unregister"]
  /\ UNCHANGED <<life, hook, array, seen, call, copy, steady>>

\* find, then push_back or swap and resize, in the owner's program order.
Update(t) ==
  /\ pc[t] = "update"
  /\ array' = Result(array, call[t])
  /\ steady' = [r \in Threads |-> steady[r] \intersect Content(array')]
  /\ pc' = [pc EXCEPT ![t] = "publish"]
  /\ UNCHANGED <<life, hook, mutex, seen, call, copy, disturbed>>

\* One of the owner's stores becomes visible to the unlocked readers.
PublishSlot(t, i) ==
  /\ pc[t] = "publish"
  /\ seen.data[i] # array.data[i]
  /\ seen' = [seen EXCEPT !.data[i] = array.data[i]]
  /\ UNCHANGED <<life, hook, mutex, array, pc, call, copyVars>>

PublishSize(t) ==
  /\ pc[t] = "publish"
  /\ seen.size # array.size
  /\ seen' = [seen EXCEPT !.size = array.size]
  /\ UNCHANGED <<life, hook, mutex, array, pc, call, copyVars>>

\* Unlock, and the end of the thread if this was its destructor's call.
Unlock(t) ==
  /\ pc[t] = "publish"
  /\ seen = array
  /\ mutex' = NoThread
  /\ pc' = [pc EXCEPT ![t] = "idle"]
  /\ IF life[t] = "exiting"
     THEN /\ life' = [life EXCEPT ![t] = "gone"]
          /\ hook' = [hook EXCEPT ![t] = FALSE]
     ELSE UNCHANGED <<life, hook>>
  /\ UNCHANGED <<array, seen, call, copyVars>>

-----------------------------------------------------------------------------
(* registeredThreads(): begin() and end() are read once, then the elements. *)

CopyBegin(t) ==
  /\ Idle(t)
  /\ pc' = [pc EXCEPT ![t] = "copy"]
  /\ copy' = [copy EXCEPT ![t] = [n |-> seen.size,
                                     todo |-> Live(seen),
                                     got |-> Blank]]
  /\ steady' = [steady EXCEPT ![t] = SettledMembers]
  /\ disturbed' = [disturbed EXCEPT ![t] =
                     mutex # NoThread /\ call[mutex].op = "unregister"]
  /\ UNCHANGED <<life, hook, mutex, array, seen, call>>

CopyElement(t, i) ==
  /\ pc[t] = "copy"
  /\ i \in copy[t].todo
  /\ copy' = [copy EXCEPT ![t].todo = @ \ {i},
                          ![t].got[i] = seen.data[i]]
  /\ UNCHANGED <<regVars, steady, disturbed>>

Copied(t) == pc[t] = "copy" /\ copy[t].todo = {}
Elements(t) == {copy[t].got[i] : i \in 0 .. copy[t].n - 1}

CopyEnd(t) ==
  /\ Copied(t)
  /\ pc' = [pc EXCEPT ![t] = "idle"]
  /\ copy' = [copy EXCEPT ![t] = NoCopy]
  /\ steady' = [steady EXCEPT ![t] = {}]
  /\ disturbed' = [disturbed EXCEPT ![t] = FALSE]
  /\ UNCHANGED <<life, hook, mutex, array, seen, call>>

-----------------------------------------------------------------------------
\* What t does once it is in a call.
Step(t) ==
  \/ Lock(t)
  \/ Update(t)
  \/ \E i \in Slots : PublishSlot(t, i)
  \/ PublishSize(t)
  \/ Unlock(t)
  \/ \E i \in Slots : CopyElement(t, i)
  \/ CopyEnd(t)

Next ==
  \E t \in Threads :
    \/ RegisterSelf(t)
    \/ \E id \in ById : RegisterId(t, id) \/ UnregisterId(t, id)
    \/ ExitHooked(t)
    \/ ExitPlain(t)
    \/ Spawn(t)
    \/ t \in Readers /\ CopyBegin(t)
    \/ Step(t)

Spec == Init /\ [][Next]_vars

-----------------------------------------------------------------------------
(* Properties *)

\* Types of the variables.
TypeOK ==
  /\ life \in [Threads -> {"running", "exiting", "gone"}]
  /\ hook \in [Threads -> BOOLEAN]
  /\ mutex \in Handles
  /\ array \in Vectors
  /\ seen \in Vectors
  /\ pc \in [Threads -> {"idle", "lock", "update", "publish", "copy"}]
  /\ call \in [Threads -> Calls]
  /\ copy \in [Threads -> Copies]
  /\ steady \in [Threads -> SUBSET Threads]
  /\ disturbed \in [Threads -> BOOLEAN]

\* A handle occupies one slot however often and from however many threads it
\* is registered (the find in registerThread), and the live slots hold
\* handles of threads: otherwise one unregister would leave a handle behind.
NoDuplicates ==
  /\ Members \subseteq Threads
  /\ \A i, j \in Live(array) : array.data[i] = array.data[j] => i = j

\* "no need to call unregister": the handle of a thread that has ended is in
\* the registry only if callers register that handle by its id.
NoDeadSelfRegistered ==
  \A t \in Members : life[t] = "gone" => t \in ById

\* What registeredThreads() relies on instead of the mutex: as long as no
\* unregister overlaps the copy, no registered handle is missed, whatever
\* registrations run meanwhile.
CopyCompleteUnlessUnregister ==
  \A t \in Readers :
    Copied(t) /\ ~disturbed[t] => steady[t] \subseteq Elements(t)

\* The registry implements the bounded set of handles.
Abstract == INSTANCE RegisteredSet WITH
              members <- Members,
              dead <- {t \in Threads : life[t] = "gone"}
ImplementsSet == Abstract!Spec
=============================================================================
