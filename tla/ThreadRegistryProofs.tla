------------------------ MODULE ThreadRegistryProofs ------------------------
(***************************************************************************)
(* Proofs about the thread registry, for every set of threads and every    *)
(* capacity.  The inductive invariant is built in layers, each inductive   *)
(* relative to the ones before it: types; who is inside the mutex and what *)
(* the unlocked readers can see; the life of self-registered threads; the  *)
(* copies in progress.                                                     *)
(***************************************************************************)
EXTENDS ThreadRegistry, FiniteSetTheorems, TLAPS

Distinct(v) == \A i, j \in Live(v) : v.data[i] = v.data[j] => i = j

Busy == {"lock", "update", "publish"}

\* The holder of the mutex is the thread between lock and unlock; only its
\* unpublished stores tell the two views of the array apart.
Ownership ==
  /\ \A t \in Threads : pc[t] \in {"update", "publish"} <=> mutex = t
  /\ (\A t \in Threads : pc[t] # "publish") => seen = array

\* A thread leaves the set before its handle dies.
Lifecycle ==
  /\ \A t \in Threads : life[t] = "gone" => pc[t] = "idle"
  /\ \A t \in Threads : life[t] = "exiting" =>
       pc[t] \in Busy /\ call[t] = [op |-> "unregister", id |-> t]
  /\ \A t \in Threads : life[t] = "exiting" /\ pc[t] = "publish" =>
       t \notin Members
  /\ \A t \in Threads : pc[t] \in Busy /\ call[t].id \notin ById =>
       /\ call[t].id = t
       /\ hook[t]
       /\ life[t] # "gone"
  /\ \A t \in Members \ ById : hook[t] /\ life[t] # "gone"

\* While a registration is published, every older element is already visible.
PendingRegister ==
  \A t \in Threads : pc[t] = "publish" /\ call[t].op = "register" =>
    \A i \in Live(array) : array.data[i] # call[t].id =>
      i < seen.size /\ seen.data[i] = array.data[i]

\* An undisturbed copy overlaps registrations only, and each steady handle
\* sits in a slot of its range that no store changes.
Placed(r) ==
  /\ \A t \in Threads : mutex = t => call[t].op = "register"
  /\ \A h \in steady[r] : \E i \in Live(array) :
       /\ i < copy[r].n
       /\ array.data[i] = h
       /\ seen.data[i] = h
       /\ i \notin copy[r].todo => copy[r].got[i] = h
CopyPlaces == \A r \in Threads : pc[r] = "copy" /\ ~disturbed[r] => Placed(r)

-----------------------------------------------------------------------------
(* The operators of the vector *)

\* push_back behind the find of registerThread( id ): nothing moves, at most
\* the new handle is added, and only in a free slot.
LEMMA RegisteredFacts ==
  ASSUME NEW v \in Vectors, NEW x \in Threads, Distinct(v),
         Content(v) \subseteq Threads
  PROVE  /\ Registered(v, x) \in Vectors
         /\ Distinct(Registered(v, x))
         /\ Content(v) \subseteq Content(Registered(v, x))
         /\ Content(Registered(v, x)) \subseteq Content(v) \union {x}
         /\ \A i \in Live(v) : /\ i \in Live(Registered(v, x))
                               /\ Registered(v, x).data[i] = v.data[i]
         /\ \A i \in Live(Registered(v, x)) :
              Registered(v, x).data[i] # x => i \in Live(v)
         /\ Registered(v, x) # v => x \notin Content(v) /\ v.size < Capacity
<1> USE CapacityAssumption
<1> DEFINE w == [data |-> [v.data EXCEPT ![v.size] = x], size |-> v.size + 1]
<1>1. CASE x \in Content(v) \/ ~(v.size < Capacity)
  <2>1. Registered(v, x) = v
    BY <1>1 DEF Registered, PushBack
  <2> QED BY <2>1
<1>2. CASE x \notin Content(v) /\ v.size < Capacity
  <2>1. Registered(v, x) = w
    BY <1>2 DEF Registered, PushBack
  <2>2. /\ v.data \in [Slots -> Handles]
        /\ v.size \in 0 .. Capacity
        /\ v.size \in Slots
        /\ x \in Handles
    BY <1>2 DEF Vectors, Slots, Handles
  <2>3. w \in Vectors
    BY <2>2, <1>2 DEF Vectors, Slots
  <2>4. Live(w) = Live(v) \union {v.size} /\ v.size \notin Live(v)
    BY <2>2 DEF Live, Slots
  <2>5. w.data[v.size] = x /\ \A i \in Live(v) : w.data[i] = v.data[i]
    BY <2>2, <2>4 DEF Live
  <2>6. \A i \in Live(v) : v.data[i] # x
    BY <1>2 DEF Content
  <2>7. Content(w) = Content(v) \union {x}
    BY <2>4, <2>5 DEF Content
  <2>8. Distinct(w)
    BY <2>4, <2>5, <2>6 DEF Distinct
  <2> QED BY <2>1, <2>3, <2>4, <2>5, <2>7, <2>8, <1>2
<1> QED BY <1>1, <1>2

\* swap with the last element and shrink: exactly the handle is removed.
LEMMA UnregisteredFacts ==
  ASSUME NEW v \in Vectors, NEW x \in Threads, Distinct(v)
  PROVE  /\ Unregistered(v, x) \in Vectors
         /\ Distinct(Unregistered(v, x))
         /\ Content(Unregistered(v, x)) = Content(v) \ {x}
<1> USE CapacityAssumption
<1> DEFINE k == Find(v, x)
           last == v.size - 1
           w == [data |-> [v.data EXCEPT ![k] = v.data[last],
                                         ![last] = v.data[k]],
                 size |-> last]
<1>1. CASE x \notin Content(v)
  BY <1>1 DEF Unregistered
<1>2. CASE x \in Content(v)
  <2>1. Unregistered(v, x) = w
    BY <1>2 DEF Unregistered
  <2>2. PICK p \in Live(v) : v.data[p] = x
    BY <1>2 DEF Content
  <2>3. k \in Live(v) /\ v.data[k] = x
    <3>1. \A j \in Live(v) : v.data[j] = x => p <= j
      BY <2>2 DEF Distinct, Live, Slots
    <3> QED BY <2>2, <3>1 DEF Find
  <2>4. /\ v.data \in [Slots -> Handles]
        /\ v.size \in 0 .. Capacity
        /\ k \in Slots
        /\ k < v.size
        /\ last \in Slots
        /\ last \in Live(v)
    BY <2>3 DEF Vectors, Live, Slots
  <2> HIDE DEF k
  <2>5. w \in Vectors
    BY <2>4 DEF Vectors, Slots
  <2>6. Live(w) = Live(v) \ {last}
    BY <2>4 DEF Live, Slots
  <2>7. \A i \in Live(w) : w.data[i] = IF i = k THEN v.data[last] ELSE v.data[i]
    BY <2>4, <2>6 DEF Live
  <2>8. Distinct(w)
    BY <2>3, <2>4, <2>6, <2>7 DEF Distinct
  <2>9. Content(w) \subseteq Content(v) \ {x}
    BY <2>3, <2>4, <2>6, <2>7 DEF Distinct, Content
  <2>10. ASSUME NEW h \in Content(v) \ {x}
         PROVE  h \in Content(w)
    <3>1. PICK i \in Live(v) : v.data[i] = h
      BY DEF Content
    <3>2. CASE i = last
      <4>1. k \in Live(w) /\ w.data[k] = h
        BY <2>3, <2>4, <2>6, <2>7, <3>1, <3>2
      <4> QED BY <4>1 DEF Content
    <3>3. CASE i # last
      <4>1. i \in Live(w) /\ w.data[i] = h
        BY <2>3, <2>6, <2>7, <3>1, <3>3
      <4> QED BY <4>1 DEF Content
    <3> QED BY <3>2, <3>3
  <2> QED BY <2>1, <2>5, <2>8, <2>9, <2>10
<1> QED BY <1>1, <1>2

-----------------------------------------------------------------------------
(* Types *)

LEMMA TypeInit == Init => TypeOK
  BY ThreadsAssumption, CapacityAssumption
  DEF Init, TypeOK, Handles, Vectors, Slots, Calls, Copies, Blank, NoCopy

LEMMA NoDuplicatesIsDistinct ==
  NoDuplicates <=> Members \subseteq Threads /\ Distinct(array)
  BY DEF NoDuplicates, Distinct

\* Types and the absence of duplicates support each other: the slot that
\* find returns exists because the vector holds the handle in one slot only.
LEMMA TypeStep == TypeOK /\ NoDuplicates /\ [Next]_vars => TypeOK'
<1> SUFFICES ASSUME TypeOK, NoDuplicates, [Next]_vars PROVE TypeOK'
  OBVIOUS
<1> USE DEF TypeOK
<1> USE ThreadsAssumption
<1>1. ASSUME NEW t \in Threads, RegisterSelf(t) PROVE TypeOK'
  BY <1>1 DEF RegisterSelf, Enter, Calls, copyVars
<1>2. ASSUME NEW t \in Threads, NEW id \in ById, RegisterId(t, id)
      PROVE  TypeOK'
  <2>1. id \in Threads
    OBVIOUS
  <2> QED BY <1>2, <2>1 DEF RegisterId, Enter, Calls, copyVars
<1>3. ASSUME NEW t \in Threads, NEW id \in ById, UnregisterId(t, id)
      PROVE  TypeOK'
  <2>1. id \in Threads
    OBVIOUS
  <2> QED BY <1>3, <2>1 DEF UnregisterId, Enter, Calls, copyVars
<1>4. ASSUME NEW t \in Threads, ExitHooked(t) PROVE TypeOK'
  BY <1>4 DEF ExitHooked, Enter, Calls, copyVars
<1>5. ASSUME NEW t \in Threads, ExitPlain(t) PROVE TypeOK'
  BY <1>5 DEF ExitPlain, copyVars
<1>6. ASSUME NEW t \in Threads, Spawn(t) PROVE TypeOK'
  BY <1>6 DEF Spawn, copyVars
<1>7. ASSUME NEW t \in Threads, CopyBegin(t) PROVE TypeOK'
  <2>1. seen.size \in 0 .. Capacity /\ Live(seen) \subseteq Slots
    BY DEF Vectors, Live
  <2>2. Blank \in [Slots -> Handles]
    BY DEF Blank, Handles
  <2>3. [n |-> seen.size, todo |-> Live(seen), got |-> Blank] \in Copies
    BY <2>1, <2>2 DEF Copies
  <2>4. SettledMembers \subseteq Threads
    BY DEF SettledMembers, NoDuplicates
  <2> QED BY <1>7, <2>3, <2>4 DEF CopyBegin
<1>8. ASSUME NEW t \in Threads, Lock(t) PROVE TypeOK'
  BY <1>8 DEF Lock, Handles
<1>9. ASSUME NEW t \in Threads, Update(t) PROVE TypeOK'
  <2>1. call[t].id \in Threads
    BY DEF Calls
  <2>2. Result(array, call[t]) \in Vectors
    BY <2>1, NoDuplicatesIsDistinct, RegisteredFacts, UnregisteredFacts
    DEF Result, Members
  <2> QED BY <1>9, <2>2 DEF Update
<1>10. ASSUME NEW t \in Threads, NEW i \in Slots, PublishSlot(t, i)
       PROVE  TypeOK'
  <2>1. seen' \in Vectors
    BY <1>10 DEF PublishSlot, Vectors
  <2> QED BY <1>10, <2>1 DEF PublishSlot, copyVars
<1>11. ASSUME NEW t \in Threads, PublishSize(t) PROVE TypeOK'
  <2>1. seen' \in Vectors
    BY <1>11 DEF PublishSize, Vectors
  <2> QED BY <1>11, <2>1 DEF PublishSize, copyVars
<1>12. ASSUME NEW t \in Threads, Unlock(t) PROVE TypeOK'
  BY <1>12 DEF Unlock, Handles, copyVars
<1>13. ASSUME NEW t \in Threads, NEW i \in Slots, CopyElement(t, i)
       PROVE  TypeOK'
  <2>1. seen.data[i] \in Handles
    BY DEF Vectors
  <2>2. copy' \in [Threads -> Copies]
    BY <1>13, <2>1 DEF CopyElement, Copies
  <2> QED BY <1>13, <2>2 DEF CopyElement, regVars
<1>14. ASSUME NEW t \in Threads, CopyEnd(t) PROVE TypeOK'
  <2>1. NoCopy \in Copies
    BY CapacityAssumption DEF NoCopy, Copies, Blank, Handles
  <2> QED BY <1>14, <2>1 DEF CopyEnd
<1>15. CASE UNCHANGED vars
  BY <1>15 DEF vars
<1> QED
  BY <1>1, <1>2, <1>3, <1>4, <1>5, <1>6, <1>7, <1>8, <1>9, <1>10, <1>11,
     <1>12, <1>13, <1>14, <1>15
  DEF Next, Step

-----------------------------------------------------------------------------
(* The array and the mutex *)

\* What one operation does to the members.
LEMMA UpdateMembers ==
  ASSUME TypeOK, NoDuplicates, NEW t \in Threads, Update(t)
  PROVE  /\ NoDuplicates'
         /\ call[t].op = "register" =>
              /\ Members \subseteq Members'
              /\ Members' \subseteq Members \union {call[t].id}
         /\ call[t].op # "register" => Members' = Members \ {call[t].id}
<1>1. /\ array \in Vectors /\ Distinct(array) /\ Content(array) \subseteq Threads
      /\ call[t].id \in Threads
  BY NoDuplicatesIsDistinct DEF TypeOK, Calls, Members
<1>2. array' = Result(array, call[t])
  BY DEF Update
<1>3. CASE call[t].op = "register"
  <2>1. array' = Registered(array, call[t].id)
    BY <1>2, <1>3 DEF Result
  <2> QED BY <1>1, <1>3, <2>1, RegisteredFacts DEF NoDuplicates, Distinct, Members
<1>4. CASE call[t].op # "register"
  <2>1. array' = Unregistered(array, call[t].id)
    BY <1>2, <1>4 DEF Result
  <2> QED BY <1>1, <1>4, <2>1, UnregisteredFacts DEF NoDuplicates, Distinct, Members
<1> QED BY <1>3, <1>4

LEMMA NoDuplicatesStep == TypeOK /\ NoDuplicates /\ [Next]_vars => NoDuplicates'
<1> SUFFICES ASSUME TypeOK, NoDuplicates, [Next]_vars PROVE NoDuplicates'
  OBVIOUS
<1>1. CASE \E t \in Threads : Update(t)
  BY <1>1, UpdateMembers
<1>2. CASE ~ \E t \in Threads : Update(t)
  <2>1. array' = array
    BY <1>2 DEF Next, Step, RegisterSelf, RegisterId, UnregisterId, ExitHooked,
       ExitPlain, Spawn, CopyBegin, Lock, PublishSlot, PublishSize, Unlock,
       CopyElement, CopyEnd, copyVars, regVars, vars
  <2> QED BY <2>1 DEF NoDuplicates, Members, Content, Live
<1> QED BY <1>1, <1>2

LEMMA OwnershipStep == TypeOK /\ Ownership /\ [Next]_vars => Ownership'
<1> SUFFICES ASSUME TypeOK, Ownership, [Next]_vars PROVE Ownership'
  OBVIOUS
<1> USE ThreadsAssumption DEF TypeOK, Ownership
<1>1. ASSUME NEW t \in Threads, RegisterSelf(t) PROVE Ownership'
  BY <1>1 DEF RegisterSelf, Idle, Enter
<1>2. ASSUME NEW t \in Threads, NEW id \in ById, RegisterId(t, id)
      PROVE  Ownership'
  BY <1>2 DEF RegisterId, Idle, Enter
<1>3. ASSUME NEW t \in Threads, NEW id \in ById, UnregisterId(t, id)
      PROVE  Ownership'
  BY <1>3 DEF UnregisterId, Idle, Enter
<1>4. ASSUME NEW t \in Threads, ExitHooked(t) PROVE Ownership'
  BY <1>4 DEF ExitHooked, Idle, Enter
<1>5. ASSUME NEW t \in Threads, ExitPlain(t) PROVE Ownership'
  BY <1>5 DEF ExitPlain
<1>6. ASSUME NEW t \in Threads, Spawn(t) PROVE Ownership'
  BY <1>6 DEF Spawn
<1>7. ASSUME NEW t \in Threads, CopyBegin(t) PROVE Ownership'
  BY <1>7 DEF CopyBegin, Idle
<1>8. ASSUME NEW t \in Threads, Lock(t) PROVE Ownership'
  BY <1>8 DEF Lock
<1>9. ASSUME NEW t \in Threads, Update(t) PROVE Ownership'
  BY <1>9 DEF Update
<1>10. ASSUME NEW t \in Threads, NEW i \in Slots, PublishSlot(t, i)
       PROVE  Ownership'
  BY <1>10 DEF PublishSlot
<1>11. ASSUME NEW t \in Threads, PublishSize(t) PROVE Ownership'
  BY <1>11 DEF PublishSize
<1>12. ASSUME NEW t \in Threads, Unlock(t) PROVE Ownership'
  BY <1>12 DEF Unlock
<1>13. ASSUME NEW t \in Threads, NEW i \in Slots, CopyElement(t, i)
       PROVE  Ownership'
  BY <1>13 DEF CopyElement, regVars
<1>14. ASSUME NEW t \in Threads, CopyEnd(t) PROVE Ownership'
  BY <1>14 DEF CopyEnd, Copied
<1>15. CASE UNCHANGED vars
  BY <1>15 DEF vars
<1> QED
  BY <1>1, <1>2, <1>3, <1>4, <1>5, <1>6, <1>7, <1>8, <1>9, <1>10, <1>11,
     <1>12, <1>13, <1>14, <1>15
  DEF Next, Step

-----------------------------------------------------------------------------
(* Self-registered threads *)

LEMMA LifecycleStep ==
  TypeOK /\ NoDuplicates /\ Ownership /\ Lifecycle /\ [Next]_vars => Lifecycle'
<1> SUFFICES ASSUME TypeOK, NoDuplicates, Ownership, Lifecycle, [Next]_vars
             PROVE  Lifecycle'
  OBVIOUS
<1> USE ThreadsAssumption DEF TypeOK, Lifecycle, Busy
<1>0. array' = array => Members' = Members
  BY DEF Members, Content, Live
<1>00. Members \subseteq Threads
  BY DEF NoDuplicates
<1>1. ASSUME NEW t \in Threads, RegisterSelf(t) PROVE Lifecycle'
  BY <1>0, <1>00, <1>1 DEF RegisterSelf, Idle, Enter
<1>2. ASSUME NEW t \in Threads, NEW id \in ById, RegisterId(t, id)
      PROVE  Lifecycle'
  BY <1>0, <1>00, <1>2 DEF RegisterId, Idle, Enter
<1>3. ASSUME NEW t \in Threads, NEW id \in ById, UnregisterId(t, id)
      PROVE  Lifecycle'
  BY <1>0, <1>00, <1>3 DEF UnregisterId, Idle, Enter
<1>4. ASSUME NEW t \in Threads, ExitHooked(t) PROVE Lifecycle'
  BY <1>0, <1>00, <1>4 DEF ExitHooked, Idle, Enter
<1>5. ASSUME NEW t \in Threads, ExitPlain(t) PROVE Lifecycle'
  BY <1>0, <1>00, <1>5 DEF ExitPlain, Idle
<1>6. ASSUME NEW t \in Threads, Spawn(t) PROVE Lifecycle'
  BY <1>0, <1>00, <1>6 DEF Spawn
<1>7. ASSUME NEW t \in Threads, CopyBegin(t) PROVE Lifecycle'
  BY <1>0, <1>00, <1>7 DEF CopyBegin, Idle
<1>8. ASSUME NEW t \in Threads, Lock(t) PROVE Lifecycle'
  BY <1>0, <1>00, <1>8 DEF Lock, Ownership
<1>9. ASSUME NEW t \in Threads, Update(t) PROVE Lifecycle'
  <2>1. mutex = t /\ \A u \in Threads : pc[u] = "publish" => u = t
    BY <1>9 DEF Ownership, Update
  <2>2. /\ call[t].op = "register" => Members' \subseteq Members \union {call[t].id}
        /\ call[t].op # "register" => Members' = Members \ {call[t].id}
    BY <1>9, UpdateMembers
  <2>3. call[t].id \notin ById =>
          call[t].id = t /\ hook[t] /\ life[t] # "gone"
    BY <1>9 DEF Update
  <2>4. \A m \in Members' \ ById : hook'[m] /\ life'[m] # "gone"
    BY <1>9, <2>2, <2>3 DEF Update
  <2>5. life[t] = "exiting" => t \notin Members'
    BY <2>2
  <2> QED BY <1>9, <2>1, <2>4, <2>5 DEF Update
<1>10. ASSUME NEW t \in Threads, NEW i \in Slots, PublishSlot(t, i)
       PROVE  Lifecycle'
  BY <1>0, <1>00, <1>10 DEF PublishSlot
<1>11. ASSUME NEW t \in Threads, PublishSize(t) PROVE Lifecycle'
  BY <1>0, <1>00, <1>11 DEF PublishSize
<1>12. ASSUME NEW t \in Threads, Unlock(t) PROVE Lifecycle'
  BY <1>0, <1>00, <1>12 DEF Unlock
<1>13. ASSUME NEW t \in Threads, NEW i \in Slots, CopyElement(t, i)
       PROVE  Lifecycle'
  BY <1>0, <1>00, <1>13 DEF CopyElement, regVars
<1>14. ASSUME NEW t \in Threads, CopyEnd(t) PROVE Lifecycle'
  BY <1>0, <1>00, <1>14 DEF CopyEnd, Copied
<1>15. CASE UNCHANGED vars
  BY <1>0, <1>15 DEF vars
<1> QED
  BY <1>1, <1>2, <1>3, <1>4, <1>5, <1>6, <1>7, <1>8, <1>9, <1>10, <1>11,
     <1>12, <1>13, <1>14, <1>15
  DEF Next, Step

-----------------------------------------------------------------------------
(* The unlocked copies *)

\* A registration moves nothing: what it may change is one slot, the new one.
LEMMA RegisterKeeps ==
  ASSUME TypeOK, NoDuplicates, NEW t \in Threads, Update(t),
         call[t].op = "register"
  PROVE  /\ \A i \in Live(array) : i \in Live(array') /\ array'.data[i] = array.data[i]
         /\ \A i \in Live(array') :
              array'.data[i] # call[t].id => i \in Live(array)
<1>1. /\ array \in Vectors /\ Distinct(array) /\ Content(array) \subseteq Threads
      /\ call[t].id \in Threads
  BY NoDuplicatesIsDistinct DEF TypeOK, Calls, Members
<1>2. array' = Registered(array, call[t].id)
  BY DEF Update, Result
<1> QED BY <1>1, <1>2, RegisteredFacts

LEMMA PendingRegisterStep ==
  TypeOK /\ NoDuplicates /\ Ownership /\ PendingRegister /\ [Next]_vars
    => PendingRegister'
<1> SUFFICES ASSUME TypeOK, NoDuplicates, Ownership, PendingRegister, [Next]_vars
             PROVE  PendingRegister'
  OBVIOUS
<1> USE ThreadsAssumption DEF TypeOK, PendingRegister
<1>1. ASSUME NEW t \in Threads, Update(t) PROVE PendingRegister'
  <2>1. seen' = seen /\ seen = array /\ call' = call
    BY <1>1 DEF Update, Ownership
  <2>2. \A u \in Threads : pc'[u] = "publish" => u = t
    BY <1>1 DEF Update, Ownership
  <2>3. CASE call[t].op = "register"
    BY <1>1, <2>1, <2>2, <2>3, RegisterKeeps DEF Live
  <2>4. CASE call[t].op # "register"
    BY <2>1, <2>2, <2>4
  <2> QED BY <2>3, <2>4
<1>2. ASSUME NEW t \in Threads, NEW k \in Slots, PublishSlot(t, k)
      PROVE  PendingRegister'
  <2>1. /\ seen'.size = seen.size
        /\ \A i \in Slots : seen'.data[i] = IF i = k THEN array.data[i] ELSE seen.data[i]
    BY <1>2 DEF PublishSlot, Vectors
  <2> QED BY <1>2, <2>1 DEF PublishSlot, Live
<1>3. ASSUME NEW t \in Threads, PublishSize(t) PROVE PendingRegister'
  <2>1. seen'.size = array.size /\ seen'.data = seen.data
    BY <1>3 DEF PublishSize, Vectors
  <2> QED BY <1>3, <2>1 DEF PublishSize, Live
<1>4. ASSUME NEW t \in Threads, Unlock(t) PROVE PendingRegister'
  BY <1>4 DEF Unlock, Live
<1>5. ASSUME /\ array' = array /\ seen' = seen
             /\ \A t \in Threads :
                  pc'[t] = "publish" => pc[t] = "publish" /\ call'[t] = call[t]
      PROVE  PendingRegister'
  BY <1>5 DEF Live
<1>6. CASE ~ \E t \in Threads :
             \/ Update(t) \/ PublishSize(t) \/ Unlock(t)
             \/ \E i \in Slots : PublishSlot(t, i)
  <2>1. /\ array' = array /\ seen' = seen
        /\ \A t \in Threads :
             pc'[t] = "publish" => pc[t] = "publish" /\ call'[t] = call[t]
    BY <1>6 DEF Next, Step, RegisterSelf, RegisterId, UnregisterId, ExitHooked,
       ExitPlain, Spawn, CopyBegin, Lock, CopyElement, CopyEnd, Enter, Idle,
       copyVars, regVars, vars
  <2> QED BY <2>1, <1>5
<1> QED BY <1>1, <1>2, <1>3, <1>4, <1>6

\* The steady handles keep their slots: the crux of the unlocked read.
LEMMA CopyPlacesStep ==
  TypeOK /\ NoDuplicates /\ Ownership /\ PendingRegister /\ CopyPlaces
    /\ [Next]_vars => CopyPlaces'
<1> SUFFICES ASSUME TypeOK, NoDuplicates, Ownership, PendingRegister,
                    CopyPlaces, [Next]_vars,
                    NEW r \in Threads, pc'[r] = "copy", ~disturbed'[r]
             PROVE  Placed(r)'
  BY DEF CopyPlaces
<1> USE ThreadsAssumption DEF TypeOK
<1>1. ASSUME NEW t \in Threads, Update(t) PROVE Placed(r)'
  <2>1. mutex = t /\ call[t].op = "register" /\ pc[r] = "copy" /\ ~disturbed[r]
    BY <1>1 DEF Update, Ownership, CopyPlaces, Placed
  <2>2. \A i \in Live(array) : i \in Live(array') /\ array'.data[i] = array.data[i]
    BY <1>1, <2>1, RegisterKeeps
  <2>3. steady'[r] \subseteq steady[r]
    BY <1>1 DEF Update
  <2> QED BY <1>1, <2>1, <2>2, <2>3 DEF Update, CopyPlaces, Placed
<1>2. ASSUME NEW t \in Threads, NEW k \in Slots, PublishSlot(t, k) PROVE Placed(r)'
  <2>1. \A i \in Slots : seen'.data[i] = IF i = k THEN array.data[i] ELSE seen.data[i]
    BY <1>2 DEF PublishSlot, Vectors
  <2>2. /\ UNCHANGED <<mutex, array, pc, call, copy, steady, disturbed>>
    BY <1>2 DEF PublishSlot, copyVars
  <2> QED BY <2>1, <2>2 DEF CopyPlaces, Placed, Live
<1>3. ASSUME NEW t \in Threads, PublishSize(t) PROVE Placed(r)'
  <2>1. seen'.data = seen.data
    BY <1>3 DEF PublishSize, Vectors
  <2>2. /\ UNCHANGED <<mutex, array, pc, call, copy, steady, disturbed>>
    BY <1>3 DEF PublishSize, copyVars
  <2> QED BY <2>1, <2>2 DEF CopyPlaces, Placed, Live
<1>4. ASSUME NEW t \in Threads, Unlock(t) PROVE Placed(r)'
  BY <1>4 DEF Unlock, CopyPlaces, Placed, copyVars, Live
<1>5. ASSUME NEW t \in Threads, Lock(t) PROVE Placed(r)'
  BY <1>5 DEF Lock, CopyPlaces, Placed, Live, Calls
<1>6. ASSUME NEW t \in Threads, NEW k \in Slots, CopyElement(t, k) PROVE Placed(r)'
  <2>1. /\ UNCHANGED <<mutex, array, seen, pc, call, steady, disturbed>>
    BY <1>6 DEF CopyElement, regVars
  <2>2. copy'[r].n = copy[r].n
    BY <1>6 DEF CopyElement, Copies
  <2>3. \A i \in Slots : i \notin copy'[r].todo =>
          \/ i \notin copy[r].todo /\ copy'[r].got[i] = copy[r].got[i]
          \/ copy'[r].got[i] = seen.data[i]
    BY <1>6 DEF CopyElement, Copies
  <2> QED BY <2>1, <2>2, <2>3 DEF CopyPlaces, Placed, Live
<1>7. ASSUME NEW t \in Threads, CopyBegin(t) PROVE Placed(r)'
  <2>1. CASE r = t
    <3>1. /\ copy'[r].n = seen.size
          /\ copy'[r].todo = Live(seen)
          /\ steady'[r] = SettledMembers
          /\ UNCHANGED <<mutex, array, seen, call>>
      BY <1>7, <2>1 DEF CopyBegin
    <3>2. mutex # NoThread => mutex \in Threads /\ call[mutex].op = "register"
      BY <1>7, <2>1 DEF CopyBegin, Handles, Calls
    <3>3. ASSUME NEW h \in SettledMembers
          PROVE  \E i \in Live(array) : /\ i < seen.size
                                        /\ array.data[i] = h
                                        /\ seen.data[i] = h
      <4>1. PICK i \in Live(array) : array.data[i] = h
        BY DEF SettledMembers, Members, Content
      <4>2. CASE seen = array
        BY <4>1, <4>2 DEF Live
      <4>3. CASE seen # array
        <5>1. mutex \in Threads /\ pc[mutex] = "publish"
          BY <4>3 DEF Ownership
        <5>2. h # call[mutex].id
          BY <5>1 DEF SettledMembers
        <5> QED BY <3>2, <4>1, <5>1, <5>2 DEF PendingRegister
      <4> QED BY <4>2, <4>3
    <3> QED BY <3>1, <3>2, <3>3 DEF Placed, Live
  <2>2. CASE r # t
    BY <1>7, <2>2 DEF CopyBegin, CopyPlaces, Placed
  <2> QED BY <2>1, <2>2
<1>8. ASSUME NEW t \in Threads, CopyEnd(t) PROVE Placed(r)'
  BY <1>8 DEF CopyEnd, CopyPlaces, Placed, Copied
<1>9. ASSUME \/ UNCHANGED vars
             \/ \E t \in Threads :
                  \/ RegisterSelf(t) \/ ExitHooked(t) \/ ExitPlain(t) \/ Spawn(t)
                  \/ \E id \in ById : RegisterId(t, id) \/ UnregisterId(t, id)
      PROVE  Placed(r)'
  <2>1. /\ UNCHANGED <<mutex, array, seen, copy, steady, disturbed>>
        /\ pc[r] = "copy"
        /\ \A t \in Threads : mutex = t => call'[t] = call[t]
    BY <1>9 DEF RegisterSelf, ExitHooked, ExitPlain, Spawn, RegisterId,
       UnregisterId, Enter, Idle, Ownership, copyVars, vars
  <2> QED BY <2>1 DEF CopyPlaces, Placed, Live
<1> QED
  BY <1>1, <1>2, <1>3, <1>4, <1>5, <1>6, <1>7, <1>8, <1>9 DEF Next, Step

-----------------------------------------------------------------------------
(* The abstract set *)

\* A vector holds at most as many different handles as it has live slots.
LEMMA ContentSize ==
  ASSUME NEW v \in Vectors
  PROVE  IsFiniteSet(Content(v)) /\ Cardinality(Content(v)) <= v.size
<1> USE CapacityAssumption
<1> DEFINE I == 0 .. (v.size - 1)
           f == [i \in I |-> v.data[i]]
<1>1. v.size \in Nat /\ v.size <= Capacity
  BY DEF Vectors
<1>2. Live(v) = I
  BY <1>1 DEF Live, Slots
<1>3. IsFiniteSet(I) /\ Cardinality(I) = v.size
  <2>1. v.size - 1 \in Int /\ 0 \in Int
    BY <1>1
  <2>2. IsFiniteSet(I) /\ Cardinality(I) =
          IF 0 > v.size - 1 THEN 0 ELSE (v.size - 1) - 0 + 1
    BY <2>1, FS_Interval
  <2> QED BY <1>1, <2>2
<1>4. f \in Surjection(I, Content(v))
  <2>1. f \in [I -> Content(v)]
    BY <1>2 DEF Content
  <2>2. \A h \in Content(v) : \E i \in I : f[i] = h
    BY <1>2 DEF Content
  <2> QED BY <2>1, <2>2 DEF Surjection
<1>5. IsFiniteSet(Content(v)) /\ Cardinality(Content(v)) <= Cardinality(I)
  <2> HIDE DEF f, I
  <2> QED BY <1>3, <1>4, FS_Surjection
<1> QED BY <1>3, <1>5

\* The instance and this module count alike.
LEMMA SameCardinality == \A S : Abstract!Cardinality(S) = Cardinality(S)
  BY DEF Abstract!Cardinality, Cardinality

LEMMA RefinementStep ==
  TypeOK /\ NoDuplicates /\ Ownership /\ Lifecycle /\ [Next]_vars
    => [Abstract!Next]_(Abstract!vars)
<1> SUFFICES ASSUME TypeOK, NoDuplicates, Ownership, Lifecycle, [Next]_vars
             PROVE  [Abstract!Next]_(Abstract!vars)
  OBVIOUS
<1> DEFINE D == {t \in Threads : life[t] = "gone"}
<1> USE ThreadsAssumption DEF TypeOK
<1>1. array' = array => Members' = Members
  BY DEF Members, Content, Live
<1>2. ASSUME NEW t \in Threads, Update(t)
      PROVE  \/ Abstract!Join(call[t].id)
             \/ Abstract!Leave(call[t].id)
             \/ UNCHANGED Abstract!vars
  <2>1. life' = life /\ D' = D
    BY <1>2 DEF Update
  <2>2. CASE call[t].op # "register"
    <3>1. Members' = Members \ {call[t].id}
      BY <1>2, <2>2, UpdateMembers
    <3> QED BY <2>1, <3>1 DEF Abstract!Leave
  <2>3. CASE call[t].op = "register"
    <3>1. array' = Registered(array, call[t].id) /\ call[t].id \in Threads
      BY <1>2, <2>3 DEF Update, Result, Calls
    <3>2. CASE array' = array
      BY <2>1, <1>1, <3>2 DEF Abstract!vars
    <3>3. CASE array' # array
      <4>1. /\ call[t].id \notin Members
            /\ array.size < Capacity
            /\ Members \subseteq Members'
            /\ Members' \subseteq Members \union {call[t].id}
        BY <3>1, <3>3, <1>2, <2>3, NoDuplicatesIsDistinct, RegisteredFacts,
           UpdateMembers
        DEF Members
      <4>2. CASE Members' = Members
        BY <2>1, <4>2 DEF Abstract!vars
      <4>3. CASE Members' # Members
        <5>1. Members' = Members \union {call[t].id}
          <6>1. PICK h \in Members' : h \notin Members
            BY <4>1, <4>3
          <6>2. h = call[t].id
            BY <4>1, <6>1
          <6> QED BY <4>1, <6>1, <6>2
        <5>2. Cardinality(Members) < Capacity
          <6>1. /\ IsFiniteSet(Members)
                /\ Cardinality(Members) <= array.size
            BY ContentSize DEF Members
          <6>2. Cardinality(Members) \in Nat
            BY <6>1, FS_CardinalityType
          <6> QED BY <4>1, <6>1, <6>2, CapacityAssumption DEF Vectors
        <5>3. call[t].id \in ById \/ call[t].id \notin D
          BY <1>2 DEF Lifecycle, Busy, Update
        <5>4. Abstract!Join(call[t].id)
          <6> SUFFICES /\ call[t].id \in ById \/ call[t].id \notin D
                       /\ Cardinality(Members) < Capacity
                       /\ Members' = Members \union {call[t].id}
                       /\ D' = D
            BY SameCardinality DEF Abstract!Join
          <6> QED BY <2>1, <5>1, <5>2, <5>3
        <5> QED BY <5>4
      <4> QED BY <4>2, <4>3
    <3> QED BY <3>2, <3>3
  <2> QED BY <2>2, <2>3
<1>3. ASSUME NEW t \in Threads, ExitPlain(t) \/ Unlock(t)
      PROVE  Abstract!Die(t) \/ UNCHANGED Abstract!vars
  <2>1. Members' = Members
    BY <1>1, <1>3 DEF ExitPlain, Unlock
  <2>2. CASE life' = life
    BY <2>1, <2>2 DEF Abstract!vars
  <2>3. CASE life' # life
    <3>1. D' = D \union {t}
      BY <1>3, <2>3 DEF ExitPlain, Unlock
    <3>2. t \in Members => t \in ById
      BY <1>3, <2>3 DEF ExitPlain, Unlock, Lifecycle
    <3> QED BY <2>1, <3>1, <3>2 DEF Abstract!Die
  <2> QED BY <2>2, <2>3
<1>4. ASSUME NEW t \in Threads, Spawn(t) PROVE Abstract!Reuse(t)
  <2>1. D' = D \ {t}
    BY <1>4 DEF Spawn
  <2> QED BY <1>1, <1>4, <2>1 DEF Spawn, Abstract!Reuse
<1>5. CASE ~ \E t \in Threads :
             Update(t) \/ ExitPlain(t) \/ Unlock(t) \/ Spawn(t)
  <2>1. array' = array /\ D' = D
    <3>1. CASE \E t \in Threads : ExitHooked(t)
      <4>1. PICK t \in Threads : ExitHooked(t)
        BY <3>1
      <4> QED BY <4>1 DEF ExitHooked, Idle
    <3>2. CASE ~ \E t \in Threads : ExitHooked(t)
      BY <1>5, <3>2 DEF Next, Step, RegisterSelf, RegisterId, UnregisterId,
         CopyBegin, Lock, PublishSlot, PublishSize, CopyElement, CopyEnd,
         copyVars, regVars, vars
    <3> QED BY <3>1, <3>2
  <2> QED BY <1>1, <2>1 DEF Abstract!vars
<1>6. ASSUME NEW t \in Threads, Update(t) PROVE Abstract!Next \/ UNCHANGED Abstract!vars
  <2>1. call[t].id \in Threads
    BY DEF Calls
  <2> QED BY <1>2, <1>6, <2>1 DEF Abstract!Next
<1> QED BY <1>3, <1>4, <1>5, <1>6 DEF Abstract!Next

-----------------------------------------------------------------------------
(* The theorems *)

IInv == /\ TypeOK
        /\ NoDuplicates
        /\ Ownership
        /\ Lifecycle
        /\ PendingRegister
        /\ CopyPlaces

LEMMA IInvInit == Init => IInv
<1> SUFFICES ASSUME Init PROVE IInv
  OBVIOUS
<1>1. Members = {} /\ Live(array) = {}
  BY DEF Init, Members, Content, Live, Slots
<1> QED
  BY <1>1, TypeInit, ThreadsAssumption
  DEF Init, IInv, NoDuplicates, Ownership, Lifecycle, Busy, PendingRegister,
      CopyPlaces

THEOREM Inductive == Spec => []IInv
<1>1. IInv /\ [Next]_vars => IInv'
  BY TypeStep, NoDuplicatesStep, OwnershipStep, LifecycleStep,
     PendingRegisterStep, CopyPlacesStep
  DEF IInv
<1> QED BY IInvInit, <1>1, PTL DEF Spec

\* Every variable keeps its type: in particular the index that find returns
\* and the slots that push_back, swap and resize write are inside the array.
THEOREM TypeCorrect == Spec => []TypeOK
<1>1. IInv => TypeOK
  BY DEF IInv
<1> QED BY Inductive, <1>1, PTL

\* However the registrations interleave, a handle is in one slot only.
THEOREM NoDuplicateHandles == Spec => []NoDuplicates
<1>1. IInv => NoDuplicates
  BY DEF IInv
<1> QED BY Inductive, <1>1, PTL

\* A thread that registered itself has left the registry when it ends.
THEOREM SelfUnregister == Spec => []NoDeadSelfRegistered
<1>1. IInv => NoDeadSelfRegistered
  BY DEF IInv, Lifecycle, NoDeadSelfRegistered, NoDuplicates
<1> QED BY Inductive, <1>1, PTL

\* An unlocked copy that overlaps registrations only misses nobody.
THEOREM CopiesComplete == Spec => []CopyCompleteUnlessUnregister
<1>1. ASSUME IInv, NEW t \in Readers, Copied(t), ~disturbed[t],
             NEW h \in steady[t]
      PROVE  h \in Elements(t)
  <2>1. t \in Threads /\ pc[t] = "copy" /\ copy[t].todo = {}
    BY <1>1, ThreadsAssumption DEF Copied
  <2>2. PICK i \in Live(array) : i < copy[t].n /\ copy[t].got[i] = h
    BY <1>1, <2>1 DEF IInv, CopyPlaces, Placed
  <2>3. i \in 0 .. copy[t].n - 1
    BY <1>1, <2>1, <2>2, CapacityAssumption DEF Live, Slots, IInv, TypeOK, Copies
  <2> QED BY <2>2, <2>3 DEF Elements
<1>2. IInv => CopyCompleteUnlessUnregister
  BY <1>1 DEF CopyCompleteUnlessUnregister
<1> QED BY Inductive, <1>2, PTL

\* The registry implements the bounded set of handles.
THEOREM Refinement == Spec => ImplementsSet
<1>1. Init => Abstract!Init
  BY DEF Init, Abstract!Init, Members, Content, Live, Slots
<1>2. IInv /\ [Next]_vars => [Abstract!Next]_(Abstract!vars)
  BY RefinementStep DEF IInv
<1> QED BY Inductive, <1>1, <1>2, PTL DEF Spec, ImplementsSet, Abstract!Spec
=============================================================================
