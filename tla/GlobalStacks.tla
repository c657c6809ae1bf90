--------------------------- MODULE GlobalStacks ---------------------------
(***************************************************************************)
(* The call stacks of all processes (StackTrace.cpp, "Global call stack    *)
(* functionality"): every rank of an MPI communicator runs a monitor       *)
(* thread that answers a request (a tag) with its packed call stacks; a    *)
(* rank that wants the stacks asks every other rank with a random tag and  *)
(* merges the answers that carry the tag, until all have come or the time  *)
(* is up.                                                                  *)
(*                                                                         *)
(* Messages between two ranks with the same communicator and tag do not    *)
(* overtake each other.  A send either buffers its message or waits for    *)
(* the matching receive: MPI allows both (SendModes).                      *)
(***************************************************************************)
EXTENDS Integers, Sequences, FiniteSets

CONSTANTS
  Ranks,       \* the ranks of the communicator
  Root,        \* rank 0
  Tags,        \* 2 .. 0x7FFF
  Supported,   \* MPI is initialized and provides MPI_THREAD_MULTIPLE
  SendModes,   \* what MPI_Send may do: "buffer" the message, or "wait"
  MaxThreads,  \* bound: registered threads of a rank
  MaxCalls,    \* bound: calls of getGlobalCallStacks of a rank
  None

ASSUME GlobalStacksAssumption ==
  /\ IsFiniteSet(Ranks)
  /\ Root \in Ranks
  /\ Tags # {}
  /\ Supported \in BOOLEAN
  /\ SendModes \subseteq {"buffer", "wait"} /\ SendModes # {}
  /\ MaxThreads \in Nat
  /\ MaxCalls \in Nat
  /\ None \notin Nat

VARIABLES
  registered,  \* registered[r]: threads of r in registeredThreads()
  main,        \* main[r]: what the calling thread of r does
  status,      \* status[r]: globalMonitorThreadStatus
  count,       \* the N_threads that rank 0 has broadcast
  entered,     \* the ranks that have called MPI_Comm_dup
  comm,        \* comm[r]: globalCommForGlobalCommStack is not MPI_COMM_NULL
  monitor,     \* monitor[r]: the monitor thread and the request it answers
  requests,    \* requests[s][r]: requests from s to r under way
  answers,     \* answers[s][r]: answers from s to r under way
  calls,       \* calls[r]: the calls of r, their tags and outcomes
  merged       \* merged[r]: the answers merged by the last call of r

vars == <<registered, main, status, count, entered, comm, monitor, requests,
          answers, calls, merged>>
setup == <<registered, count, entered, comm>>

MainLabels == {"start", "bcast", "dup", "ready", "wait", "join", "end"}
MonitorLabels == {"off", "loop", "probe", "send", "sending", "done"}
Idle(label) == [at |-> label, src |-> None, tag |-> None, id |-> None]

Goto(r, label) == main' = [main EXCEPT ![r] = label]
Monitoring(r, label) == monitor' = [monitor EXCEPT ![r] = Idle(label)]
Last(r) == Len(calls[r])
Finish(r, outcome) == calls' = [calls EXCEPT ![r][Last(r)].outcome = outcome]

Init ==
  /\ registered \in [Ranks -> 0 .. MaxThreads]
  /\ main = [r \in Ranks |-> "start"]
  /\ status = [r \in Ranks |-> -1]
  /\ count = None
  /\ entered = {}
  /\ comm = [r \in Ranks |-> FALSE]
  /\ monitor = [r \in Ranks |-> Idle("off")]
  /\ requests = [s \in Ranks |-> [r \in Ranks |-> <<>>]]
  /\ answers = [s \in Ranks |-> [r \in Ranks |-> <<>>]]
  /\ calls = [r \in Ranks |-> <<>>]
  /\ merged = [r \in Ranks |-> {}]

-----------------------------------------------------------------------------
(* globalCallStackInitialize *)

Initialize(r) ==
  /\ main[r] = "start"
  /\ status' = [status EXCEPT ![r] = 3]
  /\ Goto(r, IF Supported THEN "bcast" ELSE "ready")
  /\ UNCHANGED <<setup, monitor, requests, answers, calls, merged>>

\* Rank 0 counts its registered threads (the thread it starts for the test
\* registers nothing); a count of 1 turns the feature off.
Decide(r, n) ==
  /\ IF n = 1
     THEN Goto(r, "ready") /\ UNCHANGED <<status, entered>>
     ELSE /\ status' = [status EXCEPT ![r] = 1]
          /\ entered' = entered \union {r}
          /\ Goto(r, "dup")
  /\ UNCHANGED <<registered, comm, monitor, requests, answers, calls, merged>>

\* Variant: the count is not broadcast, the others decide by their own 0.
BcastNone(r) ==
  /\ main[r] = "bcast"
  /\ count' = registered[Root]
  /\ Decide(r, IF r = Root THEN registered[Root] ELSE 0)

Bcast(r) ==
  /\ main[r] = "bcast"
  /\ r = Root \/ count # None
  /\ count' = IF r = Root THEN registered[Root] ELSE count
  /\ Decide(r, count')

\* MPI_Comm_dup returns when every rank has called it; the monitor starts.
CommDup(r) ==
  /\ main[r] = "dup"
  /\ entered = Ranks
  /\ comm' = [comm EXCEPT ![r] = TRUE]
  /\ Monitoring(r, "loop")
  /\ Goto(r, "ready")
  /\ UNCHANGED <<registered, status, count, entered, requests, answers, calls,
                 merged>>

-----------------------------------------------------------------------------
(* getRemoteCallStacks *)

\* Variant: rank itself is asked too.
AskEveryone(r, tag) ==
  /\ main[r] = "ready"
  /\ status[r] = 1
  /\ Last(r) < MaxCalls
  /\ calls' = [calls EXCEPT ![r] = Append(@, [tag |-> tag, outcome |-> "open"])]
  /\ requests' = [requests EXCEPT ![r] = [s \in Ranks |->
       Append(@[s], [tag |-> tag, id |-> Last(r) + 1])]]
  /\ merged' = [merged EXCEPT ![r] = {}]
  /\ Goto(r, "wait")
  /\ UNCHANGED <<setup, status, monitor, answers>>

Ask(r, tag) ==
  /\ main[r] = "ready"
  /\ status[r] = 1
  /\ Last(r) < MaxCalls
  /\ calls' = [calls EXCEPT ![r] = Append(@, [tag |-> tag, outcome |-> "open"])]
  /\ requests' = [requests EXCEPT ![r] = [s \in Ranks |->
       IF s = r THEN @[s] ELSE Append(@[s], [tag |-> tag, id |-> Last(r) + 1])]]
  /\ merged' = [merged EXCEPT ![r] = {}]
  /\ Goto(r, "wait")
  /\ UNCHANGED <<setup, status, monitor, answers>>

\* The answers from s that r's MPI_Iprobe( MPI_ANY_SOURCE, tag ) sees.
Matching(s, r) ==
  {i \in DOMAIN answers[s][r] : answers[s][r][i].tag = calls[r][Last(r)].tag}
Oldest(I) == CHOOSE i \in I : \A j \in I : i <= j
Without(q, i) == SubSeq(q, 1, i - 1) \o SubSeq(q, i + 1, Len(q))

Take(s, r, i) ==
  /\ merged' = [merged EXCEPT ![r] = @ \union {[from |-> s, id |-> answers[s][r][i].id]}]
  /\ answers' = [answers EXCEPT ![s][r] = Without(@, i)]
  /\ UNCHANGED <<setup, main, status, monitor, requests, calls>>

\* N_finished < size
Missing(r) == Cardinality(merged[r]) + 1 < Cardinality(Ranks)

\* Variant: MPI_ANY_TAG.
ReceiveAnyTag(r, s) ==
  /\ main[r] = "wait"
  /\ Missing(r)
  /\ answers[s][r] # <<>>
  /\ Take(s, r, 1)

Receive(r, s) ==
  /\ main[r] = "wait"
  /\ Missing(r)
  /\ Matching(s, r) # {}
  /\ Take(s, r, Oldest(Matching(s, r)))

AllReceived(r) ==
  /\ main[r] = "wait"
  /\ ~Missing(r)
  /\ Finish(r, "full")
  /\ Goto(r, "ready")
  /\ UNCHANGED <<setup, status, monitor, requests, answers, merged>>

\* Variant: the clock starts when the requests have been received.
TimeoutLate(r) ==
  /\ main[r] = "wait"
  /\ Missing(r)
  /\ \A s \in Ranks : Matching(s, r) = {} /\ requests[r][s] = <<>>
  /\ Finish(r, "timeout")
  /\ Goto(r, "ready")
  /\ UNCHANGED <<setup, status, monitor, requests, answers, merged>>

\* The time is read when the probe finds nothing.
Timeout(r) ==
  /\ main[r] = "wait"
  /\ Missing(r)
  /\ \A s \in Ranks : Matching(s, r) = {}
  /\ Finish(r, "timeout")
  /\ Goto(r, "ready")
  /\ UNCHANGED <<setup, status, monitor, requests, answers, merged>>

-----------------------------------------------------------------------------
(* globalCallStackFinalize *)

\* Variant: the monitor is not joined.
FinalizeNoJoin(r) ==
  /\ main[r] = "ready"
  /\ status' = [status EXCEPT ![r] = IF comm[r] THEN 2 ELSE @]
  /\ comm' = [comm EXCEPT ![r] = FALSE]
  /\ Goto(r, "end")
  /\ UNCHANGED <<registered, count, entered, monitor, requests, answers, calls,
                 merged>>

Finalize(r) ==
  /\ main[r] = "ready"
  /\ IF monitor[r].at = "off"
     THEN Goto(r, "end") /\ UNCHANGED status
     ELSE Goto(r, "join") /\ status' = [status EXCEPT ![r] = 2]
  /\ UNCHANGED <<setup, monitor, requests, answers, calls, merged>>

Join(r) ==
  /\ main[r] = "join"
  /\ monitor[r].at = "done"
  /\ comm' = [comm EXCEPT ![r] = FALSE]
  /\ Goto(r, "end")
  /\ UNCHANGED <<registered, status, count, entered, monitor, requests, answers,
                 calls, merged>>

-----------------------------------------------------------------------------
(* runGlobalMonitorThread *)

\* Variant: status 2 does not end the loop.
LoopOn(r) ==
  /\ monitor[r].at = "loop"
  /\ Monitoring(r, "probe")
  /\ UNCHANGED <<setup, main, status, requests, answers, calls, merged>>

Loop(r) ==
  /\ monitor[r].at = "loop"
  /\ Monitoring(r, IF status[r] = 1 THEN "probe" ELSE "done")
  /\ UNCHANGED <<setup, main, status, requests, answers, calls, merged>>

NoRequest(r) ==
  /\ monitor[r].at = "probe"
  /\ \A s \in Ranks : requests[s][r] = <<>>
  /\ Monitoring(r, "loop")
  /\ UNCHANGED <<setup, main, status, requests, answers, calls, merged>>

\* A request is received; a rank without registered threads does not answer.
Request(r, s) ==
  /\ monitor[r].at = "probe"
  /\ requests[s][r] # <<>>
  /\ requests' = [requests EXCEPT ![s][r] = Tail(@)]
  /\ monitor' = [monitor EXCEPT ![r] =
       IF registered[r] = 0
       THEN Idle("loop")
       ELSE LET q == Head(requests[s][r])
            IN  [at |-> "send", src |-> s, tag |-> q.tag, id |-> q.id]]
  /\ UNCHANGED <<setup, main, status, answers, calls, merged>>

\* MPI_Send begins; a buffered one ends at once.
Send(r, mode) ==
  LET m == monitor[r] IN
  /\ m.at = "send"
  /\ answers' = [answers EXCEPT ![r][m.src] = Append(@, [tag |-> m.tag, id |-> m.id])]
  /\ monitor' = [monitor EXCEPT ![r] =
       IF mode = "wait" THEN [m EXCEPT !.at = "sending"] ELSE Idle("loop")]
  /\ UNCHANGED <<setup, main, status, requests, calls, merged>>

Sent(r) ==
  LET m == monitor[r] IN
  /\ m.at = "sending"
  /\ \A i \in DOMAIN answers[r][m.src] : answers[r][m.src][i].id # m.id
  /\ Monitoring(r, "loop")
  /\ UNCHANGED <<setup, main, status, requests, answers, calls, merged>>

-----------------------------------------------------------------------------
\* What a rank does without being asked to by the program.
Waiting(r) ==
  \/ Bcast(r) \/ CommDup(r) \/ AllReceived(r) \/ Timeout(r) \/ Join(r)
  \/ \E s \in Ranks : Receive(r, s)

Monitor(r) ==
  \/ Loop(r) \/ NoRequest(r) \/ Sent(r)
  \/ \E s \in Ranks : Request(r, s)
  \/ \E mode \in SendModes : Send(r, mode)

Next ==
  \E r \in Ranks :
    \/ Initialize(r) \/ Finalize(r) \/ Waiting(r) \/ Monitor(r)
    \/ \E tag \in Tags : Ask(r, tag)

Spec == Init /\ [][Next]_vars

\* Threads are scheduled, time passes, and every rank makes the collective
\* call that the others wait for.
FairSpec ==
  /\ Spec
  /\ \A r \in Ranks :
       WF_vars(Initialize(r)) /\ WF_vars(Waiting(r)) /\ WF_vars(Monitor(r))

-----------------------------------------------------------------------------
(* Properties *)

\* Types of the variables.
TypeOK ==
  /\ registered \in [Ranks -> 0 .. MaxThreads]
  /\ main \in [Ranks -> MainLabels]
  /\ status \in [Ranks -> {-1, 1, 2, 3}]
  /\ count \in Nat \union {None}
  /\ entered \subseteq Ranks
  /\ comm \in [Ranks -> BOOLEAN]
  /\ \A r \in Ranks :
       /\ monitor[r].at \in MonitorLabels
       /\ monitor[r].src \in (Ranks \ {r}) \union {None}
       /\ \A s \in Ranks :
            /\ \A i \in DOMAIN requests[s][r] :
                 requests[s][r][i] \in [tag : Tags, id : 1 .. Last(s)]
            /\ \A i \in DOMAIN answers[s][r] :
                 answers[s][r][i] \in [tag : Tags, id : 1 .. Last(r)]
       /\ Last(r) <= MaxCalls
       /\ \A i \in 1 .. Last(r) :
            calls[r][i] \in [tag : Tags, outcome : {"open", "full", "timeout"}]
       /\ merged[r] \subseteq [from : Ranks \ {r}, id : 1 .. Last(r)]

Stale(r) == {m \in merged[r] : m.id # Last(r)}

\* getRemoteCallStacks merges late answers to an earlier call only when that
\* call happened to draw the same tag.
CurrentUnlessTagReused ==
  \A r \in Ranks : \A m \in Stale(r) : calls[r][m.id].tag = calls[r][Last(r)].tag

\* A call that returns with N_finished = size, and merged no late answer, has
\* the stacks of every other rank, none of them twice.
FullHasEveryRank ==
  \A r \in Ranks :
    /\ main[r] = "ready" /\ Last(r) > 0 /\ calls[r][Last(r)].outcome = "full"
    /\ Stale(r) = {}
    => {m.from : m \in merged[r]} = Ranks \ {r}

\* globalCallStackInitialize: all ranks turn the feature on, or none does; a
\* rank alone in MPI_Comm_dup would wait for ever.
SupportAgreed ==
  \A r, s \in Ranks :
    {main[r], main[s]} \intersect {"start", "bcast"} = {} =>
      (r \in entered <=> s \in entered)

\* globalCallStackFinalize: no monitor uses the communicator once it is freed.
CommFreedAfterMonitor ==
  \A r \in Ranks : ~comm[r] => monitor[r].at \in {"off", "done"}

\* globalCallStackInitialize returns on every rank.
InitializeEnds ==
  \A r \in Ranks : (main[r] \in {"bcast", "dup"}) ~> (main[r] = "ready")

\* getGlobalCallStacks returns, whatever the other ranks do.
CallEnds == \A r \in Ranks : (main[r] = "wait") ~> (main[r] = "ready")

\* The monitor of r is sending an answer that its asker no longer waits for.
Unwanted(r) ==
  LET m == monitor[r] IN
  /\ m.at = "sending"
  /\ Last(m.src) # m.id \/ calls[m.src][m.id].outcome # "open"

\* globalCallStackFinalize returns, unless MPI_Send waits for the asker of an
\* answer to receive it, and the asker has given up.
FinalizeEndsUnlessUnwanted ==
  \A r \in Ranks : (main[r] = "join") ~> (main[r] = "end" \/ Unwanted(r))
=============================================================================
