------------------------- MODULE GlobalStacksProofs -------------------------
(***************************************************************************)
(* Proofs about the global call stacks, for every set of ranks and tags    *)
(* and any number of calls and of registered threads.  The inductive       *)
(* invariant is built in layers: types; who supports the feature; the      *)
(* communicator; the call that each message belongs to; and the answers    *)
(* that a full call has counted.                                           *)
(***************************************************************************)
EXTENDS GlobalStacks, SequenceTheorems, FiniteSetTheorems, WellFoundedInduction,
        TLAPS

Messages == [tag : Tags, id : Nat \ {0}]
Records == [tag : Tags, outcome : {"open", "full", "timeout"}]

\* The containers of TypeOK, without the bounds that depend on the state.
SetupTypes ==
  /\ registered \in [Ranks -> 0 .. MaxThreads]
  /\ main \in [Ranks -> MainLabels]
  /\ status \in [Ranks -> {-1, 1, 2, 3}]
  /\ count \in Nat \union {None}
  /\ entered \subseteq Ranks
  /\ comm \in [Ranks -> BOOLEAN]
Answering(r) == monitor[r].at \in {"send", "sending"}
MonitorTypes ==
  /\ monitor \in [Ranks -> [at : MonitorLabels, src : Ranks \union {None},
                            tag : Tags \union {None}, id : Nat \union {None}]]
  /\ \A r \in Ranks :
       IF Answering(r)
       THEN /\ monitor[r].src \in Ranks \ {r}
            /\ monitor[r].tag \in Tags
            /\ monitor[r].id \in Nat \ {0}
       ELSE monitor[r].src = None
MessageTypes ==
  /\ requests \in [Ranks -> [Ranks -> Seq(Messages)]]
  /\ answers \in [Ranks -> [Ranks -> Seq(Messages)]]
  /\ \A r \in Ranks : requests[r][r] = <<>> /\ answers[r][r] = <<>>
CallTypes ==
  /\ calls \in [Ranks -> Seq(Records)]
  /\ \A r \in Ranks : main[r] = "wait" => calls[r] # <<>>
  /\ \A r \in Ranks : Len(calls[r]) <= MaxCalls
MergedTypes ==
  /\ merged \in [Ranks -> SUBSET [from : Ranks, id : Nat \ {0}]]
  /\ \A r \in Ranks : \A m \in merged[r] : m.from # r

Types == SetupTypes /\ MonitorTypes /\ MessageTypes /\ CallTypes /\ MergedTypes

-----------------------------------------------------------------------------
(* Sequences of messages *)

\* Taking one element out of a sequence leaves the others, in their order.
LEMMA WithoutElements ==
  ASSUME NEW S, NEW q \in Seq(S), NEW i \in 1 .. Len(q)
  PROVE  /\ Without(q, i) \in Seq(S)
         /\ Len(Without(q, i)) = Len(q) - 1
         /\ \A j \in 1 .. Len(q) - 1 :
              Without(q, i)[j] = q[IF j < i THEN j ELSE j + 1]
<1> DEFINE a == SubSeq(q, 1, i - 1)
           b == SubSeq(q, i + 1, Len(q))
<1>1. /\ a \in Seq(S) /\ Len(a) = i - 1
      /\ \A j \in 1 .. i - 1 : a[j] = q[j]
  BY SubSeqProperties
<1>2. /\ b \in Seq(S) /\ Len(b) = Len(q) - i
      /\ \A j \in 1 .. Len(q) - i : b[j] = q[i + j]
  BY SubSeqProperties
<1> HIDE DEF a, b
<1>3. /\ a \o b \in Seq(S) /\ Len(a \o b) = Len(a) + Len(b)
      /\ \A j \in 1 .. Len(a) + Len(b) :
           (a \o b)[j] = IF j <= Len(a) THEN a[j] ELSE b[j - Len(a)]
  BY <1>1, <1>2, ConcatProperties
<1>4. Len(q) \in Nat /\ Len(a \o b) = Len(q) - 1
  BY <1>1, <1>2, <1>3, LenProperties
<1>5. ASSUME NEW j \in 1 .. Len(q) - 1
      PROVE  (a \o b)[j] = q[IF j < i THEN j ELSE j + 1]
  <2>1. CASE j < i
    <3>1. j <= Len(a) /\ j \in 1 .. i - 1 /\ j \in 1 .. Len(a) + Len(b)
      BY <1>1, <1>2, <1>4, <2>1
    <3> QED BY <1>1, <1>3, <2>1, <3>1
  <2>2. CASE ~(j < i)
    <3>1. /\ ~(j <= Len(a)) /\ j - Len(a) \in 1 .. Len(q) - i
          /\ j \in 1 .. Len(a) + Len(b) /\ i + (j - Len(a)) = j + 1
      BY <1>1, <1>2, <1>4, <2>2
    <3> QED BY <1>2, <1>3, <2>2, <3>1
  <2> QED BY <2>1, <2>2
<1> QED BY <1>3, <1>4, <1>5 DEF Without, a, b

LEMMA WithoutFacts ==
  ASSUME NEW S, NEW q \in Seq(S), NEW i \in 1 .. Len(q)
  PROVE  /\ Without(q, i) \in Seq(S)
         /\ \A j \in 1 .. Len(Without(q, i)) :
              \E k \in 1 .. Len(q) : Without(q, i)[j] = q[k]
<1>1. Len(q) \in Nat
  BY LenProperties
<1>2. \A j \in 1 .. Len(q) - 1 : (IF j < i THEN j ELSE j + 1) \in 1 .. Len(q)
  BY <1>1
<1> QED BY <1>2, WithoutElements

-----------------------------------------------------------------------------
(* Types *)

LEMMA TypesInit == Init => Types
<1> SUFFICES ASSUME Init PROVE Types
  OBVIOUS
<1>1. SetupTypes
  BY DEF Init, SetupTypes, MainLabels
<1>2. MonitorTypes
  BY DEF Init, MonitorTypes, MonitorLabels, Idle, Answering
<1>3. MessageTypes
  BY EmptySeq DEF Init, MessageTypes
<1>4. CallTypes
  BY GlobalStacksAssumption, EmptySeq DEF Init, CallTypes
<1>5. MergedTypes
  BY DEF Init, MergedTypes
<1> QED BY <1>1, <1>2, <1>3, <1>4, <1>5 DEF Types

\* The steps of a main thread that ask and return change one call of one rank.
LEMMA FinishFacts ==
  ASSUME Types, NEW r \in Ranks, calls[r] # <<>>,
         NEW outcome \in {"open", "full", "timeout"}, Finish(r, outcome)
  PROVE  /\ calls' \in [Ranks -> Seq(Records)]
         /\ \A s \in Ranks : Len(calls'[s]) = Len(calls[s])
         /\ \A s \in Ranks : \A i \in 1 .. Len(calls[s]) :
              calls'[s][i].tag = calls[s][i].tag
<1> DEFINE q == [calls[r] EXCEPT ![Last(r)].outcome = outcome]
<1>1. calls \in [Ranks -> Seq(Records)]
  BY DEF Types, CallTypes
<1>2. calls' = [calls EXCEPT ![r] = q]
  BY <1>1 DEF Finish
<1>3. calls[r] \in Seq(Records) /\ Last(r) \in 1 .. Len(calls[r])
  BY <1>1, EmptySeq, LenProperties DEF Last
<1>4. calls[r][Last(r)] \in Records
  BY <1>3, ElementOfSeq
<1>5. [calls[r][Last(r)] EXCEPT !.outcome = outcome] \in Records
      /\ [calls[r][Last(r)] EXCEPT !.outcome = outcome].tag = calls[r][Last(r)].tag
  BY <1>4 DEF Records
<1>6. q = [calls[r] EXCEPT ![Last(r)] = [calls[r][Last(r)] EXCEPT !.outcome = outcome]]
  BY <1>3
<1>7. q \in Seq(Records) /\ Len(q) = Len(calls[r])
      /\ \A i \in 1 .. Len(calls[r]) : q[i].tag = calls[r][i].tag
  BY <1>3, <1>5, <1>6, ExceptSeq
<1> QED BY <1>1, <1>2, <1>7


\* What the actions leave alone keeps its type.
LEMMA UnchangedTypes ==
  /\ SetupTypes /\ UNCHANGED <<setup, main, status>> => SetupTypes'
  /\ MonitorTypes /\ UNCHANGED monitor => MonitorTypes'
  /\ MessageTypes /\ UNCHANGED <<requests, answers>> => MessageTypes'
  /\ CallTypes /\ UNCHANGED <<main, calls>> => CallTypes'
  /\ MergedTypes /\ UNCHANGED merged => MergedTypes'
BY DEF SetupTypes, MonitorTypes, MessageTypes, CallTypes, MergedTypes, Answering,
       setup

\* A main thread that goes anywhere but to "wait" keeps the types of its calls.
LEMMA GotoTypes ==
  ASSUME CallTypes, SetupTypes, NEW r \in Ranks, NEW label \in MainLabels \ {"wait"},
         Goto(r, label), UNCHANGED calls
  PROVE  CallTypes'
BY DEF CallTypes, SetupTypes, Goto

\* A monitor that waits for no answer has no source.
LEMMA IdleTypes ==
  ASSUME MonitorTypes, NEW r \in Ranks, NEW label \in MonitorLabels \ {"send", "sending"},
         Monitoring(r, label)
  PROVE  MonitorTypes'
<1>1. Idle(label) \in [at : MonitorLabels, src : Ranks \union {None},
                       tag : Tags \union {None}, id : Nat \union {None}]
  BY DEF Idle
<1>2. monitor' = [monitor EXCEPT ![r] = Idle(label)]
  BY DEF Monitoring
<1>3. Idle(label).src = None /\ Idle(label).at \notin {"send", "sending"}
  BY DEF Idle
<1> QED BY <1>1, <1>2, <1>3 DEF MonitorTypes, Answering

LEMMA InitializeTypes ==
  ASSUME Types, NEW r \in Ranks, Initialize(r)
  PROVE  Types'
<1>1. SetupTypes'
  BY DEF Types, SetupTypes, Initialize, Goto, MainLabels, setup
<1>2. CallTypes'
  BY GotoTypes DEF Types, Initialize, MainLabels
<1> QED BY <1>1, <1>2, UnchangedTypes DEF Types, Initialize

LEMMA BcastTypes ==
  ASSUME Types, NEW r \in Ranks, Bcast(r)
  PROVE  Types'
<1>1. SetupTypes'
  <2>1. count' \in Nat \union {None}
    BY GlobalStacksAssumption DEF Types, SetupTypes, Bcast
  <2> QED BY <2>1 DEF Types, SetupTypes, Bcast, Decide, Goto, MainLabels
<1>2. CallTypes'
  BY GotoTypes DEF Types, Bcast, Decide, MainLabels
<1> QED BY <1>1, <1>2, UnchangedTypes DEF Types, Bcast, Decide

LEMMA CommDupTypes ==
  ASSUME Types, NEW r \in Ranks, CommDup(r)
  PROVE  Types'
<1>1. SetupTypes'
  BY DEF Types, SetupTypes, CommDup, Goto, MainLabels
<1>2. CallTypes'
  BY GotoTypes DEF Types, CommDup, MainLabels
<1>3. MonitorTypes'
  BY IdleTypes DEF Types, CommDup, MonitorLabels
<1> QED BY <1>1, <1>2, <1>3, UnchangedTypes DEF Types, CommDup

LEMMA AskTypes ==
  ASSUME Types, NEW r \in Ranks, NEW tag \in Tags, Ask(r, tag)
  PROVE  Types'
<1> DEFINE call == [tag |-> tag, outcome |-> "open"]
           m == [tag |-> tag, id |-> Last(r) + 1]
<1>1. SetupTypes'
  BY DEF Types, SetupTypes, Ask, Goto, MainLabels, setup
<1>2. calls[r] \in Seq(Records) /\ Last(r) \in Nat
  BY LenProperties DEF Types, CallTypes, Last
<1>3. CallTypes'
  <2>1. calls' = [calls EXCEPT ![r] = Append(calls[r], call)]
    BY DEF Ask
  <2>2. /\ Append(calls[r], call) \in Seq(Records)
        /\ Append(calls[r], call) # <<>>
        /\ Len(Append(calls[r], call)) = Last(r) + 1
    <3>1. call \in Records
      BY DEF Records
    <3> QED BY <1>2, <3>1, AppendProperties DEF Last
  <2>3. Last(r) + 1 <= MaxCalls
    BY <1>2, GlobalStacksAssumption DEF Ask
  <2>4. \A s \in Ranks : main'[s] = IF s = r THEN "wait" ELSE main[s]
    BY DEF Types, SetupTypes, Ask, Goto
  <2> QED BY <2>1, <2>2, <2>3, <2>4 DEF Types, CallTypes
<1>4. MessageTypes'
  <2>1. m \in Messages
    BY <1>2 DEF Messages
  <2>2. \A s \in Ranks : Append(requests[r][s], m) \in Seq(Messages)
    BY <2>1, AppendProperties DEF Types, MessageTypes
  <2>3. [s \in Ranks |-> IF s = r THEN requests[r][s] ELSE Append(requests[r][s], m)]
          \in [Ranks -> Seq(Messages)]
    BY <2>2 DEF Types, MessageTypes
  <2>4. requests' = [requests EXCEPT ![r] =
          [s \in Ranks |-> IF s = r THEN requests[r][s] ELSE Append(requests[r][s], m)]]
    BY DEF Ask
  <2>5. UNCHANGED answers
    BY DEF Ask
  <2> QED BY <2>3, <2>4, <2>5 DEF Types, MessageTypes
<1>5. MergedTypes'
  BY DEF Types, MergedTypes, Ask
<1> QED BY <1>1, <1>3, <1>4, <1>5, UnchangedTypes DEF Types, Ask

\* The oldest matching answer is one of the answers under way.
LEMMA OldestFacts ==
  ASSUME MessageTypes, NEW r \in Ranks, NEW s \in Ranks, Matching(s, r) # {}
  PROVE  /\ Oldest(Matching(s, r)) \in 1 .. Len(answers[s][r])
         /\ answers[s][r][Oldest(Matching(s, r))].tag = calls[r][Last(r)].tag
<1>1. Matching(s, r) \subseteq 1 .. Len(answers[s][r]) /\ Matching(s, r) \subseteq Nat
  BY LenProperties DEF Matching, MessageTypes
<1>2. \E i \in Matching(s, r) : \A j \in Matching(s, r) : i <= j
  <2> DEFINE less == OpToRel(<, Nat)
  <2>1. PICK i \in Matching(s, r) : \A j \in Matching(s, r) : <<j, i>> \notin less
    <3>1. IsWellFoundedOn(less, Nat)
      BY NatLessThanWellFounded
    <3> HIDE DEF less
    <3> QED BY <1>1, <3>1, WFMin
  <2>2. \A x, y \in Nat : y < x => <<y, x>> \in less
    BY DEF OpToRel
  <2> HIDE DEF less
  <2>3. ASSUME NEW j \in Matching(s, r) PROVE i <= j
    <3>1. i \in Nat /\ j \in Nat
      BY <1>1
    <3>2. ~ (j < i)
      BY <2>1, <2>2, <3>1
    <3> QED BY <3>1, <3>2
  <2> QED BY <2>3
<1>3. Oldest(Matching(s, r)) \in Matching(s, r)
  BY <1>2 DEF Oldest
<1> QED BY <1>1, <1>3 DEF Matching

LEMMA ReceiveTypes ==
  ASSUME Types, NEW r \in Ranks, NEW s \in Ranks, Receive(r, s)
  PROVE  Types'
<1> DEFINE i == Oldest(Matching(s, r))
<1>1. i \in 1 .. Len(answers[s][r]) /\ Take(s, r, i)
  BY OldestFacts DEF Types, Receive
<1> HIDE DEF i
<1>2. answers[s][r] \in Seq(Messages) /\ answers[s][r][i] \in Messages
  BY <1>1, ElementOfSeq DEF Types, MessageTypes
<1>3. s # r
  BY <1>1, EmptySeq DEF Types, MessageTypes
<1>4. MessageTypes'
  <2>1. Without(answers[s][r], i) \in Seq(Messages)
    BY <1>1, <1>2, WithoutFacts
  <2>2. UNCHANGED requests /\ answers' = [answers EXCEPT ![s] =
          [answers[s] EXCEPT ![r] = Without(answers[s][r], i)]]
    BY <1>1 DEF Take, Types, MessageTypes
  <2> QED BY <1>3, <2>1, <2>2 DEF Types, MessageTypes
<1>5. MergedTypes'
  BY <1>1, <1>2, <1>3 DEF Take, Types, MergedTypes, Messages
<1> QED BY <1>1, <1>4, <1>5, UnchangedTypes DEF Types, Take, setup

\* The two ways a call returns.
LEMMA ReturnTypes ==
  ASSUME Types, NEW r \in Ranks, NEW outcome \in {"full", "timeout"},
         main[r] = "wait", Finish(r, outcome), Goto(r, "ready"),
         UNCHANGED <<setup, status, monitor, requests, answers, merged>>
  PROVE  Types'
<1>1. SetupTypes'
  BY DEF Types, SetupTypes, Goto, MainLabels, setup
<1>2. CallTypes'
  <2>1. calls[r] # <<>>
    BY DEF Types, CallTypes
  <2>2. /\ calls' \in [Ranks -> Seq(Records)]
        /\ \A s \in Ranks : Len(calls'[s]) = Len(calls[s])
    BY <2>1, FinishFacts
  <2>3. \A s \in Ranks : main'[s] = "wait" => calls'[s] # <<>>
    <3> SUFFICES ASSUME NEW s \in Ranks, main'[s] = "wait" PROVE calls'[s] # <<>>
      OBVIOUS
    <3>1. main[s] = "wait"
      BY DEF Types, SetupTypes, Goto
    <3>2. calls[s] \in Seq(Records) /\ calls[s] # <<>>
      BY <3>1 DEF Types, CallTypes
    <3>3. Len(calls'[s]) # 0
      BY <2>2, <3>2, EmptySeq
    <3> QED BY <3>3, EmptySeq
  <2> QED BY <2>2, <2>3 DEF Types, CallTypes
<1> QED BY <1>1, <1>2, UnchangedTypes DEF Types

LEMMA FinalizeTypes ==
  ASSUME Types, NEW r \in Ranks, Finalize(r)
  PROVE  Types'
<1>1. SetupTypes'
  BY DEF Types, SetupTypes, Finalize, Goto, MainLabels, setup
<1>2. CallTypes'
  BY GotoTypes DEF Types, Finalize, MainLabels
<1> QED BY <1>1, <1>2, UnchangedTypes DEF Types, Finalize

LEMMA JoinTypes ==
  ASSUME Types, NEW r \in Ranks, Join(r)
  PROVE  Types'
<1>1. SetupTypes'
  BY DEF Types, SetupTypes, Join, Goto, MainLabels
<1>2. CallTypes'
  BY GotoTypes DEF Types, Join, MainLabels
<1> QED BY <1>1, <1>2, UnchangedTypes DEF Types, Join

\* The steps of a monitor that leave it without an answer to send.
LEMMA MonitoringTypes ==
  ASSUME Types, NEW r \in Ranks, NEW label \in MonitorLabels \ {"send", "sending"},
         Monitoring(r, label),
         UNCHANGED <<setup, main, status, requests, answers, calls, merged>>
  PROVE  Types'
BY IdleTypes, UnchangedTypes DEF Types

LEMMA RequestTypes ==
  ASSUME Types, NEW r \in Ranks, NEW s \in Ranks, Request(r, s)
  PROVE  Types'
<1> DEFINE q == Head(requests[s][r])
           answer == [at |-> "send", src |-> s, tag |-> q.tag, id |-> q.id]
<1>1. requests[s][r] \in Seq(Messages) /\ requests[s][r] # <<>>
  BY DEF Types, MessageTypes, Request
<1>2. q \in Messages /\ Tail(requests[s][r]) \in Seq(Messages)
  BY <1>1, HeadTailProperties
<1>3. s # r
  BY <1>1 DEF Types, MessageTypes
<1>4. MessageTypes'
  <2>1. UNCHANGED answers /\ requests' = [requests EXCEPT ![s] =
          [requests[s] EXCEPT ![r] = Tail(requests[s][r])]]
    BY DEF Request, Types, MessageTypes
  <2> QED BY <1>2, <1>3, <2>1 DEF Types, MessageTypes
<1>5. MonitorTypes'
  <2>1. CASE registered[r] = 0
    BY <2>1, IdleTypes DEF Types, Request, Monitoring, MonitorLabels
  <2>2. CASE registered[r] # 0
    <3>1. monitor' = [monitor EXCEPT ![r] = answer]
      BY <2>2 DEF Request
    <3>2. /\ answer \in [at : MonitorLabels, src : Ranks \union {None},
                         tag : Tags \union {None}, id : Nat \union {None}]
          /\ answer.at = "send" /\ answer.src \in Ranks \ {r}
          /\ answer.tag \in Tags /\ answer.id \in Nat \ {0}
      BY <1>2, <1>3 DEF MonitorLabels, Messages
    <3> HIDE DEF answer
    <3> QED BY <3>1, <3>2 DEF Types, MonitorTypes, Answering
  <2> QED BY <2>1, <2>2
<1> QED BY <1>4, <1>5, UnchangedTypes DEF Types, Request

LEMMA SendTypes ==
  ASSUME Types, NEW r \in Ranks, NEW mode \in SendModes, Send(r, mode)
  PROVE  Types'
<1> DEFINE m == monitor[r]
           answer == [tag |-> m.tag, id |-> m.id]
<1>1. /\ m.at = "send" /\ m.src \in Ranks \ {r} /\ m.tag \in Tags /\ m.id \in Nat \ {0}
      /\ m \in [at : MonitorLabels, src : Ranks \union {None},
                tag : Tags \union {None}, id : Nat \union {None}]
  BY DEF Send, Types, MonitorTypes, Answering
<1>2. MessageTypes'
  <2>1. answer \in Messages
    BY <1>1 DEF Messages
  <2>2. Append(answers[r][m.src], answer) \in Seq(Messages)
    BY <1>1, <2>1, AppendProperties DEF Types, MessageTypes
  <2>3. UNCHANGED requests /\ answers' = [answers EXCEPT ![r] =
          [answers[r] EXCEPT ![m.src] = Append(answers[r][m.src], answer)]]
    BY <1>1 DEF Send, Types, MessageTypes
  <2> QED BY <1>1, <2>2, <2>3 DEF Types, MessageTypes
<1>3. MonitorTypes'
  <2>1. CASE mode = "wait"
    <3> DEFINE sending == [m EXCEPT !.at = "sending"]
    <3>1. monitor' = [monitor EXCEPT ![r] = sending]
      BY <2>1 DEF Send
    <3>2. /\ sending \in [at : MonitorLabels, src : Ranks \union {None},
                          tag : Tags \union {None}, id : Nat \union {None}]
          /\ sending.at = "sending" /\ sending.src \in Ranks \ {r}
          /\ sending.tag \in Tags /\ sending.id \in Nat \ {0}
      BY <1>1 DEF MonitorLabels
    <3> HIDE DEF sending
    <3> QED BY <3>1, <3>2 DEF Types, MonitorTypes, Answering
  <2>2. CASE mode # "wait"
    BY <2>2, IdleTypes DEF Types, Send, Monitoring, MonitorLabels
  <2> QED BY <2>1, <2>2
<1> QED BY <1>2, <1>3, UnchangedTypes DEF Types, Send

LEMMA TypesStep == Types /\ [Next]_vars => Types'
<1> SUFFICES ASSUME Types, [Next]_vars PROVE Types'
  OBVIOUS
<1>1. CASE UNCHANGED vars
  BY <1>1, UnchangedTypes DEF vars, Types, setup
<1> SUFFICES ASSUME NEW r \in Ranks,
                    \/ Initialize(r) \/ Finalize(r) \/ Waiting(r) \/ Monitor(r)
                    \/ \E tag \in Tags : Ask(r, tag)
             PROVE  Types'
  BY <1>1 DEF Next
<1>2. CASE Initialize(r)
  BY <1>2, InitializeTypes
<1>3. CASE Finalize(r)
  BY <1>3, FinalizeTypes
<1>4. CASE Waiting(r)
  <2>1. CASE AllReceived(r) \/ Timeout(r)
    BY <2>1, ReturnTypes DEF AllReceived, Timeout
  <2>2. CASE \E s \in Ranks : Receive(r, s)
    BY <2>2, ReceiveTypes
  <2> QED BY <1>4, <2>1, <2>2, BcastTypes, CommDupTypes, JoinTypes DEF Waiting
<1>5. CASE Monitor(r)
  <2>1. CASE Loop(r) \/ NoRequest(r) \/ Sent(r)
    BY <2>1, MonitoringTypes DEF Loop, NoRequest, Sent, MonitorLabels
  <2>2. CASE \E s \in Ranks : Request(r, s)
    BY <2>2, RequestTypes
  <2>3. CASE \E mode \in SendModes : Send(r, mode)
    BY <2>3, SendTypes
  <2> QED BY <1>5, <2>1, <2>2, <2>3 DEF Monitor
<1>6. CASE \E tag \in Tags : Ask(r, tag)
  BY <1>6, AskTypes
<1> QED BY <1>2, <1>3, <1>4, <1>5, <1>6

\* The types of the variables hold in every reachable state.
LEMMA TypesInvariant == Spec => []Types
BY TypesInit, TypesStep, PTL DEF Spec

-----------------------------------------------------------------------------
(* Who supports the feature: globalCallStackInitialize *)

Started(r) == main[r] \notin {"start", "bcast"}

\* Rank 0 decides for all: its count exists once it has broadcast it, and
\* every rank past the broadcast followed it.
Support ==
  /\ \A r \in Ranks : main[r] = "bcast" => Supported
  /\ Supported => (count # None <=> Started(Root))
  /\ \A r \in Ranks :
       IF Started(r)
       THEN /\ Supported => count # None
            /\ r \in entered <=> Supported /\ count # 1
       ELSE r \notin entered

LEMMA SupportInit == Init => Support
BY GlobalStacksAssumption DEF Init, Support, Started

LEMMA SupportStep == Types /\ Support /\ [Next]_vars => Support'
<1> SUFFICES ASSUME Types, Support, [Next]_vars PROVE Support'
  OBVIOUS
<1> USE GlobalStacksAssumption DEF Types, SetupTypes
<1>1. CASE UNCHANGED <<main, count, entered>>
  BY <1>1 DEF Support, Started
<1>2. ASSUME NEW r \in Ranks, NEW label \in MainLabels, Started(r),
             label \notin {"start", "bcast"}, Goto(r, label),
             UNCHANGED <<count, entered>>
      PROVE  Support'
  BY <1>2 DEF Support, Started, Goto
<1>3. ASSUME NEW r \in Ranks, Initialize(r) PROVE Support'
  BY <1>3 DEF Initialize, Support, Started, Goto, setup
<1>4. ASSUME NEW r \in Ranks, Bcast(r) PROVE Support'
  <2>1. count' \in Nat /\ count' # None
    BY <1>4 DEF Bcast
  <2>2. r # Root => count' = count
    BY <1>4 DEF Bcast
  <2>3. main[r] = "bcast" /\ Supported /\ Decide(r, count')
    BY <1>4 DEF Bcast, Support
  <2>4. \A s \in Ranks \ {r} : Started(s) => count' = count
    <3>1. r = Root => count = None
      BY <2>3 DEF Support, Started
    <3> QED BY <2>2, <2>3, <3>1 DEF Support
  <2>5. /\ \A s \in Ranks \ {r} : main'[s] = main[s] /\ (s \in entered' <=> s \in entered)
        /\ main'[r] \in {"ready", "dup"}
        /\ r \in entered' <=> count' # 1
    BY <2>3 DEF Decide, Goto, Support, Started
  <2> QED BY <2>1, <2>2, <2>3, <2>4, <2>5 DEF Support, Started
<1>5. ASSUME NEW r \in Ranks,
             \/ CommDup(r) \/ AllReceived(r) \/ Timeout(r) \/ Join(r) \/ Finalize(r)
             \/ \E tag \in Tags : Ask(r, tag)
      PROVE  Support'
  BY <1>2, <1>5 DEF CommDup, AllReceived, Timeout, Join, Finalize, Ask, Started,
                    setup, MainLabels
<1>6. ASSUME NEW r \in Ranks, Monitor(r) \/ \E s \in Ranks : Receive(r, s)
      PROVE  Support'
  BY <1>1, <1>6 DEF Monitor, Receive, Take, Loop, NoRequest, Sent, Request, Send, setup
<1> QED BY <1>1, <1>3, <1>4, <1>5, <1>6 DEF Next, Waiting, vars

\* globalCallStackInitialize: every rank follows the decision of rank 0.
THEOREM SupportAgreedHolds == Spec => []SupportAgreed
<1>1. Support => SupportAgreed
  BY DEF Support, SupportAgreed, Started
<1> QED BY <1>1, SupportInit, SupportStep, TypesInvariant, PTL DEF Spec

-----------------------------------------------------------------------------
(* The communicator: globalCallStackFinalize *)

LEMMA CommStep == Types /\ CommFreedAfterMonitor /\ [Next]_vars => CommFreedAfterMonitor'
<1> SUFFICES ASSUME Types, CommFreedAfterMonitor, [Next]_vars
             PROVE  CommFreedAfterMonitor'
  OBVIOUS
<1> USE DEF Types, SetupTypes, MonitorTypes, CommFreedAfterMonitor
<1>1. CASE UNCHANGED <<comm, monitor>>
  BY <1>1
<1>2. ASSUME NEW r \in Ranks, monitor[r].at \notin {"off", "done"}, UNCHANGED comm,
             \A s \in Ranks \ {r} : monitor'[s] = monitor[s]
      PROVE  CommFreedAfterMonitor'
  BY <1>2
<1>3. ASSUME NEW r \in Ranks, Monitor(r) PROVE CommFreedAfterMonitor'
  <2>1. monitor[r].at \notin {"off", "done"} /\ UNCHANGED comm
    BY <1>3 DEF Monitor, Loop, NoRequest, Sent, Request, Send, setup
  <2>2. \A s \in Ranks \ {r} : monitor'[s] = monitor[s]
    BY <1>3 DEF Monitor, Loop, NoRequest, Sent, Request, Send, Monitoring
  <2> QED BY <1>2, <2>1, <2>2
<1>4. ASSUME NEW r \in Ranks, CommDup(r) PROVE CommFreedAfterMonitor'
  BY <1>4 DEF CommDup, Monitoring
<1>5. ASSUME NEW r \in Ranks, Join(r) PROVE CommFreedAfterMonitor'
  BY <1>5 DEF Join
<1>6. ASSUME NEW r \in Ranks,
             \/ Initialize(r) \/ Bcast(r) \/ AllReceived(r) \/ Timeout(r) \/ Finalize(r)
             \/ (\E s \in Ranks : Receive(r, s)) \/ \E tag \in Tags : Ask(r, tag)
      PROVE  CommFreedAfterMonitor'
  BY <1>1, <1>6 DEF Initialize, Bcast, Decide, AllReceived, Timeout, Finalize,
                    Receive, Take, Ask, setup
<1> QED BY <1>1, <1>3, <1>4, <1>5, <1>6 DEF Next, Waiting, vars

\* globalCallStackFinalize: the communicator is freed after the join.
THEOREM CommFreedAfterMonitorHolds == Spec => []CommFreedAfterMonitor
<1>1. Init => CommFreedAfterMonitor
  BY DEF Init, CommFreedAfterMonitor, Idle
<1> QED BY <1>1, CommStep, TypesInvariant, PTL DEF Spec

-----------------------------------------------------------------------------
(* The call a message belongs to: getRemoteCallStacks *)

\* A message carries the tag of the call of r that it names.
Of(r, m) == m.id \in 1 .. Last(r) /\ calls[r][m.id].tag = m.tag

RequestsOwned ==
  \A s, r \in Ranks : \A i \in 1 .. Len(requests[s][r]) : Of(s, requests[s][r][i])
AnswersOwned ==
  \A s, r \in Ranks : \A i \in 1 .. Len(answers[s][r]) : Of(r, answers[s][r][i])
MonitorsOwned ==
  \A r \in Ranks : Answering(r) => Of(monitor[r].src, monitor[r])
MergedCurrent ==
  \A r \in Ranks : \A m \in merged[r] :
    m.id \in 1 .. Last(r) /\ calls[r][m.id].tag = calls[r][Last(r)].tag

Owned == RequestsOwned /\ AnswersOwned /\ MonitorsOwned /\ MergedCurrent

LEMMA OwnedInit == Init => Owned
BY EmptySeq DEF Init, Owned, RequestsOwned, AnswersOwned, MonitorsOwned,
                MergedCurrent, Answering, Idle

\* A rank only adds calls, and never changes the tag of one.
Growing ==
  \A r \in Ranks :
    /\ Last(r) \in Nat /\ Last(r)' \in Nat /\ Last(r) <= Last(r)'
    /\ \A i \in 1 .. Last(r) : calls'[r][i].tag = calls[r][i].tag

LEMMA OfGrowing ==
  ASSUME Growing, NEW r \in Ranks, NEW m, Of(r, m)
  PROVE  Of(r, m)'
BY DEF Growing, Of

\* What the monitor and the network hold stays owned.
LEMMA UnchangedOwned ==
  ASSUME Types, Growing
  PROVE  /\ RequestsOwned /\ UNCHANGED requests => RequestsOwned'
         /\ AnswersOwned /\ UNCHANGED answers => AnswersOwned'
         /\ MonitorsOwned /\ UNCHANGED monitor => MonitorsOwned'
<1>1. RequestsOwned /\ UNCHANGED requests => RequestsOwned'
  BY OfGrowing DEF RequestsOwned
<1>2. AnswersOwned /\ UNCHANGED answers => AnswersOwned'
  BY OfGrowing DEF AnswersOwned
<1>3. MonitorsOwned /\ UNCHANGED monitor => MonitorsOwned'
  <2> SUFFICES ASSUME MonitorsOwned, UNCHANGED monitor, NEW r \in Ranks, Answering(r)
               PROVE  Of(monitor[r].src, monitor[r])'
    BY DEF MonitorsOwned, Answering
  <2>1. monitor[r].src \in Ranks /\ Of(monitor[r].src, monitor[r])
    BY DEF MonitorsOwned, Types, MonitorTypes
  <2>2. monitor[r].id \in 1 .. Last(monitor[r].src)'
        /\ calls'[monitor[r].src][monitor[r].id].tag = monitor[r].tag
    BY <2>1 DEF Of, Growing
  <2> QED BY <2>2 DEF Of, Last
<1> QED BY <1>1, <1>2, <1>3

LEMMA UnchangedGrowing ==
  ASSUME Types, UNCHANGED calls
  PROVE  Growing /\ \A r \in Ranks : Last(r)' = Last(r)
BY LenProperties DEF Types, CallTypes, Growing, Last

\* A step that changes neither the calls nor the merged answers.
LEMMA UnchangedMerged ==
  ASSUME MergedCurrent, UNCHANGED <<calls, merged>>
  PROVE  MergedCurrent'
BY DEF MergedCurrent, Last

LEMMA AskOwned ==
  ASSUME Types, Owned, NEW r \in Ranks, NEW tag \in Tags, Ask(r, tag)
  PROVE  Owned'
<1> DEFINE call == [tag |-> tag, outcome |-> "open"]
           m == [tag |-> tag, id |-> Last(r) + 1]
<1>1. calls[r] \in Seq(Records) /\ Last(r) \in Nat /\ call \in Records
  BY LenProperties DEF Types, CallTypes, Last, Records
<1>2. calls' = [calls EXCEPT ![r] = Append(calls[r], call)]
  BY DEF Ask
<1>3. /\ \A s \in Ranks \ {r} : calls'[s] = calls[s] /\ Last(s)' = Last(s)
      /\ Last(r)' = Last(r) + 1
      /\ \A i \in 1 .. Last(r) : calls'[r][i] = calls[r][i]
      /\ calls'[r][Last(r) + 1] = call
  BY <1>1, <1>2, AppendProperties DEF Types, CallTypes, Last
<1>4. Growing
  BY <1>1, <1>3, LenProperties DEF Growing, Types, CallTypes, Last
<1>5. RequestsOwned'
  <2> SUFFICES ASSUME NEW s \in Ranks, NEW t \in Ranks, NEW i \in 1 .. Len(requests'[s][t])
               PROVE  Of(s, requests[s][t][i])'
    BY DEF RequestsOwned
  <2>1. requests' = [requests EXCEPT ![r] =
          [x \in Ranks |-> IF x = r THEN requests[r][x] ELSE Append(requests[r][x], m)]]
    BY DEF Ask
  <2>2. CASE s # r \/ t = r
    <3>1. requests'[s][t] = requests[s][t]
      BY <2>1, <2>2 DEF Types, MessageTypes
    <3>2. Of(s, requests[s][t][i])
      BY <3>1 DEF Owned, RequestsOwned
    <3> QED BY <1>4, <3>1, <3>2, OfGrowing DEF Of
  <2>3. CASE s = r /\ t # r
    <3>1. requests'[s][t] = Append(requests[r][t], m) /\ requests[r][t] \in Seq(Messages)
      BY <2>1, <2>3 DEF Types, MessageTypes
    <3>2. m \in Messages /\ Len(requests[r][t]) \in Nat
      BY <1>1, <3>1, LenProperties DEF Messages
    <3>3. CASE i \in 1 .. Len(requests[r][t])
      <4>1. requests'[s][t][i] = requests[r][t][i]
        BY <3>1, <3>2, <3>3, AppendProperties
      <4>2. Of(r, requests[r][t][i])
        BY <3>3 DEF Owned, RequestsOwned
      <4> QED BY <1>4, <2>3, <4>1, <4>2, OfGrowing DEF Of
    <3>4. CASE i = Len(requests[r][t]) + 1
      <4>1. requests'[s][t][i] = m
        BY <3>1, <3>2, <3>4, AppendProperties
      <4>2. Last(r)' = Last(r) + 1 /\ calls'[r][m.id].tag = m.tag
        BY <1>3
      <4>3. m.id \in 1 .. Last(r)'
        BY <1>1, <4>2
      <4> QED BY <2>3, <4>1, <4>2, <4>3 DEF Of
    <3> QED BY <3>1, <3>2, <3>3, <3>4, AppendProperties
  <2> QED BY <2>2, <2>3
<1>6. MergedCurrent'
  <2> SUFFICES ASSUME NEW s \in Ranks, NEW x \in merged'[s]
               PROVE  (x.id \in 1 .. Last(s) /\ calls[s][x.id].tag = calls[s][Last(s)].tag)'
    BY DEF MergedCurrent
  <2>1. s # r /\ x \in merged[s]
    BY DEF Ask, Types, MergedTypes
  <2> QED BY <1>3, <2>1 DEF Owned, MergedCurrent
<1> QED BY <1>4, <1>5, <1>6, UnchangedOwned DEF Owned, Ask

\* Only an answer with the tag of the current call is merged.
LEMMA ReceiveOwned ==
  ASSUME Types, Owned, NEW r \in Ranks, NEW s \in Ranks, Receive(r, s)
  PROVE  Owned'
<1> DEFINE i == Oldest(Matching(s, r))
           a == answers[s][r][i]
<1>1. /\ i \in 1 .. Len(answers[s][r]) /\ a.tag = calls[r][Last(r)].tag
      /\ Take(s, r, i)
  BY OldestFacts DEF Types, Receive
<1> HIDE DEF i
<1>2. Of(r, a)
  BY <1>1 DEF Owned, AnswersOwned
<1>3. Growing /\ calls' = calls
  BY <1>1, UnchangedGrowing DEF Take
<1>4. AnswersOwned'
  <2> SUFFICES ASSUME NEW t \in Ranks, NEW u \in Ranks, NEW j \in 1 .. Len(answers'[t][u])
               PROVE  Of(u, answers[t][u][j])'
    BY DEF AnswersOwned
  <2>1. answers' = [answers EXCEPT ![s] =
          [answers[s] EXCEPT ![r] = Without(answers[s][r], i)]]
    BY <1>1 DEF Take, Types, MessageTypes
  <2>2. PICK k \in 1 .. Len(answers[t][u]) : answers'[t][u][j] = answers[t][u][k]
    <3>1. CASE t = s /\ u = r
      <4>1. answers'[t][u] = Without(answers[s][r], i) /\ answers[s][r] \in Seq(Messages)
        BY <2>1, <3>1 DEF Types, MessageTypes
      <4> QED BY <1>1, <3>1, <4>1, WithoutFacts
    <3>2. CASE t # s \/ u # r
      <4>1. answers'[t][u] = answers[t][u]
        BY <2>1, <3>2 DEF Types, MessageTypes
      <4> QED BY <4>1
    <3> QED BY <3>1, <3>2
  <2>3. Of(u, answers[t][u][k])
    BY DEF Owned, AnswersOwned
  <2> QED BY <1>3, <2>2, <2>3 DEF Of, Last
<1>5. MergedCurrent'
  <2> SUFFICES ASSUME NEW t \in Ranks, NEW m \in merged'[t]
               PROVE  m.id \in 1 .. Last(t) /\ calls[t][m.id].tag = calls[t][Last(t)].tag
    BY <1>3 DEF MergedCurrent, Last
  <2>1. m \in merged[t] \/ (t = r /\ m = [from |-> s, id |-> a.id])
    BY <1>1 DEF Take, Types, MergedTypes
  <2>2. CASE m \in merged[t]
    BY <2>2 DEF Owned, MergedCurrent
  <2>3. CASE t = r /\ m = [from |-> s, id |-> a.id]
    BY <1>1, <1>2, <2>3 DEF Of
  <2> QED BY <2>1, <2>2, <2>3
<1> QED BY <1>1, <1>3, <1>4, <1>5, UnchangedOwned DEF Owned, Take

LEMMA ReturnOwned ==
  ASSUME Types, Owned, NEW r \in Ranks, NEW outcome \in {"full", "timeout"},
         main[r] = "wait", Finish(r, outcome),
         UNCHANGED <<setup, status, monitor, requests, answers, merged>>
  PROVE  Owned'
<1>1. /\ \A s \in Ranks : Len(calls'[s]) = Len(calls[s])
      /\ \A s \in Ranks : \A i \in 1 .. Len(calls[s]) : calls'[s][i].tag = calls[s][i].tag
  BY FinishFacts DEF Types, CallTypes
<1>2. Growing /\ \A s \in Ranks : Last(s)' = Last(s)
  BY <1>1, LenProperties DEF Growing, Last, Types, CallTypes
<1>3. MergedCurrent'
  <2> SUFFICES ASSUME NEW s \in Ranks, NEW m \in merged[s]
               PROVE  (m.id \in 1 .. Last(s) /\ calls[s][m.id].tag = calls[s][Last(s)].tag)'
    BY DEF MergedCurrent
  <2>1. m.id \in 1 .. Last(s) /\ calls[s][m.id].tag = calls[s][Last(s)].tag
    BY DEF Owned, MergedCurrent
  <2>2. Last(s) \in 1 .. Last(s)
    BY <1>2, <2>1 DEF Growing
  <2> QED BY <1>1, <1>2, <2>1, <2>2 DEF Last
<1> QED BY <1>2, <1>3, UnchangedOwned DEF Owned

LEMMA RequestOwned ==
  ASSUME Types, Owned, NEW r \in Ranks, NEW s \in Ranks, Request(r, s)
  PROVE  Owned'
<1> DEFINE q == Head(requests[s][r])
           answer == [at |-> "send", src |-> s, tag |-> q.tag, id |-> q.id]
<1>1. Growing /\ calls' = calls /\ UNCHANGED <<answers, merged>>
  BY UnchangedGrowing DEF Request
<1>2. requests[s][r] \in Seq(Messages) /\ requests[s][r] # <<>>
  BY DEF Types, MessageTypes, Request
<1>3. RequestsOwned'
  <2> SUFFICES ASSUME NEW t \in Ranks, NEW u \in Ranks, NEW j \in 1 .. Len(requests'[t][u])
               PROVE  Of(t, requests[t][u][j])'
    BY DEF RequestsOwned
  <2>1. requests' = [requests EXCEPT ![s] =
          [requests[s] EXCEPT ![r] = Tail(requests[s][r])]]
    BY DEF Request, Types, MessageTypes
  <2>2. PICK k \in 1 .. Len(requests[t][u]) : requests'[t][u][j] = requests[t][u][k]
    <3>1. CASE t = s /\ u = r
      <4>1. requests'[t][u] = Tail(requests[s][r])
        BY <2>1, <3>1 DEF Types, MessageTypes
      <4>2. /\ Len(requests'[t][u]) = Len(requests[t][u]) - 1
            /\ requests'[t][u][j] = requests[t][u][j + 1]
        BY <1>2, <3>1, <4>1, HeadTailProperties
      <4>3. j + 1 \in 1 .. Len(requests[t][u])
        BY <1>2, <3>1, <4>2, LenProperties
      <4> QED BY <4>2, <4>3
    <3>2. CASE t # s \/ u # r
      <4>1. requests'[t][u] = requests[t][u]
        BY <2>1, <3>2 DEF Types, MessageTypes
      <4> QED BY <4>1
    <3> QED BY <3>1, <3>2
  <2>3. Of(t, requests[t][u][k])
    BY DEF Owned, RequestsOwned
  <2> QED BY <1>1, <2>2, <2>3 DEF Of, Last
<1>4. MonitorsOwned'
  <2> SUFFICES ASSUME NEW t \in Ranks, Answering(t)'
               PROVE  Of(monitor[t].src, monitor[t])'
    BY DEF MonitorsOwned
  <2>1. CASE t # r
    <3>1. monitor'[t] = monitor[t]
      BY <2>1 DEF Request, Types, MonitorTypes
    <3>2. Of(monitor[t].src, monitor[t])
      BY <3>1 DEF Owned, MonitorsOwned, Answering
    <3> QED BY <1>1, <3>1, <3>2 DEF Of, Last
  <2>2. CASE t = r
    <3>1. registered[r] # 0 /\ monitor'[r] = answer
      BY <2>2 DEF Request, Types, MonitorTypes, Answering, Idle
    <3>2. Of(s, q)
      <4>1. q = requests[s][r][1] /\ 1 \in 1 .. Len(requests[s][r])
        BY <1>2, EmptySeq, HeadTailProperties
      <4> QED BY <4>1 DEF Owned, RequestsOwned
    <3> QED BY <1>1, <2>2, <3>1, <3>2 DEF Of, Last
  <2> QED BY <2>1, <2>2
<1> QED BY <1>1, <1>3, <1>4, UnchangedOwned, UnchangedMerged DEF Owned

LEMMA SendOwned ==
  ASSUME Types, Owned, NEW r \in Ranks, NEW mode \in SendModes, Send(r, mode)
  PROVE  Owned'
<1> DEFINE m == monitor[r]
           answer == [tag |-> m.tag, id |-> m.id]
<1>1. Growing /\ calls' = calls /\ UNCHANGED <<requests, merged>>
  BY UnchangedGrowing DEF Send
<1>2. m.at = "send" /\ m.src \in Ranks /\ answer \in Messages /\ Of(m.src, m)
  BY DEF Send, Types, MonitorTypes, Answering, Owned, MonitorsOwned, Messages
<1>3. AnswersOwned'
  <2> SUFFICES ASSUME NEW t \in Ranks, NEW u \in Ranks, NEW j \in 1 .. Len(answers'[t][u])
               PROVE  Of(u, answers[t][u][j])'
    BY DEF AnswersOwned
  <2>1. answers' = [answers EXCEPT ![r] =
          [answers[r] EXCEPT ![m.src] = Append(answers[r][m.src], answer)]]
    BY <1>2 DEF Send, Types, MessageTypes
  <2>2. (\E k \in 1 .. Len(answers[t][u]) : answers'[t][u][j] = answers[t][u][k])
        \/ (u = m.src /\ answers'[t][u][j] = answer)
    <3>1. CASE t = r /\ u = m.src
      <4>1. answers'[t][u] = Append(answers[t][u], answer)
            /\ answers[t][u] \in Seq(Messages)
        BY <1>2, <2>1, <3>1 DEF Types, MessageTypes
      <4> HIDE DEF answer
      <4>2. j \in 1 .. Len(answers[t][u]) \/ j = Len(answers[t][u]) + 1
        BY <1>2, <4>1, AppendProperties, LenProperties
      <4> QED BY <1>2, <3>1, <4>1, <4>2, AppendProperties
    <3>2. CASE t # r \/ u # m.src
      <4>1. answers'[t][u] = answers[t][u]
        BY <1>2, <2>1, <3>2 DEF Types, MessageTypes
      <4> QED BY <4>1
    <3> QED BY <3>1, <3>2
  <2>3. \A k \in 1 .. Len(answers[t][u]) : Of(u, answers[t][u][k])
    BY DEF Owned, AnswersOwned
  <2>4. /\ answers'[t][u][j].id \in 1 .. Last(u)
        /\ calls[u][answers'[t][u][j].id].tag = answers'[t][u][j].tag
    <3>1. CASE u = m.src /\ answers'[t][u][j] = answer
      BY <1>2, <3>1 DEF Of
    <3> QED BY <2>2, <2>3, <3>1 DEF Of
  <2> QED BY <1>1, <2>4 DEF Of, Last
<1>4. MonitorsOwned'
  <2> SUFFICES ASSUME NEW t \in Ranks, Answering(t)'
               PROVE  Of(monitor[t].src, monitor[t])'
    BY DEF MonitorsOwned
  <2>1. /\ monitor'[t].src = monitor[t].src /\ monitor'[t].tag = monitor[t].tag
        /\ monitor'[t].id = monitor[t].id
        /\ Answering(t)
    <3>1. CASE t # r
      BY <3>1 DEF Send, Types, MonitorTypes, Answering
    <3>2. CASE t = r
      <4>1. CASE mode = "wait"
        BY <1>2, <3>2, <4>1 DEF Send, Types, MonitorTypes, Answering
      <4>2. CASE mode # "wait"
        BY <3>2, <4>2 DEF Send, Types, MonitorTypes, Answering, Idle
      <4> QED BY <4>1, <4>2
    <3> QED BY <3>1, <3>2
  <2>2. Of(monitor[t].src, monitor[t])
    BY <2>1 DEF Owned, MonitorsOwned
  <2> QED BY <1>1, <2>1, <2>2 DEF Of, Last
<1> QED BY <1>1, <1>3, <1>4, UnchangedOwned, UnchangedMerged DEF Owned

LEMMA OwnedStep == Types /\ Owned /\ [Next]_vars => Owned'
<1> SUFFICES ASSUME Types, Owned, [Next]_vars PROVE Owned'
  OBVIOUS
<1>1. ASSUME UNCHANGED <<requests, answers, calls, merged>>,
             MonitorsOwned'
      PROVE  Owned'
  BY <1>1, UnchangedGrowing, UnchangedOwned, UnchangedMerged DEF Owned
<1>2. ASSUME UNCHANGED <<requests, answers, calls, merged, monitor>>
      PROVE  Owned'
  BY <1>1, <1>2, UnchangedGrowing, UnchangedOwned DEF Owned
<1>3. ASSUME NEW r \in Ranks, NEW label \in MonitorLabels \ {"send", "sending"},
             Monitoring(r, label), UNCHANGED <<requests, answers, calls, merged>>
      PROVE  Owned'
  <2> SUFFICES ASSUME NEW t \in Ranks, Answering(t)'
               PROVE  Of(monitor[t].src, monitor[t])'
    BY <1>1, <1>3 DEF MonitorsOwned
  <2>1. t # r
    BY <1>3 DEF Monitoring, Idle, Types, MonitorTypes, Answering
  <2>2. monitor'[t] = monitor[t]
    BY <1>3, <2>1 DEF Monitoring, Types, MonitorTypes
  <2>3. Of(monitor[t].src, monitor[t])
    BY <2>2 DEF Owned, MonitorsOwned, Answering
  <2> QED BY <1>3, <2>2, <2>3 DEF Of, Last
<1>4. ASSUME NEW r \in Ranks, Initialize(r) \/ Finalize(r) \/ Bcast(r) \/ Join(r)
      PROVE  Owned'
  BY <1>2, <1>4 DEF Initialize, Finalize, Bcast, Decide, Join
<1>5. ASSUME NEW r \in Ranks, CommDup(r) PROVE Owned'
  BY <1>3, <1>5 DEF CommDup, MonitorLabels
<1>6. ASSUME NEW r \in Ranks, Loop(r) \/ NoRequest(r) \/ Sent(r) PROVE Owned'
  BY <1>3, <1>6 DEF Loop, NoRequest, Sent, MonitorLabels
<1>7. ASSUME NEW r \in Ranks, AllReceived(r) \/ Timeout(r) PROVE Owned'
  BY <1>7, ReturnOwned DEF AllReceived, Timeout
<1> QED BY <1>2, <1>4, <1>5, <1>6, <1>7, AskOwned, ReceiveOwned, RequestOwned, SendOwned
        DEF Next, Waiting, Monitor, vars

LEMMA OwnedInvariant == Spec => []Owned
BY OwnedInit, OwnedStep, TypesInvariant, PTL DEF Spec

\* Types, with the bounds of the indices: the type invariant of the module.
THEOREM TypeCorrect == Spec => []TypeOK
<1>1. Types /\ Owned => TypeOK
  <2> SUFFICES ASSUME Types, Owned PROVE TypeOK
    OBVIOUS
  <2>1. ASSUME NEW r \in Ranks
        PROVE  /\ monitor[r].at \in MonitorLabels
               /\ monitor[r].src \in (Ranks \ {r}) \union {None}
    BY DEF Types, MonitorTypes
  <2>2. ASSUME NEW r \in Ranks, NEW s \in Ranks, NEW i \in DOMAIN requests[s][r]
        PROVE  requests[s][r][i] \in [tag : Tags, id : 1 .. Last(s)]
    <3>1. requests[s][r] \in Seq(Messages)
      BY DEF Types, MessageTypes
    <3>2. i \in 1 .. Len(requests[s][r]) /\ requests[s][r][i] \in Messages
      BY <3>1, LenProperties, ElementOfSeq
    <3> QED BY <3>2 DEF Owned, RequestsOwned, Of, Messages
  <2>3. ASSUME NEW r \in Ranks, NEW s \in Ranks, NEW i \in DOMAIN answers[s][r]
        PROVE  answers[s][r][i] \in [tag : Tags, id : 1 .. Last(r)]
    <3>1. answers[s][r] \in Seq(Messages)
      BY DEF Types, MessageTypes
    <3>2. i \in 1 .. Len(answers[s][r]) /\ answers[s][r][i] \in Messages
      BY <3>1, LenProperties, ElementOfSeq
    <3> QED BY <3>2 DEF Owned, AnswersOwned, Of, Messages
  <2>4. ASSUME NEW r \in Ranks
        PROVE  /\ Last(r) <= MaxCalls
               /\ \A i \in 1 .. Last(r) : calls[r][i] \in Records
    BY ElementOfSeq DEF Types, CallTypes, Last
  <2>5. ASSUME NEW r \in Ranks
        PROVE  merged[r] \subseteq [from : Ranks \ {r}, id : 1 .. Last(r)]
    BY DEF Types, MergedTypes, Owned, MergedCurrent
  <2> QED BY <2>1, <2>2, <2>3, <2>4, <2>5 DEF Types, SetupTypes, TypeOK, Records
<1> QED BY <1>1, TypesInvariant, OwnedInvariant, PTL

\* getRemoteCallStacks: an answer of an earlier call is merged only when that
\* call drew the same tag.
THEOREM CurrentUnlessTagReusedHolds == Spec => []CurrentUnlessTagReused
<1>1. Owned => CurrentUnlessTagReused
  BY DEF Owned, MergedCurrent, CurrentUnlessTagReused, Stale
<1> QED BY <1>1, OwnedInvariant, PTL

-----------------------------------------------------------------------------
(* The answers of a full call: N_finished *)

Full(r) == main[r] = "ready" /\ Last(r) > 0 /\ calls[r][Last(r)].outcome = "full"

\* No rank calls before it is initialized, and a full call misses nobody.
Counted ==
  \A r \in Ranks :
    /\ main[r] \in {"start", "bcast", "dup"} => calls[r] = <<>>
    /\ Full(r) => ~Missing(r)

LEMMA CountedInit == Init => Counted
BY EmptySeq DEF Init, Counted, Full, Last

LEMMA CountedStep == Types /\ Counted /\ [Next]_vars => Counted'
<1> SUFFICES ASSUME Types, Counted, [Next]_vars PROVE Counted'
  OBVIOUS
<1> USE DEF Types, SetupTypes, Full
<1>1. CASE UNCHANGED <<main, calls, merged>>
  BY <1>1 DEF Counted, Last, Missing
<1>2. ASSUME NEW r \in Ranks, NEW label, Goto(r, label), UNCHANGED <<calls, merged>>,
             \/ main[r] \in {"start", "bcast", "dup"}
             \/ label \notin {"start", "bcast", "dup", "ready"}
      PROVE  Counted'
  <2> SUFFICES ASSUME NEW s \in Ranks
               PROVE  (/\ main[s] \in {"start", "bcast", "dup"} => calls[s] = <<>>
                       /\ Full(s) => ~Missing(s))'
    BY DEF Counted
  <2>1. main'[s] = IF s = r THEN label ELSE main[s]
    BY <1>2 DEF Goto
  <2>2. Len(<<>>) = 0
    BY EmptySeq
  <2> QED BY <1>2, <2>1, <2>2 DEF Counted, Last, Missing
<1>3. ASSUME NEW r \in Ranks,
             \/ Initialize(r) \/ Bcast(r) \/ CommDup(r) \/ Finalize(r) \/ Join(r)
      PROVE  Counted'
  BY <1>2, <1>3 DEF Initialize, Bcast, Decide, CommDup, Finalize, Join
<1>4. ASSUME NEW r \in Ranks, NEW s \in Ranks, Receive(r, s) PROVE Counted'
  <2>1. /\ UNCHANGED <<main, calls>> /\ main[r] = "wait"
        /\ \A t \in Ranks \ {r} : merged'[t] = merged[t]
    BY <1>4 DEF Receive, Take, MergedTypes
  <2> QED BY <2>1 DEF Counted, Last, Missing
<1>5. ASSUME NEW r \in Ranks, NEW tag \in Tags, Ask(r, tag) PROVE Counted'
  <2>1. /\ main[r] = "ready" /\ main'[r] = "wait"
        /\ \A t \in Ranks \ {r} :
             main'[t] = main[t] /\ calls'[t] = calls[t] /\ merged'[t] = merged[t]
    BY <1>5 DEF Ask, Goto, MergedTypes, CallTypes
  <2> QED BY <2>1 DEF Counted, Last, Missing
<1>6. ASSUME NEW r \in Ranks, NEW outcome \in {"full", "timeout"}, main[r] = "wait",
             Finish(r, outcome), Goto(r, "ready"), UNCHANGED merged,
             outcome = "full" => ~Missing(r)
      PROVE  Counted'
  <2>1. /\ main'[r] = "ready"
        /\ \A t \in Ranks \ {r} : main'[t] = main[t] /\ calls'[t] = calls[t]
    BY <1>6 DEF Goto, Finish, CallTypes
  <2>2. calls'[r][Last(r)'].outcome = outcome
    <3>1. calls[r] \in Seq(Records) /\ Last(r) \in 1 .. Len(calls[r])
      BY <1>6, EmptySeq DEF CallTypes, Last
    <3>2. calls[r][Last(r)] \in Records /\ DOMAIN calls[r] = 1 .. Len(calls[r])
      BY <3>1, ElementOfSeq, LenProperties
    <3>3. Last(r)' = Last(r)
      BY <1>6, <3>1, FinishFacts DEF CallTypes, Last
    <3>4. calls'[r] = [calls[r] EXCEPT ![Last(r)] =
            [calls[r][Last(r)] EXCEPT !.outcome = outcome]]
      BY <1>6 DEF Finish, CallTypes
    <3> QED BY <3>1, <3>2, <3>3, <3>4, LenProperties DEF Records
  <2> QED BY <1>6, <2>1, <2>2 DEF Counted, Last, Missing
<1>7. ASSUME NEW r \in Ranks, AllReceived(r) \/ Timeout(r) PROVE Counted'
  BY <1>6, <1>7 DEF AllReceived, Timeout
<1>8. ASSUME NEW r \in Ranks, Monitor(r) PROVE Counted'
  BY <1>1, <1>8 DEF Monitor, Loop, NoRequest, Sent, Request, Send
<1> QED BY <1>1, <1>3, <1>4, <1>5, <1>7, <1>8 DEF Next, Waiting, vars

\* getRemoteCallStacks: as many different ranks as there are other ranks are
\* all the other ranks; counting N_finished is enough.
THEOREM FullHasEveryRankHolds == Spec => []FullHasEveryRank
<1>1. Types /\ Counted => FullHasEveryRank
  <2> SUFFICES ASSUME Types, Counted, NEW r \in Ranks, Full(r), Stale(r) = {}
               PROVE  {m.from : m \in merged[r]} = Ranks \ {r}
    BY DEF FullHasEveryRank, Full
  <2> DEFINE f == [m \in merged[r] |-> m.from]
  <2>1. merged[r] \subseteq [from : Ranks \ {r}, id : {Last(r)}]
    BY DEF Types, MergedTypes, Stale
  <2>2. f \in Injection(merged[r], Ranks \ {r})
    BY <2>1 DEF Injection, IsInjective
  <2>3. IsFiniteSet(Ranks \ {r}) /\ Cardinality(Ranks \ {r}) = Cardinality(Ranks) - 1
    BY GlobalStacksAssumption, FS_RemoveElement
  <2>4. /\ IsFiniteSet(merged[r])
        /\ Cardinality(merged[r]) <= Cardinality(Ranks \ {r})
        /\ Cardinality(merged[r]) = Cardinality(Ranks \ {r})
             <=> f \in Surjection(merged[r], Ranks \ {r})
    BY <2>2, <2>3, FS_Injection
  <2>5. Cardinality(merged[r]) \in Nat /\ Cardinality(Ranks) \in Nat
    BY <2>4, GlobalStacksAssumption, FS_CardinalityType
  <2>6. Cardinality(merged[r]) = Cardinality(Ranks \ {r})
    BY <2>3, <2>4, <2>5 DEF Counted, Missing
  <2>7. f \in Surjection(merged[r], Ranks \ {r})
    BY <2>4, <2>6
  <2> QED BY <2>1, <2>7 DEF Surjection
<1> QED BY <1>1, CountedInit, CountedStep, TypesInvariant, PTL DEF Spec

-----------------------------------------------------------------------------
(* Each answer once: the set "merged" counts what N_finished counts *)

Increasing(q) == \A i, j \in 1 .. Len(q) : i < j => q[i].id < q[j].id

\* The call n of r is later than each one whose answer from s has been sent.
Later(r, s, n) ==
  /\ \A i \in 1 .. Len(answers[s][r]) : answers[s][r][i].id < n
  /\ \A m \in merged[r] : m.from = s => m.id < n

Queues ==
  \A r, s \in Ranks : Increasing(requests[r][s]) /\ Increasing(answers[s][r])
Apart ==
  \A r, s \in Ranks : \A i \in 1 .. Len(answers[s][r]) :
    [from |-> s, id |-> answers[s][r][i].id] \notin merged[r]
RequestsLater ==
  \A r, s \in Ranks : \A i \in 1 .. Len(requests[r][s]) :
    Later(r, s, requests[r][s][i].id)
AnswerNext ==
  \A s \in Ranks :
    LET m == monitor[s] IN
    m.at = "send" =>
      /\ Later(m.src, s, m.id)
      /\ \A i \in 1 .. Len(requests[m.src][s]) : m.id < requests[m.src][s][i].id

\* One monitor per rank answers the calls of another in their order.
InOrder ==
  /\ Queues /\ Apart /\ RequestsLater /\ AnswerNext
  /\ \A r \in Ranks : IsFiniteSet(merged[r])

LEMMA InOrderInit == Init => InOrder
<1> SUFFICES ASSUME Init PROVE InOrder
  OBVIOUS
<1>1. /\ \A r, s \in Ranks : requests[r][s] = <<>> /\ answers[s][r] = <<>>
      /\ \A r \in Ranks : merged[r] = {} /\ monitor[r].at = "off"
  BY DEF Init, Idle
<1>2. Len(<<>>) = 0
  BY EmptySeq
<1>3. Queues /\ Apart /\ RequestsLater /\ AnswerNext
  BY <1>1, <1>2 DEF Queues, Apart, RequestsLater, AnswerNext, Increasing
<1> QED BY <1>1, <1>3, FS_EmptySet DEF InOrder

\* The steps that touch no message but the one a monitor holds.
LEMMA QuietInOrder ==
  ASSUME InOrder, UNCHANGED <<requests, answers, merged>>,
         \A s \in Ranks : monitor'[s].at = "send" => monitor'[s] = monitor[s]
  PROVE  InOrder'
BY DEF InOrder, Queues, Apart, RequestsLater, AnswerNext, Increasing, Later

LEMMA AskInOrder ==
  ASSUME Types, Owned, InOrder, NEW r \in Ranks, NEW tag \in Tags, Ask(r, tag)
  PROVE  InOrder'
<1> DEFINE n == Last(r) + 1
           m == [tag |-> tag, id |-> n]
<1>1. Last(r) \in Nat /\ m \in Messages
  BY LenProperties DEF Types, CallTypes, Last, Messages
<1>2. /\ UNCHANGED <<monitor, answers>>
      /\ merged'[r] = {} /\ \A t \in Ranks \ {r} : merged'[t] = merged[t]
  BY DEF Ask, Types, MergedTypes
<1>3. /\ \A t, s \in Ranks : t # r \/ s = r => requests'[t][s] = requests[t][s]
      /\ \A s \in Ranks : s # r => requests'[r][s] = Append(requests[r][s], m)
  BY DEF Ask, Types, MessageTypes
<1> HIDE DEF m
<1>4. m.id = n
  BY DEF m
<1>5. ASSUME NEW s \in Ranks \ {r}
      PROVE  /\ Len(requests[r][s]) \in Nat
             /\ Len(requests'[r][s]) = Len(requests[r][s]) + 1
             /\ \A i \in 1 .. Len(requests[r][s]) :
                  /\ requests'[r][s][i] = requests[r][s][i]
                  /\ requests[r][s][i].id \in Nat /\ requests[r][s][i].id < n
             /\ requests'[r][s][Len(requests[r][s]) + 1].id = n
  <2>1. requests[r][s] \in Seq(Messages)
    BY DEF Types, MessageTypes
  <2>2. \A i \in 1 .. Len(requests[r][s]) : requests[r][s][i].id \in 1 .. Last(r)
    BY DEF Owned, RequestsOwned, Of
  <2> QED BY <1>1, <1>3, <1>4, <2>1, <2>2, AppendProperties, LenProperties
<1>6. \A t, s \in Ranks : \A i \in 1 .. Len(requests'[t][s]) :
        \/ /\ i \in 1 .. Len(requests[t][s])
           /\ requests'[t][s][i] = requests[t][s][i]
        \/ /\ t = r /\ s # r /\ i = Len(requests[r][s]) + 1
           /\ requests'[t][s][i].id = n
  <2> SUFFICES ASSUME NEW t \in Ranks, NEW s \in Ranks, NEW i \in 1 .. Len(requests'[t][s])
               PROVE  \/ /\ i \in 1 .. Len(requests[t][s])
                         /\ requests'[t][s][i] = requests[t][s][i]
                      \/ /\ t = r /\ s # r /\ i = Len(requests[r][s]) + 1
                         /\ requests'[t][s][i].id = n
    OBVIOUS
  <2>1. CASE t # r \/ s = r
    BY <1>3, <2>1
  <2>2. CASE t = r /\ s # r
    BY <1>5, <2>2
  <2> QED BY <2>1, <2>2
<1>7. Queues'
  <2> SUFFICES ASSUME NEW t \in Ranks, NEW s \in Ranks,
                      NEW i \in 1 .. Len(requests'[t][s]),
                      NEW j \in 1 .. Len(requests'[t][s]), i < j
               PROVE  requests'[t][s][i].id < requests'[t][s][j].id
    BY <1>2 DEF InOrder, Queues, Increasing
  <2>1. CASE t # r \/ s = r
    BY <1>3, <2>1 DEF InOrder, Queues, Increasing
  <2>2. CASE t = r /\ s # r
    <3>1. i \in 1 .. Len(requests[r][s])
      BY <1>5, <2>2
    <3>2. CASE j \in 1 .. Len(requests[r][s])
      BY <1>5, <2>2, <3>1, <3>2 DEF InOrder, Queues, Increasing
    <3>3. CASE j = Len(requests[r][s]) + 1
      BY <1>5, <2>2, <3>1, <3>3
    <3> QED BY <1>5, <2>2, <3>2, <3>3
  <2> QED BY <2>1, <2>2
<1>8. Apart'
  BY <1>2 DEF InOrder, Apart
<1>9. ASSUME NEW t \in Ranks, NEW s \in Ranks, NEW k, Later(t, s, k)
      PROVE  Later(t, s, k)'
  BY <1>2, <1>9 DEF Later
<1>10. RequestsLater'
  <2> SUFFICES ASSUME NEW t \in Ranks, NEW s \in Ranks, NEW i \in 1 .. Len(requests'[t][s])
               PROVE  Later(t, s, requests[t][s][i].id)'
    BY DEF RequestsLater
  <2>1. CASE i \in 1 .. Len(requests[t][s]) /\ requests'[t][s][i] = requests[t][s][i]
    <3>1. Later(t, s, requests[t][s][i].id)
      BY <2>1 DEF InOrder, RequestsLater
    <3> QED BY <1>9, <2>1, <3>1 DEF Later
  <2>2. CASE t = r /\ requests'[t][s][i].id = n
    <3>1. \A j \in 1 .. Len(answers[s][r]) : answers[s][r][j].id < n
      BY <1>1 DEF Owned, AnswersOwned, Of
    <3> QED BY <1>2, <2>2, <3>1 DEF Later
  <2> QED BY <1>6, <2>1, <2>2
<1>11. AnswerNext'
  <2> SUFFICES ASSUME NEW s \in Ranks, monitor[s].at = "send"
               PROVE  /\ Later(monitor[s].src, s, monitor[s].id)'
                      /\ \A i \in 1 .. Len(requests'[monitor[s].src][s]) :
                           monitor[s].id < requests'[monitor[s].src][s][i].id
    BY <1>2 DEF AnswerNext, Later
  <2>1. monitor[s].src \in Ranks /\ monitor[s].id \in 1 .. Last(monitor[s].src)
    BY DEF Types, MonitorTypes, Answering, Owned, MonitorsOwned, Of
  <2>2. /\ Later(monitor[s].src, s, monitor[s].id)
        /\ \A i \in 1 .. Len(requests[monitor[s].src][s]) :
             monitor[s].id < requests[monitor[s].src][s][i].id
    BY DEF InOrder, AnswerNext
  <2>3. Later(monitor[s].src, s, monitor[s].id)'
    BY <1>2, <2>1, <2>2 DEF Later
  <2>4. ASSUME NEW i \in 1 .. Len(requests'[monitor[s].src][s])
        PROVE  monitor[s].id < requests'[monitor[s].src][s][i].id
    <3>1. CASE /\ i \in 1 .. Len(requests[monitor[s].src][s])
               /\ requests'[monitor[s].src][s][i] = requests[monitor[s].src][s][i]
      BY <2>2, <3>1
    <3>2. CASE monitor[s].src = r /\ requests'[monitor[s].src][s][i].id = n
      BY <1>1, <2>1, <3>2
    <3> QED BY <1>6, <2>1, <3>1, <3>2
  <2> QED BY <2>3, <2>4
<1>12. \A t \in Ranks : IsFiniteSet(merged'[t])
  BY <1>2, FS_EmptySet DEF InOrder
<1> QED BY <1>7, <1>8, <1>10, <1>11, <1>12 DEF InOrder

LEMMA ReceiveInOrder ==
  ASSUME Types, InOrder, NEW r \in Ranks, NEW s \in Ranks, Receive(r, s)
  PROVE  /\ InOrder'
         /\ Cardinality(merged'[r]) = Cardinality(merged[r]) + 1
<1> DEFINE i == Oldest(Matching(s, r))
           q == answers[s][r]
           x == [from |-> s, id |-> q[i].id]
<1>1. i \in 1 .. Len(q) /\ Take(s, r, i)
  BY OldestFacts DEF Types, Receive
<1> HIDE DEF i
<1>2. q \in Seq(Messages) /\ Len(q) \in Nat
  BY LenProperties DEF Types, MessageTypes
<1>3. /\ UNCHANGED <<requests, monitor>>
      /\ merged'[r] = merged[r] \union {x}
      /\ \A t \in Ranks \ {r} : merged'[t] = merged[t]
      /\ answers'[s][r] = Without(q, i)
      /\ \A u, t \in Ranks : u # s \/ t # r => answers'[u][t] = answers[u][t]
  BY <1>1 DEF Take, Types, MessageTypes, MergedTypes
<1>4. /\ Len(answers'[s][r]) = Len(q) - 1
      /\ \A j \in 1 .. Len(q) - 1 :
           answers'[s][r][j] = q[IF j < i THEN j ELSE j + 1]
  BY <1>1, <1>2, <1>3, WithoutElements
<1>5. \A j \in 1 .. Len(q) - 1 :
        /\ (IF j < i THEN j ELSE j + 1) \in 1 .. Len(q)
        /\ (IF j < i THEN j ELSE j + 1) # i
  BY <1>1, <1>2
<1>6. \A j, k \in 1 .. Len(q) : q[j].id \in Nat /\ (j # k => q[j].id # q[k].id)
  <2>1. Increasing(q)
    BY DEF InOrder, Queues
  <2>2. ASSUME NEW j \in 1 .. Len(q) PROVE q[j].id \in Nat
    <3>1. q[j] \in Messages
      BY <1>2, ElementOfSeq
    <3> QED BY <3>1 DEF Messages
  <2> QED BY <1>2, <2>1, <2>2 DEF Increasing
<1>7. x \notin merged[r] /\ x.id = q[i].id /\ x.from = s
  BY <1>1 DEF InOrder, Apart
<1> HIDE DEF x
<1>8. \A u, t \in Ranks : \A j \in 1 .. Len(answers'[u][t]) :
        \E k \in 1 .. Len(answers[u][t]) :
          /\ answers'[u][t][j] = answers[u][t][k]
          /\ u = s /\ t = r => answers'[u][t][j].id # q[i].id
  <2> SUFFICES ASSUME NEW u \in Ranks, NEW t \in Ranks, NEW j \in 1 .. Len(answers'[u][t])
               PROVE  \E k \in 1 .. Len(answers[u][t]) :
                        /\ answers'[u][t][j] = answers[u][t][k]
                        /\ u = s /\ t = r => answers'[u][t][j].id # q[i].id
    OBVIOUS
  <2>1. CASE u = s /\ t = r
    <3> DEFINE k == IF j < i THEN j ELSE j + 1
    <3>1. k \in 1 .. Len(q) /\ k # i /\ answers'[s][r][j] = q[k]
      BY <1>4, <1>5, <2>1
    <3> HIDE DEF k
    <3>2. q[k].id # q[i].id
      BY <1>1, <1>6, <3>1
    <3> QED BY <2>1, <3>1, <3>2
  <2>2. CASE u # s \/ t # r
    BY <1>3, <2>2
  <2> QED BY <2>1, <2>2
<1>9. Queues'
  <2>1. Increasing(answers'[s][r])
    <3> SUFFICES ASSUME NEW j \in 1 .. Len(q) - 1, NEW k \in 1 .. Len(q) - 1, j < k
                 PROVE  answers'[s][r][j].id < answers'[s][r][k].id
      BY <1>4 DEF Increasing
    <3>1. (IF j < i THEN j ELSE j + 1) < (IF k < i THEN k ELSE k + 1)
      BY <1>1, <1>2
    <3> QED BY <1>4, <1>5, <3>1 DEF InOrder, Queues, Increasing
  <2>2. \A t, u \in Ranks : Increasing(answers'[u][t])
    BY <1>3, <2>1 DEF InOrder, Queues
  <2> QED BY <1>3, <2>2 DEF InOrder, Queues
<1>10. Apart'
  <2> SUFFICES ASSUME NEW t \in Ranks, NEW u \in Ranks, NEW j \in 1 .. Len(answers'[u][t])
               PROVE  [from |-> u, id |-> answers'[u][t][j].id] \notin merged'[t]
    BY DEF Apart
  <2>1. [from |-> u, id |-> answers'[u][t][j].id] \notin merged[t]
    <3>1. PICK k \in 1 .. Len(answers[u][t]) : answers'[u][t][j] = answers[u][t][k]
      BY <1>8
    <3> QED BY <3>1 DEF InOrder, Apart
  <2>2. t = r => [from |-> u, id |-> answers'[u][t][j].id] # x
    BY <1>7, <1>8
  <2> QED BY <1>3, <2>1, <2>2
<1>11. ASSUME NEW t \in Ranks, NEW u \in Ranks, NEW n, Later(t, u, n)
       PROVE  Later(t, u, n)'
  <2>1. ASSUME NEW j \in 1 .. Len(answers'[u][t]) PROVE answers'[u][t][j].id < n
    <3>1. PICK k \in 1 .. Len(answers[u][t]) : answers'[u][t][j] = answers[u][t][k]
      BY <1>8
    <3> QED BY <1>11, <3>1 DEF Later
  <2>2. t = r /\ u = s => x.id < n
    BY <1>1, <1>7, <1>11 DEF Later
  <2> QED BY <1>3, <1>7, <1>11, <2>1, <2>2 DEF Later
<1>12. RequestsLater'
  <2> SUFFICES ASSUME NEW t \in Ranks, NEW u \in Ranks, NEW j \in 1 .. Len(requests[t][u])
               PROVE  Later(t, u, requests[t][u][j].id)'
    BY <1>3 DEF RequestsLater
  <2>1. Later(t, u, requests[t][u][j].id)
    BY DEF InOrder, RequestsLater
  <2> QED BY <1>3, <1>11, <2>1 DEF Later
<1>13. AnswerNext'
  <2> SUFFICES ASSUME NEW u \in Ranks, monitor[u].at = "send"
               PROVE  Later(monitor[u].src, u, monitor[u].id)'
    BY <1>3 DEF InOrder, AnswerNext, Later
  <2>1. monitor[u].src \in Ranks /\ Later(monitor[u].src, u, monitor[u].id)
    BY DEF Types, MonitorTypes, Answering, InOrder, AnswerNext
  <2>2. PICK t \in Ranks, n \in {monitor[u].id} : t = monitor[u].src /\ Later(t, u, n)
    BY <2>1
  <2>3. Later(t, u, n)'
    BY <1>11, <2>2
  <2> QED BY <1>3, <2>2, <2>3 DEF Later
<1>14. /\ \A t \in Ranks : IsFiniteSet(merged'[t])
       /\ Cardinality(merged'[r]) = Cardinality(merged[r]) + 1
  BY <1>3, <1>7, FS_AddElement DEF InOrder
<1> QED BY <1>9, <1>10, <1>12, <1>13, <1>14 DEF InOrder

LEMMA RequestInOrder ==
  ASSUME Types, InOrder, NEW r \in Ranks, NEW s \in Ranks, Request(r, s)
  PROVE  InOrder'
<1> DEFINE q == requests[s][r]
           x == Head(q)
<1>1. q \in Seq(Messages) /\ q # <<>> /\ Len(q) \in Nat \ {0}
  BY EmptySeq, LenProperties DEF Types, MessageTypes, Request
<1>2. /\ x = q[1] /\ 1 \in 1 .. Len(q)
      /\ Len(Tail(q)) = Len(q) - 1
      /\ \A j \in 1 .. Len(q) - 1 : Tail(q)[j] = q[j + 1] /\ j + 1 \in 1 .. Len(q)
  BY <1>1, HeadTailProperties
<1>3. /\ UNCHANGED <<answers, merged>>
      /\ requests'[s][r] = Tail(q)
      /\ \A t, u \in Ranks : t # s \/ u # r => requests'[t][u] = requests[t][u]
      /\ \A u \in Ranks \ {r} : monitor'[u] = monitor[u]
      /\ monitor'[r].at = "send" =>
           monitor'[r].src = s /\ monitor'[r].id = x.id
  BY DEF Request, Types, MessageTypes, MonitorTypes, Idle
<1>4. ASSUME NEW t \in Ranks, NEW u \in Ranks, NEW j \in 1 .. Len(requests'[t][u])
      PROVE  \E k \in 1 .. Len(requests[t][u]) :
               /\ requests'[t][u][j] = requests[t][u][k]
               /\ t = s /\ u = r => 1 < k
  <2>1. CASE t = s /\ u = r
    <3>1. requests'[t][u] = Tail(q)
      BY <1>3, <2>1
    <3>2. j \in 1 .. Len(q) - 1
      BY <1>2, <3>1
    <3>3. j + 1 \in 1 .. Len(q) /\ requests'[t][u][j] = q[j + 1]
      BY <1>2, <3>1, <3>2
    <3> QED BY <2>1, <3>2, <3>3
  <2>2. CASE t # s \/ u # r
    BY <1>3, <2>2
  <2> QED BY <2>1, <2>2
<1>5. Queues'
  <2>1. Increasing(Tail(q))
    <3> SUFFICES ASSUME NEW j \in 1 .. Len(q) - 1, NEW k \in 1 .. Len(q) - 1, j < k
                 PROVE  q[j + 1].id < q[k + 1].id
      BY <1>2 DEF Increasing
    <3>1. Increasing(q)
      BY DEF InOrder, Queues
    <3>2. j + 1 \in 1 .. Len(q) /\ k + 1 \in 1 .. Len(q) /\ j + 1 < k + 1
      BY ONLY <1>1, j \in 1 .. Len(q) - 1, k \in 1 .. Len(q) - 1, j < k
    <3> QED BY ONLY <3>1, <3>2 DEF Increasing
  <2>2. \A t, u \in Ranks : Increasing(requests'[t][u])
    BY <1>3, <2>1 DEF InOrder, Queues
  <2> QED BY <1>3, <2>2 DEF InOrder, Queues
<1>6. RequestsLater'
  <2> SUFFICES ASSUME NEW t \in Ranks, NEW u \in Ranks, NEW j \in 1 .. Len(requests'[t][u])
               PROVE  Later(t, u, requests[t][u][j].id)'
    BY DEF RequestsLater
  <2>1. PICK k \in 1 .. Len(requests[t][u]) : requests'[t][u][j] = requests[t][u][k]
    BY <1>4
  <2>2. Later(t, u, requests[t][u][k].id)
    BY DEF InOrder, RequestsLater
  <2> QED BY <1>3, <2>1, <2>2 DEF Later
<1>7. AnswerNext'
  <2> SUFFICES ASSUME NEW u \in Ranks, monitor'[u].at = "send"
               PROVE  /\ Later(monitor[u].src, u, monitor[u].id)'
                      /\ \A j \in 1 .. Len(requests'[monitor'[u].src][u]) :
                           monitor'[u].id < requests'[monitor'[u].src][u][j].id
    BY DEF AnswerNext
  <2>1. CASE u = r
    <3>1. Later(s, r, x.id)
      BY <1>2 DEF InOrder, RequestsLater
    <3>2. \A k \in 1 .. Len(q) : 1 < k => x.id < q[k].id
      BY <1>2 DEF InOrder, Queues, Increasing
    <3>3. \A j \in 1 .. Len(requests'[s][r]) : x.id < requests'[s][r][j].id
      BY <1>4, <3>2
    <3> QED BY <1>3, <2>1, <3>1, <3>3 DEF Later
  <2>2. CASE u # r
    <3>1. monitor[u].at = "send" /\ monitor'[u] = monitor[u]
      BY <1>3, <2>2
    <3>2. PICK t \in Ranks : t = monitor[u].src
      BY <3>1 DEF Types, MonitorTypes, Answering
    <3>3. Later(t, u, monitor[u].id) /\ \A k \in 1 .. Len(requests[t][u]) :
            monitor[u].id < requests[t][u][k].id
      BY <3>1, <3>2 DEF InOrder, AnswerNext
    <3>4. \A j \in 1 .. Len(requests'[t][u]) : monitor[u].id < requests'[t][u][j].id
      BY <1>4, <3>3
    <3> QED BY <1>3, <3>1, <3>2, <3>3, <3>4 DEF Later
  <2> QED BY <2>1, <2>2
<1> QED BY <1>3, <1>5, <1>6, <1>7 DEF InOrder, Apart

LEMMA SendInOrder ==
  ASSUME Types, InOrder, NEW r \in Ranks, NEW mode \in SendModes, Send(r, mode)
  PROVE  InOrder'
<1> DEFINE t == monitor[r].src
           n == monitor[r].id
           q == answers[r][t]
           x == [tag |-> monitor[r].tag, id |-> n]
<1>1. /\ monitor[r].at = "send" /\ t \in Ranks /\ x \in Messages
      /\ q \in Seq(Messages) /\ Len(q) \in Nat
  <2>1. monitor[r].at = "send" /\ t \in Ranks /\ x \in Messages
    BY DEF Send, Types, MonitorTypes, Answering, Messages
  <2>2. q \in Seq(Messages)
    BY <2>1 DEF Types, MessageTypes
  <2> QED BY <2>1, <2>2, LenProperties
<1>2. /\ Later(t, r, n)
      /\ \A i \in 1 .. Len(requests[t][r]) : n < requests[t][r][i].id
  BY <1>1 DEF InOrder, AnswerNext
<1>3. /\ UNCHANGED <<requests, merged>>
      /\ answers'[r][t] = Append(q, x)
      /\ \A u, w \in Ranks : u # r \/ w # t => answers'[u][w] = answers[u][w]
      /\ \A u \in Ranks \ {r} : monitor'[u] = monitor[u]
      /\ monitor'[r].at # "send"
  BY <1>1 DEF Send, Types, MessageTypes, MonitorTypes, Idle
<1>4. /\ Len(answers'[r][t]) = Len(q) + 1
      /\ \A i \in 1 .. Len(q) : answers'[r][t][i] = q[i]
      /\ answers'[r][t][Len(q) + 1].id = n
  BY <1>1, <1>3, AppendProperties
<1>5. \A i \in 1 .. Len(q) : q[i].id < n
  BY <1>2 DEF Later
<1>6. ASSUME NEW u \in Ranks, NEW w \in Ranks, NEW i \in 1 .. Len(answers'[u][w])
      PROVE  \/ i \in 1 .. Len(answers[u][w]) /\ answers'[u][w][i] = answers[u][w][i]
             \/ u = r /\ w = t /\ i = Len(q) + 1 /\ answers'[u][w][i].id = n
  <2>1. CASE u = r /\ w = t
    <3>1. i \in 1 .. Len(answers'[r][t]) /\ q = answers[u][w]
      BY <2>1
    <3> HIDE DEF t, n, q, x
    <3> QED BY <1>1, <1>4, <2>1, <3>1
  <2>2. CASE u # r \/ w # t
    BY <1>3, <2>2
  <2> QED BY <2>1, <2>2
<1> HIDE DEF t, n, q, x
<1>7. Queues'
  <2>1. Increasing(answers'[r][t])
    <3> SUFFICES ASSUME NEW i \in 1 .. Len(q) + 1, NEW j \in 1 .. Len(q) + 1, i < j
                 PROVE  answers'[r][t][i].id < answers'[r][t][j].id
      BY <1>4 DEF Increasing
    <3>1. i \in 1 .. Len(q) /\ answers'[r][t][i] = q[i]
      BY <1>1, <1>4
    <3>2. CASE j = Len(q) + 1
      BY <1>4, <1>5, <3>1, <3>2
    <3>3. CASE j # Len(q) + 1
      <4>1. j \in 1 .. Len(q) /\ answers'[r][t][j] = q[j]
        BY <1>1, <1>4, <3>3
      <4> QED BY <1>1, <3>1, <4>1 DEF InOrder, Queues, Increasing, q
    <3> QED BY <3>2, <3>3
  <2>2. \A u, w \in Ranks : Increasing(answers'[u][w])
    BY <1>3, <2>1 DEF InOrder, Queues
  <2> QED BY <1>3, <2>2 DEF InOrder, Queues
<1>8. \A m \in merged[t] : m.from = r => m.id < n
  BY <1>2 DEF Later
<1>9. Apart'
  <2> SUFFICES ASSUME NEW w \in Ranks, NEW u \in Ranks, NEW i \in 1 .. Len(answers'[u][w])
               PROVE  [from |-> u, id |-> answers'[u][w][i].id] \notin merged[w]
    BY <1>3 DEF Apart
  <2>1. CASE i \in 1 .. Len(answers[u][w]) /\ answers'[u][w][i] = answers[u][w][i]
    BY <2>1 DEF InOrder, Apart
  <2>2. CASE u = r /\ w = t /\ answers'[u][w][i].id = n
    <3>1. n \in Nat
      BY <1>1 DEF x, n, Messages
    <3> QED BY <1>8, <2>2, <3>1
  <2> QED BY <1>6, <2>1, <2>2
<1>10. ASSUME NEW w \in Ranks, NEW u \in Ranks, NEW k, Later(w, u, k),
              u = r /\ w = t => n < k
       PROVE  Later(w, u, k)'
  <2>1. ASSUME NEW i \in 1 .. Len(answers'[u][w]) PROVE answers'[u][w][i].id < k
    BY <1>6, <1>10 DEF Later
  <2> QED BY <1>3, <1>10, <2>1 DEF Later
<1>11. RequestsLater'
  <2> SUFFICES ASSUME NEW w \in Ranks, NEW u \in Ranks, NEW i \in 1 .. Len(requests[w][u])
               PROVE  Later(w, u, requests[w][u][i].id)'
    BY <1>3 DEF RequestsLater
  <2>1. Later(w, u, requests[w][u][i].id)
    BY DEF InOrder, RequestsLater
  <2>2. PICK k \in {requests[w][u][i].id} : Later(w, u, k)
    BY <2>1
  <2>3. u = r /\ w = t => n < k
    BY <1>2, <2>2
  <2>4. Later(w, u, k)'
    BY <1>10, <2>2, <2>3
  <2> QED BY <1>3, <2>2, <2>4 DEF Later
<1>12. AnswerNext'
  <2> SUFFICES ASSUME NEW u \in Ranks \ {r}, monitor[u].at = "send"
               PROVE  Later(monitor[u].src, u, monitor[u].id)'
    BY <1>3 DEF InOrder, AnswerNext, Later
  <2>1. monitor[u].src \in Ranks /\ Later(monitor[u].src, u, monitor[u].id)
    BY DEF Types, MonitorTypes, Answering, InOrder, AnswerNext
  <2>2. PICK w \in Ranks, k \in {monitor[u].id} : w = monitor[u].src /\ Later(w, u, k)
    BY <2>1
  <2>3. Later(w, u, k)'
    BY <1>10, <2>2
  <2> QED BY <1>3, <2>2, <2>3 DEF Later
<1> QED BY <1>3, <1>7, <1>9, <1>11, <1>12 DEF InOrder

LEMMA InOrderStep == Types /\ Owned /\ InOrder /\ [Next]_vars => InOrder'
<1> SUFFICES ASSUME Types, Owned, InOrder, [Next]_vars PROVE InOrder'
  OBVIOUS
<1>1. CASE UNCHANGED vars
  BY <1>1, QuietInOrder DEF vars
<1>2. ASSUME NEW r \in Ranks,
             \/ Initialize(r) \/ Finalize(r) \/ Bcast(r) \/ AllReceived(r)
             \/ Timeout(r) \/ Join(r)
      PROVE  InOrder'
  BY <1>2, QuietInOrder
     DEF Initialize, Finalize, Bcast, Decide, AllReceived, Timeout, Join
<1>3. ASSUME NEW r \in Ranks, NEW label \in MonitorLabels \ {"send", "sending"},
             Monitoring(r, label), UNCHANGED <<requests, answers, merged>>
      PROVE  InOrder'
  BY <1>3, QuietInOrder DEF Monitoring, Idle, Types, MonitorTypes
<1>4. ASSUME NEW r \in Ranks, CommDup(r) \/ Loop(r) \/ NoRequest(r) \/ Sent(r)
      PROVE  InOrder'
  BY <1>3, <1>4 DEF CommDup, Loop, NoRequest, Sent, MonitorLabels
<1> QED BY <1>1, <1>2, <1>4, AskInOrder, ReceiveInOrder, RequestInOrder, SendInOrder
        DEF Next, Waiting, Monitor

\* getRemoteCallStacks: whatever is merged for a call has not been merged for
\* it before, so the set of merged answers has as many elements as N_finished
\* counts.
CountRises ==
  [][\A r, s \in Ranks :
       Receive(r, s) => Cardinality(merged'[r]) = Cardinality(merged[r]) + 1]_vars

\* No answer is counted twice, although late answers of any earlier calls may
\* still be under way: N_finished < size ends the wait exactly when as many
\* different answers have come as there are other ranks.
THEOREM EachAnswerCountsOnce == Spec => CountRises
<1>1. Types /\ InOrder /\ [Next]_vars =>
        [\A r, s \in Ranks :
           Receive(r, s) => Cardinality(merged'[r]) = Cardinality(merged[r]) + 1]_vars
  BY ReceiveInOrder
<1>2. Spec => []InOrder
  BY InOrderInit, InOrderStep, TypesInvariant, OwnedInvariant, PTL DEF Spec
<1> QED BY <1>1, <1>2, TypesInvariant, PTL DEF Spec, CountRises

\* What a rank in getRemoteCallStacks does ends its call, or brings it one of the
\* answers it lacks; nobody else takes an answer away or sends it back.
CallNears ==
  [][\A r \in Ranks : main[r] = "wait" =>
       \/ main'[r] = "ready"
       \/ main'[r] = "wait" /\ merged'[r] = merged[r] /\ ~Waiting(r)
       \/ /\ main'[r] = "wait"
          /\ Cardinality(merged'[r]) = Cardinality(merged[r]) + 1
          /\ Cardinality(merged'[r]) < Cardinality(Ranks)]_vars

LEMMA CallStepNears ==
  ASSUME Types, InOrder, Next, NEW r \in Ranks, main[r] = "wait"
  PROVE  \/ main'[r] = "ready"
         \/ main'[r] = "wait" /\ merged'[r] = merged[r] /\ ~Waiting(r)
         \/ /\ main'[r] = "wait"
            /\ Cardinality(merged'[r]) = Cardinality(merged[r]) + 1
            /\ Cardinality(merged'[r]) < Cardinality(Ranks)
<1> USE DEF Types, SetupTypes, MergedTypes, Goto
<1>1. ASSUME Waiting(r), main'[r] # "ready"
      PROVE  /\ main'[r] = "wait"
             /\ Cardinality(merged'[r]) = Cardinality(merged[r]) + 1
             /\ Cardinality(merged'[r]) < Cardinality(Ranks)
  <2>1. PICK s \in Ranks : Receive(r, s)
    BY <1>1 DEF Waiting, Bcast, CommDup, AllReceived, Timeout, Join
  <2>2. Cardinality(merged'[r]) = Cardinality(merged[r]) + 1
    BY <2>1, ReceiveInOrder
  <2>. QED
    BY <2>1, <2>2 DEF Receive, Take, Missing
<1>2. ASSUME NEW x \in Ranks, Monitor(x) PROVE UNCHANGED <<main, merged>>
  BY <1>2 DEF Monitor, Loop, NoRequest, Sent, Request, Send
<1>3. ASSUME NEW x \in Ranks, x # r, Waiting(x)
      PROVE  UNCHANGED <<main[r], merged[r]>>
  <2>1. CASE Bcast(x) \/ CommDup(x) \/ Join(x)
    BY <1>3, <2>1 DEF Bcast, Decide, CommDup, Join
  <2>2. CASE AllReceived(x) \/ Timeout(x)
    BY <1>3, <2>2 DEF AllReceived, Timeout
  <2>3. ASSUME NEW s \in Ranks, Receive(x, s) PROVE UNCHANGED <<main[r], merged[r]>>
    BY <1>3, <2>3 DEF Receive, Take
  <2>. QED
    BY <1>3, <2>1, <2>2, <2>3 DEF Waiting
<1>4. ASSUME NEW x \in Ranks, Initialize(x) \/ Finalize(x)
      PROVE  UNCHANGED <<main[r], merged[r]>>
  BY <1>4 DEF Initialize, Finalize
<1>5. ASSUME NEW x \in Ranks, NEW tag \in Tags, Ask(x, tag)
      PROVE  UNCHANGED <<main[r], merged[r]>>
  BY <1>5 DEF Ask
<1>. QED
  BY <1>1, <1>2, <1>3, <1>4, <1>5 DEF Next

\* getGlobalCallStacks takes at most one step for each other rank before it has all
\* answers or its time is up, whatever the other ranks do and however many late
\* answers arrive.
THEOREM CallNearsHolds == Spec => CallNears
<1>1. Types /\ InOrder /\ [Next]_vars =>
        [\A r \in Ranks : main[r] = "wait" =>
           \/ main'[r] = "ready"
           \/ main'[r] = "wait" /\ merged'[r] = merged[r] /\ ~Waiting(r)
           \/ /\ main'[r] = "wait"
              /\ Cardinality(merged'[r]) = Cardinality(merged[r]) + 1
              /\ Cardinality(merged'[r]) < Cardinality(Ranks)]_vars
  BY CallStepNears
<1>2. Spec => []InOrder
  BY InOrderInit, InOrderStep, TypesInvariant, OwnedInvariant, PTL DEF Spec
<1> QED BY <1>1, <1>2, TypesInvariant, PTL DEF Spec, CallNears

\* The tag of the last call of r is not that of an earlier one.
FreshTag(r) == \A i \in 1 .. Last(r) - 1 : calls[r][i].tag # calls[r][Last(r)].tag

ExactWhenFresh ==
  \A r \in Ranks :
    Full(r) /\ FreshTag(r) =>
      merged[r] = {[from |-> s, id |-> Last(r)] : s \in Ranks \ {r}}

\* getRemoteCallStacks: a call that has received N_finished = size under a tag that
\* it had not drawn before holds the answer to this very call of every other rank,
\* and nothing else, however many earlier calls it gave up.
THEOREM FreshTagIsExact == Spec => []ExactWhenFresh
<1>1. TypeOK /\ CurrentUnlessTagReused /\ FullHasEveryRank => ExactWhenFresh
  <2> SUFFICES ASSUME TypeOK, CurrentUnlessTagReused, FullHasEveryRank,
                      NEW r \in Ranks, Full(r), FreshTag(r)
               PROVE  merged[r] = {[from |-> s, id |-> Last(r)] : s \in Ranks \ {r}}
    BY DEF ExactWhenFresh
  <2>1. merged[r] \subseteq [from : Ranks \ {r}, id : 1 .. Last(r)] /\ Last(r) \in Nat
    BY DEF TypeOK, Last, Full
  <2>2. Stale(r) = {}
    BY <2>1 DEF FreshTag, CurrentUnlessTagReused, Stale
  <2>3. {m.from : m \in merged[r]} = Ranks \ {r}
    BY <2>2 DEF FullHasEveryRank, Full
  <2>4. \A m \in merged[r] : m = [from |-> m.from, id |-> Last(r)] /\ m.from \in Ranks \ {r}
    BY <2>1, <2>2 DEF Stale
  <2>5. ASSUME NEW s \in Ranks \ {r} PROVE [from |-> s, id |-> Last(r)] \in merged[r]
    <3>1. PICK m \in merged[r] : m.from = s
      BY <2>3
    <3>. QED
      BY <2>4, <3>1
  <2>. QED
    BY <2>4, <2>5
<1>. QED
  BY <1>1, TypeCorrect, CurrentUnlessTagReusedHolds, FullHasEveryRankHolds, PTL

-----------------------------------------------------------------------------
(* Who waits for whom: the collective calls, and the join of the monitor *)

\* globalCallStackInitialize: a rank in MPI_Bcast waits only for a rank 0 that
\* has not broadcast yet, and one in MPI_Comm_dup only for ranks that are on
\* their way to it, and that wait for nobody.
InitializeWaitsForLate ==
  \A r \in Ranks :
    /\ main[r] = "bcast" => r = Root \/ count # None \/ ~Started(Root)
    /\ main[r] = "dup" => count # None /\ \A s \in Ranks \ entered : ~Started(s)

\* A rank in MPI_Comm_dup has entered it.
Entering == \A r \in Ranks : main[r] = "dup" => r \in entered

LEMMA EnteringStep == Types /\ Entering /\ [Next]_vars => Entering'
<1> SUFFICES ASSUME Types, Entering, [Next]_vars PROVE Entering'
  OBVIOUS
<1> USE DEF Types, SetupTypes, Entering
<1>1. CASE UNCHANGED <<main, entered>>
  BY <1>1
<1>2. ASSUME NEW r \in Ranks, NEW label, label # "dup", Goto(r, label), UNCHANGED entered
      PROVE  Entering'
  BY <1>2 DEF Goto
<1>3. ASSUME NEW r \in Ranks, Bcast(r) PROVE Entering'
  BY <1>2, <1>3 DEF Bcast, Decide, Goto
<1>4. ASSUME NEW r \in Ranks,
             \/ Initialize(r) \/ CommDup(r) \/ AllReceived(r) \/ Timeout(r)
             \/ Join(r) \/ Finalize(r) \/ \E tag \in Tags : Ask(r, tag)
      PROVE  Entering'
  BY <1>2, <1>4 DEF Initialize, CommDup, AllReceived, Timeout, Join, Finalize, Ask, setup
<1>5. ASSUME NEW r \in Ranks, Monitor(r) \/ \E s \in Ranks : Receive(r, s)
      PROVE  Entering'
  BY <1>1, <1>5 DEF Monitor, Receive, Take, Loop, NoRequest, Sent, Request, Send, setup
<1> QED BY <1>1, <1>3, <1>4, <1>5 DEF Next, Waiting, vars

\* globalCallStackInitialize cannot lock up: whichever ranks have come and
\* gone, nobody waits in a collective call for a rank that is past it.
THEOREM InitializeNeverStuck == Spec => []InitializeWaitsForLate
<1>1. Support /\ Entering => InitializeWaitsForLate
  BY DEF Support, Entering, InitializeWaitsForLate, Started
<1>2. Init => Entering
  BY DEF Init, Entering
<1> QED BY <1>1, <1>2, EnteringStep, SupportInit, SupportStep, TypesInvariant, PTL
        DEF Spec

-----------------------------------------------------------------------------
\* A call is open just while its rank waits for the answers to it.
OpenWaits ==
  \A r \in Ranks : \A i \in 1 .. Last(r) :
    calls[r][i].outcome = "open" => i = Last(r) /\ main[r] = "wait"

\* A rank that joins its monitor has told it to stop.
JoinStops ==
  \A r \in Ranks : main[r] = "join" => status[r] = 2 /\ monitor[r].at # "off"

\* The asker has taken the answer that r is sending.
Taken(r) ==
  \A i \in 1 .. Len(answers[r][monitor[r].src]) :
    answers[r][monitor[r].src][i].id # monitor[r].id

\* A monitor in MPI_Send can go on at once, or its asker is about to take the
\* answer, or nobody will ever take it during the call it was meant for.
SendWaitsForAsker ==
  \A r \in Ranks :
    monitor[r].at = "sending" =>
      \/ Taken(r)
      \/ main[monitor[r].src] = "wait" /\ Matching(r, monitor[r].src) # {}
      \/ Unwanted(r)

LEMMA OpenWaitsStep == Types /\ OpenWaits /\ [Next]_vars => OpenWaits'
<1> SUFFICES ASSUME Types, OpenWaits, [Next]_vars PROVE OpenWaits'
  OBVIOUS
<1> USE DEF Types, SetupTypes
<1>1. CASE UNCHANGED <<main, calls>>
  BY <1>1 DEF OpenWaits, Last
<1>2. ASSUME NEW r \in Ranks, NEW label, Goto(r, label), UNCHANGED calls, main[r] # "wait"
      PROVE  OpenWaits'
  BY <1>2 DEF OpenWaits, Goto, Last
<1>3. ASSUME NEW r \in Ranks,
             \/ Initialize(r) \/ Bcast(r) \/ CommDup(r) \/ Join(r) \/ Finalize(r)
      PROVE  OpenWaits'
  BY <1>2, <1>3 DEF Initialize, Bcast, Decide, CommDup, Join, Finalize
<1>4. ASSUME NEW r \in Ranks, NEW tag \in Tags, Ask(r, tag) PROVE OpenWaits'
  <2> DEFINE call == [tag |-> tag, outcome |-> "open"]
  <2>1. calls[r] \in Seq(Records) /\ call \in Records /\ Len(calls[r]) \in Nat
    BY LenProperties DEF CallTypes, Records
  <2>2. calls'[r] = Append(calls[r], call) /\ main[r] = "ready" /\ main'[r] = "wait"
        /\ \A t \in Ranks \ {r} : calls'[t] = calls[t] /\ main'[t] = main[t]
    BY <1>4 DEF Ask, Goto, CallTypes
  <2> HIDE DEF call
  <2>3. /\ Len(calls'[r]) = Len(calls[r]) + 1
        /\ \A i \in 1 .. Len(calls[r]) : calls'[r][i] = calls[r][i]
    BY <2>1, <2>2, AppendProperties
  <2>4. \A i \in 1 .. Len(calls[r]) : calls[r][i].outcome # "open"
    BY <2>2 DEF OpenWaits, Last
  <2>5. \A i \in 1 .. Len(calls'[r]) :
          calls'[r][i].outcome = "open" => i = Len(calls'[r]) /\ main'[r] = "wait"
    BY <2>1, <2>2, <2>3, <2>4
  <2> QED BY <2>2, <2>5 DEF OpenWaits, Last
<1>5. ASSUME NEW r \in Ranks, NEW outcome \in {"full", "timeout"}, main[r] = "wait",
             Finish(r, outcome), Goto(r, "ready")
      PROVE  OpenWaits'
  <2>1. /\ calls[r] \in Seq(Records) /\ Last(r) \in 1 .. Len(calls[r])
        /\ \A t \in Ranks \ {r} : calls'[t] = calls[t] /\ main'[t] = main[t]
    BY <1>5, EmptySeq DEF CallTypes, Last, Finish, Goto
  <2>2. calls[r][Last(r)] \in Records /\ DOMAIN calls[r] = 1 .. Len(calls[r])
    BY <2>1, ElementOfSeq, LenProperties
  <2>3. Len(calls'[r]) = Len(calls[r])
    BY <1>5, <2>1, FinishFacts DEF CallTypes
  <2>4. calls'[r] = [calls[r] EXCEPT ![Last(r)] =
          [calls[r][Last(r)] EXCEPT !.outcome = outcome]]
    BY <1>5 DEF Finish, CallTypes
  <2>5. \A i \in 1 .. Len(calls[r]) : calls'[r][i].outcome # "open"
    BY <1>5, <2>1, <2>2, <2>4 DEF OpenWaits, Last, Records
  <2> QED BY <2>1, <2>3, <2>5 DEF OpenWaits, Last
<1>6. ASSUME NEW r \in Ranks, AllReceived(r) \/ Timeout(r) PROVE OpenWaits'
  BY <1>5, <1>6 DEF AllReceived, Timeout
<1>7. ASSUME NEW r \in Ranks, Monitor(r) \/ \E s \in Ranks : Receive(r, s)
      PROVE  OpenWaits'
  BY <1>1, <1>7 DEF Monitor, Receive, Take, Loop, NoRequest, Sent, Request, Send
<1> QED BY <1>1, <1>3, <1>4, <1>6, <1>7 DEF Next, Waiting, vars

LEMMA JoinStopsStep == Types /\ JoinStops /\ [Next]_vars => JoinStops'
<1> SUFFICES ASSUME Types, JoinStops, [Next]_vars PROVE JoinStops'
  OBVIOUS
<1> USE DEF Types, SetupTypes, MonitorTypes, JoinStops
<1>1. CASE UNCHANGED <<main, status, monitor>>
  BY <1>1
<1>2. ASSUME NEW r \in Ranks, Monitor(r) PROVE JoinStops'
  <2>1. UNCHANGED <<main, status>> /\ \A s \in Ranks \ {r} : monitor'[s] = monitor[s]
    BY <1>2 DEF Monitor, Loop, NoRequest, Sent, Request, Send, Monitoring
  <2>2. monitor'[r].at # "off"
    BY <1>2 DEF Monitor, Loop, NoRequest, Sent, Request, Send, Monitoring, Idle
  <2> QED BY <2>1, <2>2
<1>3. ASSUME NEW r \in Ranks, Initialize(r) \/ Bcast(r) PROVE JoinStops'
  BY <1>3 DEF Initialize, Bcast, Decide, Goto
<1>4. ASSUME NEW r \in Ranks, CommDup(r) PROVE JoinStops'
  BY <1>4 DEF CommDup, Goto, Monitoring
<1>5. ASSUME NEW r \in Ranks, Finalize(r) PROVE JoinStops'
  BY <1>5 DEF Finalize, Goto
<1>6. ASSUME NEW r \in Ranks,
             \/ AllReceived(r) \/ Timeout(r) \/ Join(r)
             \/ (\E s \in Ranks : Receive(r, s)) \/ \E tag \in Tags : Ask(r, tag)
      PROVE  JoinStops'
  BY <1>6 DEF AllReceived, Timeout, Join, Receive, Take, Ask, Goto
<1> QED BY <1>1, <1>2, <1>3, <1>4, <1>5, <1>6 DEF Next, Waiting, vars

LEMMA SendFacts ==
  ASSUME Types, Owned, OpenWaits
  PROVE  SendWaitsForAsker
<1> SUFFICES ASSUME NEW r \in Ranks, monitor[r].at = "sending", ~Taken(r), ~Unwanted(r)
             PROVE  main[monitor[r].src] = "wait" /\ Matching(r, monitor[r].src) # {}
  BY DEF SendWaitsForAsker
<1> DEFINE s == monitor[r].src
           n == monitor[r].id
<1>1. s \in Ranks /\ n \in 1 .. Last(s) /\ answers[r][s] \in Seq(Messages)
  BY DEF Types, MonitorTypes, Answering, MessageTypes, Owned, MonitorsOwned, Of
<1>2. n = Last(s) /\ calls[s][n].outcome = "open"
  BY DEF Unwanted
<1>3. main[s] = "wait"
  BY <1>1, <1>2 DEF OpenWaits
<1>4. PICK i \in 1 .. Len(answers[r][s]) : answers[r][s][i].id = n
  BY DEF Taken
<1>5. answers[r][s][i].tag = calls[s][Last(s)].tag
  BY <1>1, <1>2, <1>4 DEF Owned, AnswersOwned, Of
<1>6. i \in Matching(r, s)
  BY <1>1, <1>4, <1>5, LenProperties DEF Matching
<1> QED BY <1>3, <1>6

\* What a monitor has left to do before it can end.
Left(label) ==
  CASE label = "done" -> 0
    [] label = "loop" -> 1
    [] label = "sending" -> 2
    [] label = "send" -> 3
    [] OTHER -> 4

\* runGlobalMonitorThread: once its rank is in the join, every step of a
\* monitor brings it closer to its end, and no step of another thread takes it
\* away from there.
JoinNears ==
  [][\A r \in Ranks : main[r] = "join" =>
       /\ monitor'[r] # monitor[r] => Left(monitor'[r].at) < Left(monitor[r].at)
       /\ Monitor(r) => monitor'[r] # monitor[r]]_vars

\* globalCallStackFinalize: the monitor that is joined answers at most the
\* request it has before it, and does not begin another turn.
THEOREM JoinNearsHolds == Spec => JoinNears
<1>1. Types /\ JoinStops /\ [Next]_vars =>
        [\A r \in Ranks : main[r] = "join" =>
           /\ monitor'[r] # monitor[r] => Left(monitor'[r].at) < Left(monitor[r].at)
           /\ Monitor(r) => monitor'[r] # monitor[r]]_vars
  <2> SUFFICES ASSUME Types, JoinStops, Next, NEW r \in Ranks, main[r] = "join"
               PROVE  /\ monitor'[r] # monitor[r] =>
                           Left(monitor'[r].at) < Left(monitor[r].at)
                      /\ Monitor(r) => monitor'[r] # monitor[r]
    OBVIOUS
  <2>1. status[r] = 2 /\ monitor \in [Ranks -> [at : MonitorLabels,
          src : Ranks \union {None}, tag : Tags \union {None}, id : Nat \union {None}]]
    BY DEF JoinStops, Types, MonitorTypes
  <2>2. ASSUME Monitor(r)
        PROVE  /\ monitor'[r].at # monitor[r].at
               /\ Left(monitor'[r].at) < Left(monitor[r].at)
    <3>1. CASE Loop(r)
      BY <2>1, <3>1 DEF Loop, Monitoring, Idle, Left
    <3>2. CASE NoRequest(r) \/ Sent(r)
      BY <2>1, <3>2 DEF NoRequest, Sent, Monitoring, Idle, Left
    <3>3. CASE \E s \in Ranks : Request(r, s)
      BY <2>1, <3>3 DEF Request, Idle, Left
    <3>4. CASE \E mode \in SendModes : Send(r, mode)
      BY <2>1, <3>4 DEF Send, Idle, Left
    <3> QED BY <2>2, <3>1, <3>2, <3>3, <3>4 DEF Monitor
  <2>3. ASSUME ~Monitor(r) PROVE monitor'[r] = monitor[r]
    <3>1. ASSUME NEW s \in Ranks \ {r}, Monitor(s) PROVE monitor'[r] = monitor[r]
      BY <2>1, <3>1 DEF Monitor, Loop, NoRequest, Sent, Request, Send, Monitoring
    <3>2. ASSUME NEW s \in Ranks, CommDup(s) PROVE monitor'[r] = monitor[r]
      BY <2>1, <3>2 DEF CommDup, Monitoring
    <3> QED BY <2>3, <3>1, <3>2
            DEF Next, Waiting, Initialize, Finalize, Bcast, Decide, AllReceived,
                Timeout, Join, Receive, Take, Ask
  <2> QED BY <2>2, <2>3
<1>2. Spec => []JoinStops
  <2>1. Init => JoinStops
    BY DEF Init, JoinStops
  <2> QED BY <2>1, JoinStopsStep, TypesInvariant, PTL DEF Spec
<1> QED BY <1>1, <1>2, TypesInvariant, PTL DEF Spec, JoinNears

\* globalCallStackFinalize hangs only for an answer that nobody wants: as long
\* as the call an answer is meant for is open, its asker is waiting for it.
THEOREM SendStuckOnlyUnwanted == Spec => []SendWaitsForAsker
<1>1. Init => OpenWaits
  BY EmptySeq DEF Init, OpenWaits, Last
<1> QED BY <1>1, OpenWaitsStep, SendFacts, TypesInvariant, OwnedInvariant, PTL
        DEF Spec

===========================================================================
