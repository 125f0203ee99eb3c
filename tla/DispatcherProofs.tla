-------------------------- MODULE DispatcherProofs --------------------------
(***************************************************************************)
(* Proofs about Dispatcher, for any users, jobs, queue size and number of  *)
(* workers.  Everything rests on one inductive invariant, Shape: the ready *)
(* list has at most one user, and only while run is about to call          *)
(* dispatchOne.                                                            *)
(***************************************************************************)
EXTENDS Dispatcher, SequenceLemmas, TLAPS

\* The user queues and the ready list, as run and CancelUser leave them: all
\* empty, or one job of one user, enqueued and in the list.
OneTurn(u) ==
  /\ queues[u].enqueued
  /\ \E j \in Jobs : queues[u].jobs = <<j>> /\ JobUser[j] = u

NoTurn(u) == ~queues[u].enqueued /\ queues[u].jobs = <<>>

Shape ==
  /\ \/ ready = <<>> /\ positions = {}
     \/ /\ pc = "dispatch"
        /\ \E u \in DOMAIN queues : ready = <<u>> /\ positions = {u}
  /\ \A u \in DOMAIN queues : IF ready = <<u>> THEN OneTurn(u) ELSE NoTurn(u)

IInv == TypeOK /\ Shape

-----------------------------------------------------------------------------
(* The steps that touch the queues, each on its own.                       *)

LEMMA InitIInv == Init => IInv
<1> SUFFICES ASSUME Init PROVE IInv
  OBVIOUS
<1>1. TypeOK
  BY DispatcherAssumption DEF Init, TypeOK, Status, UserQueue
<1>2. Shape
  BY DEF Init, Shape
<1> QED BY <1>1, <1>2 DEF IInv

LEMMA DispatchOneIInv == IInv /\ DispatchOne => IInv'
<1> SUFFICES ASSUME TypeOK, Shape, DispatchOne PROVE IInv'
  BY DEF IInv
<1> USE DispatcherAssumption
<1>1. CASE ready = <<>>
  BY <1>1 DEF IInv, TypeOK, Shape, OneTurn, NoTurn, DispatchOne, callerVars, queueVars
<1>2. CASE ready # <<>>
  <2>1. pc = "dispatch" /\ pc' = "acquire"
    BY <1>2 DEF DispatchOne
  <2>2. PICK u \in DOMAIN queues : ready = <<u>> /\ positions = {u}
    BY <1>2 DEF Shape
  <2>3. PICK j \in Jobs : queues[u].jobs = <<j>>
    BY <2>2 DEF Shape, OneTurn
  <2>4. Head(ready) = u /\ Tail(ready) = <<>>
    BY <2>2
  <2>5. Head(queues[u].jobs) = j /\ Tail(queues[u].jobs) = <<>>
    BY <2>3
  <2>6. /\ hand' = j
        /\ queues' = [queues EXCEPT ![u] = [jobs |-> <<>>, enqueued |-> FALSE]]
        /\ ready' = <<>>
        /\ positions' = {}
    BY <1>2, <2>2, <2>4, <2>5 DEF DispatchOne
  <2>7. [jobs |-> <<>>, enqueued |-> FALSE] \in UserQueue
    BY DEF UserQueue
  <2>8. TypeOK'
    BY <2>1, <2>6, <2>7 DEF TypeOK, DispatchOne, callerVars
  <2>9. Shape'
    BY <2>2, <2>6 DEF Shape, NoTurn, OneTurn, TypeOK
  <2> QED BY <2>8, <2>9 DEF IInv
<1> QED BY <1>1, <1>2

LEMMA EnqueueJobIInv == IInv /\ EnqueueJob => IInv'
<1> SUFFICES ASSUME TypeOK, Shape, EnqueueJob PROVE IInv'
  BY DEF IInv
<1> USE DispatcherAssumption
<1>1. hand \in Jobs /\ pc' = "dispatch" /\ hand' = NoJob
  BY DEF EnqueueJob, TypeOK
<1>u. PICK u \in Users : u = JobUser[hand]
  BY <1>1
<1>2. ready = <<>> /\ positions = {}
  BY DEF Shape, EnqueueJob
<1>3. QueueOf(u) = [jobs |-> <<>>, enqueued |-> FALSE]
  BY <1>2 DEF QueueOf, Shape, NoTurn, TypeOK, UserQueue
<1>4. /\ queues' = [v \in DOMAIN queues \cup {u} |->
             IF v = u THEN [jobs |-> <<hand>>, enqueued |-> TRUE] ELSE queues[v]]
      /\ ready' = <<u>>
      /\ positions' = {u}
  <2>1. Append(<<>>, hand) = <<hand>> /\ Append(<<>>, u) = <<u>>
    OBVIOUS
  <2>2. QueueOf(u).jobs = <<>> /\ QueueOf(u).enqueued = FALSE
    BY <1>3
  <2> QED BY <1>2, <1>u, <2>1, <2>2, Zenon DEF EnqueueJob
<1>5. [jobs |-> <<hand>>, enqueued |-> TRUE] \in UserQueue
  BY <1>1 DEF UserQueue
<1>6. TypeOK'
  <2>1. queues' \in [DOMAIN queues' -> UserQueue] /\ DOMAIN queues' \subseteq Users
    BY <1>4, <1>5 DEF TypeOK
  <2>2. ready' \in Seq(Users) /\ positions' \subseteq Users
    BY <1>4
  <2> QED BY <1>1, <2>1, <2>2 DEF TypeOK, EnqueueJob, callerVars
<1>7. Shape'
  <2>1. u \in DOMAIN queues' /\ OneTurn(u)'
    BY <1>1, <1>u, <1>4 DEF OneTurn
  <2>2. ASSUME NEW v \in DOMAIN queues', v # u PROVE NoTurn(v)' /\ ready' # <<v>>
    BY <1>2, <1>4, <2>2 DEF Shape, NoTurn
  <2> QED BY <1>1, <1>4, <2>1, <2>2 DEF Shape
<1> QED BY <1>6, <1>7 DEF IInv

LEMMA CancelUserIInv == ASSUME NEW u \in Users PROVE IInv /\ CancelUser(u) => IInv'
<1> SUFFICES ASSUME TypeOK, Shape, CancelUser(u) PROVE IInv'
  BY DEF IInv
<1>1. QueueOf(u) \in UserQueue
  BY DEF QueueOf, TypeOK, UserQueue
<1>2. ToSet(QueueOf(u).jobs) \subseteq Jobs
  BY <1>1 DEF UserQueue, ToSet
<1>3. CASE u \in positions
  <2>1. ready = <<u>> /\ positions = {u} /\ pc = "dispatch"
    BY <1>3 DEF Shape
  <2>2. ready' = <<>> /\ positions' = {}
    BY <1>3, <2>1, RemoveOnly DEF CancelUser, Without
  <2>3. TypeOK'
    <3>1. queues' \in [DOMAIN queues' -> UserQueue] /\ DOMAIN queues' \subseteq Users
      BY DEF TypeOK, CancelUser
    <3>2. ready' \in Seq(Users) /\ positions' \subseteq Users /\ cancelled' \subseteq Jobs
      <4>1. <<>> \in Seq(Users)
        OBVIOUS
      <4>2. cancelled' = cancelled \cup ToSet(QueueOf(u).jobs)
        BY DEF CancelUser
      <4> QED BY <1>2, <2>2, <4>1, <4>2 DEF TypeOK
    <3> QED BY <3>1, <3>2 DEF TypeOK, CancelUser
  <2>4. Shape'
    BY <2>1, <2>2 DEF Shape, NoTurn, CancelUser
  <2> QED BY <2>3, <2>4 DEF IInv
<1>4. CASE u \notin positions
  <2>1. ready' = ready /\ positions' = positions
    BY <1>4 DEF CancelUser
  <2>2. TypeOK'
    BY <1>2, <2>1 DEF TypeOK, CancelUser
  <2>3. Shape'
    BY <1>4, <2>1 DEF Shape, OneTurn, NoTurn, CancelUser
  <2> QED BY <2>2, <2>3 DEF IInv
<1> QED BY <1>3, <1>4

\* The other steps leave the queues alone.
LEMMA NextIInv == IInv /\ [Next]_vars => IInv'
<1> SUFFICES ASSUME IInv, [Next]_vars PROVE IInv'
  OBVIOUS
<1> USE DispatcherAssumption
<1> USE DEF IInv, TypeOK, Shape, OneTurn, NoTurn, callerVars, queueVars
<1>1. CASE \E j \in Jobs : Call(j)
  BY <1>1 DEF Call, Status
<1>2. CASE \E j \in Jobs : Send(j)
  <2>1. PICK j \in Jobs : Send(j)
    BY <1>2
  <2>2. /\ jobQueue' \in Seq(Jobs)
        /\ Len(jobQueue') <= QueueSize
    BY <2>1 DEF Send
  <2> QED BY <2>1, <2>2 DEF Send, Status
<1>3. CASE \E j \in Jobs : EnqueueTimeout(j)
  BY <1>3 DEF EnqueueTimeout, Status
<1>4. CASE \E j \in Jobs : Answer(j)
  BY <1>4 DEF Answer, Status
<1>5. CASE DispatchOne
  BY <1>5, DispatchOneIInv
<1>6. CASE Handoff
  BY <1>6 DEF Handoff, Status
<1>7. CASE Receive
  <2>1. Head(jobQueue) \in Jobs /\ Tail(jobQueue) \in Seq(Jobs)
        /\ Len(Tail(jobQueue)) <= QueueSize
    BY <1>7 DEF Receive, TakeFromJobQueue
  <2> QED BY <1>7, <2>1 DEF Receive, TakeFromJobQueue
<1>8. CASE Poll
  <2>1. CASE TakeFromJobQueue
    <3>1. Head(jobQueue) \in Jobs /\ Tail(jobQueue) \in Seq(Jobs)
          /\ Len(Tail(jobQueue)) <= QueueSize
      BY <2>1 DEF TakeFromJobQueue
    <3> QED BY <1>8, <2>1, <3>1 DEF Poll, TakeFromJobQueue
  <2>2. CASE ~TakeFromJobQueue
    BY <1>8, <2>2 DEF Poll
  <2> QED BY <2>1, <2>2
<1>9. CASE EnqueueJob
  BY <1>9, EnqueueJobIInv
<1>10. CASE \E u \in Users : CancelUser(u)
  BY <1>10, CancelUserIInv
<1>11. CASE UNCHANGED vars
  BY <1>11 DEF vars
<1> QED
  BY <1>1, <1>2, <1>3, <1>4, <1>5, <1>6, <1>7, <1>8, <1>9, <1>10, <1>11 DEF Next

\* The strengthening holds of every reachable state.
THEOREM Invariance == Spec => []IInv
BY InitIInv, NextIInv, PTL DEF Spec

\* Every reachable state has well-typed variables.
THEOREM TypeCorrect == Spec => []TypeOK
BY Invariance, PTL DEF IInv

\* The four structures of the dispatcher never disagree about a user.
THEOREM QueuesStayConsistent == Spec => []QueuesConsistent
<1>1. IInv => QueuesConsistent
  <2> SUFFICES ASSUME TypeOK, Shape PROVE QueuesConsistent
    BY DEF IInv
  <2>1. \A u \in DOMAIN queues : queues[u].enqueued <=> ready = <<u>>
    BY DEF Shape, OneTurn, NoTurn
  <2>2. \A u \in DOMAIN queues : queues[u].jobs # <<>> <=> ready = <<u>>
    BY DEF Shape, OneTurn, NoTurn
  <2>3. CASE ready = <<>>
    <3>1. positions = {}
      BY <2>3 DEF Shape
    <3>2. \A u \in DOMAIN queues : ready # <<u>>
      BY <2>3
    <3> QED BY <2>1, <2>2, <2>3, <3>1, <3>2 DEF QueuesConsistent, ToSet
  <2>4. CASE ready # <<>>
    <3>1. PICK u \in DOMAIN queues : ready = <<u>> /\ positions = {u}
      BY <2>4 DEF Shape
    <3>2. ToSet(ready) = {u} /\ \A v \in DOMAIN queues : ready = <<v>> <=> v = u
      BY <3>1 DEF ToSet
    <3> QED BY <2>1, <2>2, <3>1, <3>2 DEF QueuesConsistent
  <2> QED BY <2>3, <2>4
<1> QED BY <1>1, Invariance, PTL

\* The user queues never hold two jobs, so the round robin never has a choice.
THEOREM NothingToChoose == Spec => []AtMostOneQueued
<1>1. IInv => AtMostOneQueued
  <2> SUFFICES ASSUME Shape PROVE AtMostOneQueued
    BY DEF IInv
  <2> DEFINE Short(s) == s = <<>> \/ \E x : s = <<x>>
  <2>0. ASSUME NEW s, Short(s) PROVE Len(s) <= 1
    <3>1. CASE s = <<>>
      BY <3>1
    <3>2. CASE \E x : s = <<x>>
      <4>1. PICK x : s = <<x>>
        BY <3>2
      <4> QED BY <4>1
    <3> QED BY <2>0, <3>1, <3>2
  <2>1. Len(ready) <= 1
    <3>1. Short(ready)
      BY Zenon DEF Shape
    <3> QED BY <2>0, <3>1
  <2>2. ASSUME NEW u \in DOMAIN queues PROVE Len(queues[u].jobs) <= 1
    <3>1. Short(queues[u].jobs)
      BY Zenon DEF Shape, OneTurn, NoTurn
    <3> QED BY <2>0, <3>1
  <2>3. pc # "dispatch" => ready = <<>>
    BY DEF Shape
  <2> QED BY <2>1, <2>2, <2>3 DEF AtMostOneQueued
<1> QED BY <1>1, Invariance, PTL

-----------------------------------------------------------------------------
(* Conservation of jobs.                                                   *)

\* NoJobLost but for its last conjunct, which Shape gives.
Flow ==
  /\ Waiting = ToSet(jobQueue) \cup InQueues \cup Held \cup cancelled
  /\ ToSet(jobQueue) \cap (InQueues \cup Held \cup cancelled) = {}
  /\ InQueues \cap (Held \cup cancelled) = {}
  /\ Held \cap cancelled = {}
  /\ Distinct(jobQueue)

\* What Shape says of the set of queued jobs.
LEMMA QueuedJobs ==
  IInv => /\ ready = <<>> => InQueues = {}
          /\ \A u \in DOMAIN queues : ready = <<u>> => InQueues = ToSet(queues[u].jobs)
<1> SUFFICES ASSUME Shape
             PROVE  /\ ready = <<>> => InQueues = {}
                    /\ \A u \in DOMAIN queues :
                         ready = <<u>> => InQueues = ToSet(queues[u].jobs)
  BY DEF IInv
<1>0. ToSet(<<>>) = {}
  BY EmptyFacts
<1>1. ASSUME ready = <<>> PROVE InQueues = {}
  <2>1. \A u \in DOMAIN queues : ready # <<u>>
    BY <1>1
  <2> QED BY <1>0, <2>1 DEF Shape, NoTurn, InQueues
<1>2. ASSUME NEW u \in DOMAIN queues, ready = <<u>>
      PROVE  InQueues = ToSet(queues[u].jobs)
  <2>1. \A v \in DOMAIN queues : v # u => ready # <<v>>
    BY <1>2
  <2>2. \A v \in DOMAIN queues : v # u => ToSet(queues[v].jobs) = {}
    BY <1>0, <2>1 DEF Shape, NoTurn
  <2> QED BY <2>2 DEF InQueues
<1> QED BY <1>1, <1>2

\* Steps that only move a caller in or out of the waiting jobs.
LEMMA CallerFlow ==
  ASSUME TypeOK, Flow, NEW j \in Jobs,
         Call(j) \/ EnqueueTimeout(j) \/ Answer(j)
  PROVE  Flow'
<1>1. UNCHANGED <<cancelled, jobQueue, queues, hand>>
  BY DEF Call, EnqueueTimeout, Answer, queueVars
<1>2. Waiting' = Waiting
  BY DEF Waiting, Call, EnqueueTimeout, Answer, TypeOK
<1>3. InQueues' = InQueues /\ Held' = Held
  BY <1>1 DEF InQueues, Held
<1> QED BY <1>1, <1>2, <1>3 DEF Flow

LEMMA SendFlow == ASSUME TypeOK, Flow, NEW j \in Jobs, Send(j) PROVE Flow'
<1>1. UNCHANGED <<cancelled, queues, hand>> /\ jobQueue' = Append(jobQueue, j)
  BY DEF Send, queueVars
<1>2. Waiting' = Waiting \cup {j} /\ j \notin Waiting
  BY DEF Waiting, Send, TypeOK
<1>3. InQueues' = InQueues /\ Held' = Held
  BY <1>1 DEF InQueues, Held
<1>4. jobQueue \in Seq(Jobs)
  BY DEF TypeOK
<1>5. ToSet(jobQueue') = ToSet(jobQueue) \cup {j}
  BY <1>1, <1>4, ToSetAppend
<1>6. j \notin ToSet(jobQueue)
  BY <1>2 DEF Flow
<1>7. Distinct(jobQueue')
  BY <1>1, <1>4, <1>6, DistinctAppend DEF Flow
<1> QED BY <1>1, <1>2, <1>3, <1>5, <1>7 DEF Flow

\* Receive, and the first disjunct of Poll.
LEMMA TakeFlow ==
  ASSUME TypeOK, Flow, hand = NoJob, TakeFromJobQueue,
         UNCHANGED <<status, cancelled, queues>>
  PROVE  Flow'
<1>1. jobQueue \in Seq(Jobs) /\ jobQueue # <<>> /\ Distinct(jobQueue)
  BY DEF TypeOK, TakeFromJobQueue, Flow
<1>2. /\ ToSet(jobQueue) = {Head(jobQueue)} \cup ToSet(jobQueue')
      /\ Head(jobQueue) \notin ToSet(jobQueue')
      /\ Distinct(jobQueue')
  BY <1>1, ToSetTail, DistinctTail DEF TakeFromJobQueue
<1>3. Head(jobQueue) \in Jobs
  BY <1>1
<1>4. Held = {} /\ Held' = {Head(jobQueue)}
  BY <1>3, DispatcherAssumption DEF Held, TakeFromJobQueue
<1>5. Waiting' = Waiting /\ InQueues' = InQueues /\ cancelled' = cancelled
  BY DEF Waiting, InQueues
<1> QED BY <1>2, <1>4, <1>5 DEF Flow

LEMMA HandoffFlow == ASSUME TypeOK, Flow, Handoff PROVE Flow'
<1>1. hand \in Jobs /\ Held = {hand} /\ Held' = {}
  BY DispatcherAssumption DEF TypeOK, Held, Handoff
<1>2. Waiting' = Waiting \ {hand}
  BY <1>1 DEF Waiting, Handoff, TypeOK
<1>3. UNCHANGED <<cancelled, jobQueue>> /\ InQueues' = InQueues
  BY DEF Handoff, queueVars, InQueues
<1> QED BY <1>1, <1>2, <1>3 DEF Flow

\* The steps that move a job between the hands of run and a user queue, or out
\* of one; InQueues before and after comes from Shape.
LEMMA QueueFlow ==
  ASSUME IInv, IInv', Flow,
         DispatchOne \/ EnqueueJob \/ \E u \in Users : CancelUser(u)
  PROVE  Flow'
<1> USE DispatcherAssumption
<1>q. /\ ready = <<>> => InQueues = {}
      /\ \A u \in DOMAIN queues : ready = <<u>> => InQueues = ToSet(queues[u].jobs)
  BY QueuedJobs
<1>q1. (IInv => /\ ready = <<>> => InQueues = {}
                /\ \A u \in DOMAIN queues :
                     ready = <<u>> => InQueues = ToSet(queues[u].jobs))'
  BY QueuedJobs, PTL
<1>q2. /\ ready' = <<>> => InQueues' = {}
       /\ \A u \in DOMAIN queues' : ready' = <<u>> => InQueues' = ToSet(queues[u].jobs)'
  BY <1>q1
<1>s. UNCHANGED <<status, jobQueue>>
  BY DEF DispatchOne, EnqueueJob, CancelUser, callerVars
<1>w. Waiting' = Waiting
  BY <1>s DEF Waiting
<1>1. CASE DispatchOne /\ ready = <<>>
  <2>1. UNCHANGED <<cancelled, queues, hand>>
    BY <1>1 DEF DispatchOne, callerVars, queueVars
  <2>2. InQueues' = InQueues /\ Held' = Held
    BY <2>1 DEF InQueues, Held
  <2> QED BY <1>s, <1>w, <2>1, <2>2 DEF Flow
<1>2. CASE DispatchOne /\ ready # <<>>
  <2>1. PICK u \in DOMAIN queues : ready = <<u>>
    BY <1>2 DEF IInv, Shape
  <2>2. PICK j \in Jobs : queues[u].jobs = <<j>>
    BY <2>1 DEF IInv, Shape, OneTurn
  <2>3. InQueues = {j}
    BY <1>q, <2>1, <2>2 DEF ToSet
  <2>4. hand = NoJob /\ hand' = j /\ cancelled' = cancelled
    BY <1>2, <2>1, <2>2 DEF DispatchOne, IInv, TypeOK, callerVars
  <2>5. pc' = "acquire"
    BY <1>2 DEF DispatchOne
  <2>6. ready' = <<>>
    BY <2>5 DEF IInv, Shape
  <2>7. InQueues' = {} /\ Held = {} /\ Held' = {j}
    BY <1>q2, <2>4, <2>6 DEF Held
  <2> QED BY <1>s, <1>w, <2>3, <2>4, <2>7 DEF Flow
<1>3. CASE EnqueueJob
  <2>1. hand \in Jobs /\ ready = <<>> /\ hand' = NoJob /\ cancelled' = cancelled
    BY <1>3 DEF EnqueueJob, IInv, TypeOK, Shape, callerVars
  <2>2. PICK u \in Users : u = JobUser[hand]
    BY <2>1
  <2>3. QueueOf(u).jobs = <<>> /\ ~QueueOf(u).enqueued
    BY <2>1 DEF QueueOf, IInv, Shape, NoTurn
  <2>4. u \in DOMAIN queues' /\ queues'[u].jobs = Append(<<>>, hand)
    BY <1>3, <2>2, <2>3 DEF EnqueueJob
  <2>5. ready' = Append(<<>>, u)
    BY <1>3, <2>1, <2>2, <2>3 DEF EnqueueJob
  <2>6. ready' = <<u>> /\ queues'[u].jobs = <<hand>>
    BY <2>4, <2>5
  <2>7. InQueues' = {hand}
    BY <1>q2, <2>4, <2>6 DEF ToSet
  <2>8. InQueues = {} /\ Held = {hand} /\ Held' = {}
    BY <1>q, <2>1 DEF Held
  <2> QED BY <1>s, <1>w, <2>1, <2>7, <2>8 DEF Flow
<1>4. CASE \E u \in Users : CancelUser(u)
  <2>1. PICK u \in Users : CancelUser(u)
    BY <1>4
  <2>2. /\ cancelled' = cancelled \cup ToSet(QueueOf(u).jobs)
        /\ hand' = hand
    BY <2>1 DEF CancelUser
  <2>3. Held' = Held
    BY <2>2 DEF Held
  <2>4. CASE u \in positions
    <3>1. ready = <<u>> /\ u \in DOMAIN queues
      BY <2>4 DEF IInv, Shape
    <3>2. InQueues = ToSet(QueueOf(u).jobs)
      BY <1>q, <3>1 DEF QueueOf
    <3>3. ready' = <<>>
      BY <2>1, <2>4, <3>1, RemoveOnly DEF CancelUser, Without
    <3>4. InQueues' = {}
      BY <1>q2, <3>3
    <3> QED BY <1>s, <1>w, <2>2, <2>3, <3>2, <3>4 DEF Flow
  <2>5. CASE u \notin positions
    <3>1. u \in DOMAIN queues => ready # <<u>>
      BY <2>5 DEF IInv, Shape
    <3>2. QueueOf(u).jobs = <<>>
      BY <3>1 DEF QueueOf, IInv, Shape, NoTurn
    <3>3. cancelled' = cancelled
      BY <2>2, <3>2, EmptyFacts
    <3>4. InQueues' = InQueues
      <4>1. DOMAIN queues' = DOMAIN queues \ {u}
            /\ \A v \in DOMAIN queues' : queues'[v] = queues[v]
        BY <2>1 DEF CancelUser
      <4>2. u \in DOMAIN queues => ToSet(queues[u].jobs) = {}
        BY <3>2, EmptyFacts DEF QueueOf
      <4> QED BY <4>1, <4>2 DEF InQueues
    <3> QED BY <1>s, <1>w, <2>3, <3>3, <3>4 DEF Flow
  <2> QED BY <2>4, <2>5
<1> QED BY <1>1, <1>2, <1>3, <1>4

LEMMA InitFlow == Init => Flow
<1> SUFFICES ASSUME Init PROVE Flow
  OBVIOUS
<1>1. Waiting = {} /\ Held = {} /\ InQueues = {} /\ cancelled = {}
  BY DEF Init, Waiting, Held, InQueues
<1> QED BY <1>1, EmptyFacts DEF Init, Flow

LEMMA NextFlow == IInv /\ IInv' /\ Flow /\ [Next]_vars => Flow'
<1> SUFFICES ASSUME IInv, IInv', Flow, [Next]_vars PROVE Flow'
  OBVIOUS
<1>0. TypeOK
  BY DEF IInv
<1>1. CASE \E j \in Jobs : Call(j) \/ EnqueueTimeout(j) \/ Answer(j)
  BY <1>0, <1>1, CallerFlow
<1>2. CASE \E j \in Jobs : Send(j)
  BY <1>0, <1>2, SendFlow
<1>3. CASE DispatchOne \/ EnqueueJob \/ \E u \in Users : CancelUser(u)
  BY <1>3, QueueFlow
<1>4. CASE Handoff
  BY <1>0, <1>4, HandoffFlow
<1>5. CASE Receive \/ Poll
  <2>1. hand = NoJob /\ UNCHANGED <<status, cancelled, queues>>
    BY <1>0, <1>5 DEF Receive, Poll, TypeOK, callerVars, queueVars
  <2>2. CASE TakeFromJobQueue
    BY <1>0, <2>1, <2>2, TakeFlow
  <2>3. CASE UNCHANGED <<jobQueue, hand>>
    BY <2>1, <2>3 DEF Flow, Waiting, InQueues, Held
  <2> QED BY <1>5, <2>2, <2>3 DEF Receive, Poll
<1>6. CASE UNCHANGED vars
  BY <1>6 DEF vars, Flow, Waiting, InQueues, Held
<1> QED BY <1>1, <1>2, <1>3, <1>4, <1>5, <1>6 DEF Next

LEMMA FlowInvariance == Spec => []Flow
BY InitFlow, NextFlow, Invariance, PTL DEF Spec

\* No accepted job is lost, duplicated or given to another user's queue.
THEOREM JobsConserved == Spec => []NoJobLost
<1>1. IInv /\ Flow => NoJobLost
  <2> SUFFICES ASSUME Shape, Flow PROVE NoJobLost
    BY DEF IInv
  <2>1. ASSUME NEW u \in DOMAIN queues, NEW i \in DOMAIN queues[u].jobs,
               NEW k \in DOMAIN queues[u].jobs
        PROVE  i = k /\ JobUser[queues[u].jobs[i]] = u
    <3>1. PICK j \in Jobs : queues[u].jobs = <<j>> /\ JobUser[j] = u
      BY <2>1 DEF Shape, OneTurn, NoTurn
    <3> QED BY <2>1, <3>1
  <2> QED BY <2>1 DEF Flow, NoJobLost, Distinct
<1> QED BY <1>1, Invariance, FlowInvariance, PTL

-----------------------------------------------------------------------------
(* Refinement of FifoService.                                              *)

\* The pipeline, by where run is.
LEMMA PipelineShape ==
  IInv =>
    /\ Pipeline \in Seq(Jobs)
    /\ pc \in {"acquire", "enqueue"} => Pipeline = <<hand>> \o jobQueue
    /\ pc \in {"receive", "poll"} => Pipeline = jobQueue
    /\ (pc = "dispatch" /\ ready = <<>>) => Pipeline = jobQueue
    /\ \A u \in DOMAIN queues :
         ready = <<u>> => Pipeline = queues[u].jobs \o jobQueue
<1> SUFFICES ASSUME TypeOK, Shape
    PROVE
    /\ Pipeline \in Seq(Jobs)
    /\ pc \in {"acquire", "enqueue"} => Pipeline = <<hand>> \o jobQueue
    /\ pc \in {"receive", "poll"} => Pipeline = jobQueue
    /\ (pc = "dispatch" /\ ready = <<>>) => Pipeline = jobQueue
    /\ \A u \in DOMAIN queues :
         ready = <<u>> => Pipeline = queues[u].jobs \o jobQueue
  BY DEF IInv
<1>0. jobQueue \in Seq(Jobs) /\ <<>> \in Seq(Jobs)
  BY DEF TypeOK
<1>1. \A s \in Seq(Jobs) : s \o <<>> = s /\ <<>> \o s = s
  BY ConcatEmptySeq
<1>2. CASE pc \in {"acquire", "enqueue"}
  <2>1. hand \in Jobs /\ HandSeq = <<hand>> /\ QueuedSeq = <<>> /\ ready = <<>>
    BY <1>2, DispatcherAssumption DEF TypeOK, Shape, HandSeq, QueuedSeq
  <2>2. <<hand>> \in Seq(Jobs)
    BY <2>1
  <2>3. Pipeline = <<hand>> \o jobQueue
    BY <1>1, <2>1, <2>2 DEF Pipeline
  <2>4. Pipeline \in Seq(Jobs)
    BY <1>0, <2>2, <2>3, ConcatProperties
  <2>5. \A u : ready # <<u>>
    BY <2>1
  <2> QED BY <1>2, <2>3, <2>4, <2>5
<1>3. CASE pc \notin {"acquire", "enqueue"} /\ ready = <<>>
  <2>1. HandSeq = <<>> /\ QueuedSeq = <<>>
    BY <1>3 DEF TypeOK, HandSeq, QueuedSeq
  <2>2. Pipeline = jobQueue
    BY <1>0, <1>1, <2>1 DEF Pipeline
  <2>3. \A u : ready # <<u>>
    BY <1>3
  <2> QED BY <1>0, <1>3, <2>2, <2>3
<1>4. CASE ready # <<>>
  <2>1. PICK u \in DOMAIN queues : ready = <<u>> /\ pc = "dispatch"
    BY <1>4 DEF Shape
  <2>2. queues[u].jobs \in Seq(Jobs)
    BY <2>1 DEF TypeOK, UserQueue
  <2>3. HandSeq = <<>> /\ QueuedSeq = queues[u].jobs
    BY <2>1 DEF TypeOK, HandSeq, QueuedSeq
  <2>4. Pipeline = queues[u].jobs \o jobQueue
    BY <1>0, <1>1, <2>2, <2>3 DEF Pipeline
  <2>5. Pipeline \in Seq(Jobs)
    BY <1>0, <2>2, <2>4, ConcatProperties
  <2>6. \A v \in DOMAIN queues : ready = <<v>> => v = u
    BY <2>1
  <2> QED BY <1>4, <2>1, <2>4, <2>5, <2>6
<1> QED BY <1>2, <1>3, <1>4 DEF TypeOK

\* The same of the state after a step.
LEMMA PipelineShapeNext ==
  (IInv =>
    /\ Pipeline \in Seq(Jobs)
    /\ pc \in {"acquire", "enqueue"} => Pipeline = <<hand>> \o jobQueue
    /\ pc \in {"receive", "poll"} => Pipeline = jobQueue
    /\ (pc = "dispatch" /\ ready = <<>>) => Pipeline = jobQueue
    /\ \A u \in DOMAIN queues :
         ready = <<u>> => Pipeline = queues[u].jobs \o jobQueue)'
BY PipelineShape, PTL

LEMMA OneMore ==
  ASSUME NEW j \in Jobs, NEW s \in Seq(Jobs)
  PROVE  <<j>> \o s # <<>> /\ Head(<<j>> \o s) = j /\ Tail(<<j>> \o s) = s
<1>1. <<j>> \in Seq(Jobs) /\ <<j>> \o s \in Seq(Jobs)
  BY ConcatProperties
<1>2. /\ Len(<<j>> \o s) = Len(s) + 1
      /\ \A i \in 1..(Len(s) + 1) :
           (<<j>> \o s)[i] = IF i <= 1 THEN j ELSE s[i - 1]
  BY <1>1, ConcatProperties
<1>3. Tail(<<j>> \o s) \in Seq(Jobs) /\ Len(Tail(<<j>> \o s)) = Len(s)
  BY <1>1, <1>2
<1>4. \A i \in 1..Len(s) : Tail(<<j>> \o s)[i] = s[i]
  BY <1>1, <1>2
<1>5. Tail(<<j>> \o s) = s
  BY <1>3, <1>4, SeqEqual
<1> QED BY <1>1, <1>2, <1>5

\* Steps of one caller.
LEMMA CallerRefines ==
  ASSUME IInv, NEW j \in Jobs,
         Call(j) \/ Send(j) \/ EnqueueTimeout(j) \/ Answer(j)
  PROVE  Fifo!FifoNext
<1>1. UNCHANGED <<cancelled, queues, ready, hand>>
  BY DEF Call, Send, EnqueueTimeout, Answer, queueVars
<1>2. HandSeq' = HandSeq /\ QueuedSeq' = QueuedSeq
  BY <1>1 DEF HandSeq, QueuedSeq
<1>3. CASE Call(j) \/ EnqueueTimeout(j) \/ Answer(j)
  <2>1. Pipeline' = Pipeline
    BY <1>2, <1>3 DEF Pipeline, Call, EnqueueTimeout, Answer
  <2>2. Fifo!Enter(j) \/ Fifo!Refuse(j) \/ Fifo!Finish(j)
    BY <1>1, <1>3, <2>1 DEF Call, EnqueueTimeout, Answer, Fifo!Enter, Fifo!Refuse,
                            Fifo!Finish, Fifo!SetStatus
  <2> QED BY <2>2 DEF Fifo!FifoNext
<1>4. CASE Send(j)
  <2>1. HandSeq \in Seq(Jobs) /\ QueuedSeq \in Seq(Jobs) /\ jobQueue \in Seq(Jobs)
    <3>1. HandSeq \in Seq(Jobs) /\ jobQueue \in Seq(Jobs)
      BY DEF HandSeq, IInv, TypeOK
    <3>2. CASE ready = <<>>
      BY <3>1, <3>2 DEF QueuedSeq
    <3>3. CASE ready # <<>>
      <4>1. PICK u \in DOMAIN queues : ready = <<u>>
        BY <3>3 DEF IInv, Shape
      <4>2. Head(ready) = u /\ queues[u].jobs \in Seq(Jobs)
        BY <4>1 DEF IInv, TypeOK, UserQueue
      <4> QED BY <3>1, <3>3, <4>2 DEF QueuedSeq
    <3> QED BY <3>1, <3>2, <3>3
  <2> DEFINE s == HandSeq \o QueuedSeq
  <2>2. s \in Seq(Jobs)
    BY <2>1, ConcatProperties
  <2>3. <<j>> \in Seq(Jobs) /\ s \o jobQueue \in Seq(Jobs)
    BY <2>1, <2>2, ConcatProperties
  <2>4. s \o Append(jobQueue, j) = Append(s \o jobQueue, j)
    <3>1. Append(jobQueue, j) = jobQueue \o <<j>>
      BY <2>1, AppendIsConcat
    <3>2. Append(s \o jobQueue, j) = (s \o jobQueue) \o <<j>>
      BY <2>3, AppendIsConcat
    <3> HIDE DEF s
    <3>3. (s \o jobQueue) \o <<j>> = s \o (jobQueue \o <<j>>)
      BY <2>1, <2>2, <2>3, ConcatAssociative
    <3> QED BY <3>1, <3>2, <3>3
  <2>5. Pipeline' = Append(Pipeline, j)
    BY <1>2, <1>4, <2>4 DEF Pipeline, Send
  <2>6. Fifo!Accept(j)
    BY <1>1, <1>4, <2>5 DEF Send, Fifo!Accept, Fifo!SetStatus
  <2> QED BY <2>6 DEF Fifo!FifoNext
<1> QED BY <1>3, <1>4

\* Steps of run that move jobs along the pipeline without changing it.
LEMMA RunStutters ==
  ASSUME IInv, IInv', DispatchOne \/ Receive \/ Poll \/ EnqueueJob
  PROVE  UNCHANGED Fifo!fifoVars
<1>p. /\ pc' \in {"acquire", "enqueue"} => Pipeline' = <<hand'>> \o jobQueue'
      /\ pc' \in {"receive", "poll"} => Pipeline' = jobQueue'
      /\ (pc' = "dispatch" /\ ready' = <<>>) => Pipeline' = jobQueue'
      /\ \A u \in DOMAIN queues' :
           ready' = <<u>> => Pipeline' = queues'[u].jobs \o jobQueue'
  BY PipelineShapeNext
<1>q. /\ pc \in {"acquire", "enqueue"} => Pipeline = <<hand>> \o jobQueue
      /\ pc \in {"receive", "poll"} => Pipeline = jobQueue
      /\ (pc = "dispatch" /\ ready = <<>>) => Pipeline = jobQueue
      /\ \A u \in DOMAIN queues :
           ready = <<u>> => Pipeline = queues[u].jobs \o jobQueue
  BY PipelineShape
<1>s. UNCHANGED <<status, cancelled>>
  BY DEF DispatchOne, Receive, Poll, EnqueueJob, callerVars
<1>1. CASE DispatchOne
  <2>1. CASE ready = <<>>
    <3>1. pc = "dispatch" /\ pc' = "receive" /\ jobQueue' = jobQueue
      BY <1>1, <2>1 DEF DispatchOne
    <3> QED BY <1>p, <1>q, <1>s, <2>1, <3>1 DEF Fifo!fifoVars
  <2>2. CASE ready # <<>>
    <3>1. PICK u \in DOMAIN queues : ready = <<u>>
      BY <2>2 DEF IInv, Shape
    <3>2. PICK j \in Jobs : queues[u].jobs = <<j>>
      BY <3>1 DEF IInv, Shape, OneTurn
    <3>3. hand' = j /\ pc' = "acquire" /\ jobQueue' = jobQueue
      BY <1>1, <3>1, <3>2 DEF DispatchOne
    <3>4. Pipeline = <<j>> \o jobQueue
      BY <1>q, <3>1, <3>2
    <3>5. Pipeline' = <<j>> \o jobQueue
      BY <1>p, <3>3
    <3> QED BY <1>s, <3>4, <3>5 DEF Fifo!fifoVars
  <2> QED BY <1>s, <2>1, <2>2 DEF Fifo!fifoVars
<1>2. CASE Receive \/ Poll
  <2>1. Pipeline = jobQueue
    <3>1. pc \in {"receive", "poll"}
      BY <1>2 DEF Receive, Poll
    <3> QED BY <1>q, <3>1
  <2>2. CASE TakeFromJobQueue
    <3>1. jobQueue \in Seq(Jobs) /\ jobQueue # <<>>
      BY <2>2 DEF TakeFromJobQueue, IInv, TypeOK
    <3>2. <<Head(jobQueue)>> \o Tail(jobQueue) = jobQueue
      <4> DEFINE h == Head(jobQueue)
                 t == Tail(jobQueue)
      <4>1. h \in Jobs /\ t \in Seq(Jobs) /\ <<h>> \in Seq(Jobs)
        BY <3>1
      <4>2. /\ <<h>> \o t \in Seq(Jobs)
            /\ Len(<<h>> \o t) = 1 + Len(t)
            /\ \A i \in 1..(1 + Len(t)) :
                 (<<h>> \o t)[i] = IF i <= 1 THEN h ELSE t[i - 1]
        BY <4>1, ConcatProperties
      <4>3. /\ Len(jobQueue) = 1 + Len(t)
            /\ \A i \in 1..Len(jobQueue) :
                 jobQueue[i] = IF i <= 1 THEN h ELSE t[i - 1]
        BY <3>1
      <4> HIDE DEF h, t
      <4> QED BY <3>1, <4>2, <4>3, SeqEqual
    <3>3. Pipeline' = jobQueue
      BY <1>p, <2>2, <3>2 DEF TakeFromJobQueue
    <3> QED BY <1>s, <2>1, <3>3 DEF Fifo!fifoVars
  <2>3. CASE ~TakeFromJobQueue
    <3>1. pc' = "dispatch" /\ jobQueue' = jobQueue /\ ready' = ready /\ ready = <<>>
      BY <1>2, <2>3 DEF Receive, Poll, queueVars, IInv, Shape
    <3> QED BY <1>p, <1>s, <2>1, <3>1 DEF Fifo!fifoVars
  <2> QED BY <2>2, <2>3
<1>3. CASE EnqueueJob
  <2>1. Pipeline = <<hand>> \o jobQueue /\ jobQueue' = jobQueue
    BY <1>3, <1>q DEF EnqueueJob
  <2>2. hand \in Jobs /\ ready = <<>>
    BY <1>3 DEF EnqueueJob, IInv, TypeOK, Shape
  <2>3. PICK u \in Users : u = JobUser[hand]
    BY <2>2, DispatcherAssumption
  <2>4. QueueOf(u).jobs = <<>> /\ ~QueueOf(u).enqueued
    BY <2>2 DEF QueueOf, IInv, Shape, NoTurn
  <2>5. /\ u \in DOMAIN queues' /\ queues'[u].jobs = Append(<<>>, hand)
        /\ ready' = Append(<<>>, u)
    BY <1>3, <2>2, <2>3, <2>4 DEF EnqueueJob
  <2>6. queues'[u].jobs = <<hand>> /\ ready' = <<u>>
    BY <2>5
  <2> QED BY <1>p, <1>s, <2>1, <2>5, <2>6 DEF Fifo!fifoVars
<1> QED BY <1>1, <1>2, <1>3

\* A worker gets the job at the front of the line.
LEMMA HandoffStarts == ASSUME IInv, IInv', Flow, Handoff PROVE Fifo!Start
<1>1. hand \in Jobs /\ jobQueue \in Seq(Jobs) /\ Pipeline = <<hand>> \o jobQueue
  BY PipelineShape DEF Handoff, IInv, TypeOK
<1>2. Pipeline' = jobQueue
  <2>1. pc' = "poll" /\ jobQueue' = jobQueue
    BY DEF Handoff
  <2>2. pc' \in {"receive", "poll"} => Pipeline' = jobQueue'
    BY PipelineShapeNext
  <2> QED BY <2>1, <2>2
<1>3. Pipeline # <<>> /\ Head(Pipeline) = hand /\ Tail(Pipeline) = jobQueue
  BY <1>1, OneMore
<1>4. status[hand] = "waiting"
  BY <1>1, DispatcherAssumption DEF Flow, Held, Waiting
<1>5. /\ Cardinality({j \in Jobs : status[j] = "running"}) < MaxWorkers
      /\ status' = [status EXCEPT ![hand] = "running"]
      /\ UNCHANGED cancelled
  BY Zenon DEF Handoff, Running
<1>6. Fifo!SetStatus(Head(Pipeline), "waiting", "running")
  BY <1>3, <1>4, <1>5 DEF Fifo!SetStatus
<1>7. Fifo!Cardinality({j \in Jobs : status[j] = "running"}) < MaxWorkers
  BY <1>5 DEF Cardinality, Fifo!Cardinality
<1> QED BY <1>2, <1>3, <1>5, <1>6, <1>7, Zenon DEF Fifo!Start

\* A cancellation drops the front job, or nothing.
LEMMA CancelDrops ==
  ASSUME IInv, IInv', NEW u \in Users, CancelUser(u)
  PROVE  Fifo!Drop(u) \/ UNCHANGED Fifo!fifoVars
<1>1. UNCHANGED <<status, jobQueue, pc, hand>>
  BY DEF CancelUser
<1>2. CASE u \in positions
  <2>1. ready = <<u>> /\ u \in DOMAIN queues /\ pc = "dispatch"
    BY <1>2 DEF IInv, Shape
  <2>2. PICK j \in Jobs : queues[u].jobs = <<j>> /\ JobUser[j] = u
    BY <2>1 DEF IInv, Shape, OneTurn
  <2>3. Pipeline = <<j>> \o jobQueue /\ jobQueue \in Seq(Jobs)
    BY <2>1, <2>2, PipelineShape DEF IInv, TypeOK
  <2>4. ready' = <<>>
    BY <1>2, <2>1, RemoveOnly DEF CancelUser, Without
  <2>5. Pipeline' = jobQueue
    BY <1>1, <2>1, <2>4, PipelineShapeNext
  <2>6. Pipeline # <<>> /\ Head(Pipeline) = j /\ Tail(Pipeline) = jobQueue
    BY <2>3, OneMore
  <2>7. cancelled' = cancelled \cup {j}
    BY <2>1, <2>2 DEF CancelUser, QueueOf, ToSet
  <2> QED BY <1>1, <2>2, <2>5, <2>6, <2>7 DEF Fifo!Drop
<1>3. CASE u \notin positions
  <2>1. ready' = ready
    BY <1>3 DEF CancelUser
  <2>2. u \in DOMAIN queues => ready # <<u>>
    BY <1>3 DEF IInv, Shape
  <2>3. QueueOf(u).jobs = <<>>
    BY <2>2 DEF QueueOf, IInv, Shape, NoTurn
  <2>4. cancelled' = cancelled
    BY <2>3, EmptyFacts DEF CancelUser
  <2>5. ready # <<>> => Head(ready) # u /\ Head(ready) \in DOMAIN queues
    BY <2>2 DEF IInv, Shape
  <2>6. QueuedSeq' = QueuedSeq
    BY <2>1, <2>5 DEF QueuedSeq, CancelUser
  <2>7. Pipeline' = Pipeline
    BY <1>1, <2>6 DEF Pipeline, HandSeq
  <2> QED BY <1>1, <2>4, <2>7 DEF Fifo!fifoVars
<1> QED BY <1>2, <1>3

\* The dispatcher, whatever its users, jobs, queue size and workers, starts
\* jobs exactly in the order in which JobQueue accepted them.
THEOREM DispatcherIsFifo == Spec => ImplementsFifo
<1>1. Init => Fifo!FifoInit
  BY ConcatEmptySeq, EmptySeq
     DEF Init, Fifo!FifoInit, Pipeline, HandSeq, QueuedSeq
<1>2. IInv /\ IInv' /\ Flow /\ [Next]_vars => [Fifo!FifoNext]_(Fifo!fifoVars)
  <2> SUFFICES ASSUME IInv, IInv', Flow, [Next]_vars
               PROVE  Fifo!FifoNext \/ UNCHANGED Fifo!fifoVars
    OBVIOUS
  <2>1. CASE \E j \in Jobs : Call(j) \/ Send(j) \/ EnqueueTimeout(j) \/ Answer(j)
    BY <2>1, CallerRefines
  <2>2. CASE DispatchOne \/ Receive \/ Poll \/ EnqueueJob
    BY <2>2, RunStutters
  <2>3. CASE Handoff
    BY <2>3, HandoffStarts DEF Fifo!FifoNext
  <2>4. CASE \E u \in Users : CancelUser(u)
    BY <2>4, CancelDrops DEF Fifo!FifoNext
  <2>5. CASE UNCHANGED vars
    BY <2>5 DEF vars, Fifo!fifoVars, Pipeline, HandSeq, QueuedSeq
  <2> QED BY <2>1, <2>2, <2>3, <2>4, <2>5 DEF Next
<1> QED
  BY <1>1, <1>2, Invariance, FlowInvariance, PTL
     DEF Spec, ImplementsFifo, Fifo!FifoSafety

=============================================================================
