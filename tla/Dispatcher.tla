----------------------------- MODULE Dispatcher -----------------------------
(***************************************************************************)
(* The job dispatcher of src/backend/internal/worker: callers blocked in   *)
(* Manager.InitSession or Manager.Stream put one job each on JobQueue, the *)
(* goroutine Dispatcher.run moves jobs from JobQueue to per-user queues    *)
(* and from those to the workers, and Manager.ResetUser cancels what is    *)
(* queued for a user.                                                      *)
(*                                                                         *)
(* The worker pool is abstracted to a number: acquire returns when fewer   *)
(* than MaxWorkers jobs run (module WorkerPool models how).  One job       *)
(* stands for one caller: its status is where that caller is.              *)
(***************************************************************************)
EXTENDS Naturals, FiniteSets, Sequences, SequencesExt

CONSTANTS
  Users,       \* user ids
  Jobs,        \* the Init and Stream jobs submitted in a behaviour
  JobUser,     \* Job.userID
  NoJob,       \* the run goroutine holds no job
  QueueSize,   \* capacity of JobQueue
  MaxWorkers   \* DispatcherConfig.MaxWorkers

ASSUME DispatcherAssumption ==
  /\ JobUser \in [Jobs -> Users]
  /\ NoJob \notin Jobs
  /\ QueueSize \in Nat \ {0}
  /\ MaxWorkers \in Nat \ {0}

VARIABLES
  status,     \* where the caller of each job is
  cancelled,  \* jobs that CancelUser removed from a user queue (history)
  jobQueue,   \* the buffered channel Dispatcher.JobQueue
  queues,     \* Dispatcher.queues, a map from its present keys
  ready,      \* Dispatcher.ready, the round-robin list of users
  positions,  \* the keys of Dispatcher.positions
  pc,         \* where the run goroutine is
  hand        \* the job the run goroutine holds in a local variable

callerVars == <<status, cancelled>>
queueVars  == <<queues, ready, positions>>
vars == <<status, cancelled, jobQueue, queues, ready, positions, pc, hand>>

UserQueue == [jobs : Seq(Jobs), enqueued : BOOLEAN]

Status == {"new",       \* not called yet
           "sending",   \* in Manager.enqueueJob
           "waiting",   \* accepted; blocked on the result channel
           "running",   \* a worker handles the job; still blocked
           "answered",  \* the handler sent its result
           "rejected"}  \* enqueueJob returned ErrDispatcherBusy

Running == {j \in Jobs : status[j] = "running"}

Init ==
  /\ status = [j \in Jobs |-> "new"]
  /\ cancelled = {}
  /\ jobQueue = <<>>
  /\ queues = [u \in {} |-> [jobs |-> <<>>, enqueued |-> FALSE]]
  /\ ready = <<>>
  /\ positions = {}
  /\ pc = "dispatch"
  /\ hand = NoJob

-----------------------------------------------------------------------------
(* Callers: Manager.InitSession and Manager.Stream.                        *)

\* A request handler enters enqueueJob and starts its timer.
Call(j) ==
  /\ status[j] = "new"
  /\ status' = [status EXCEPT ![j] = "sending"]
  /\ UNCHANGED <<cancelled, jobQueue, queueVars, pc, hand>>

\* Mutant: the channel is never full.
SendUnbounded(j) ==
  /\ status[j] = "sending"
  /\ jobQueue' = Append(jobQueue, j)
  /\ status' = [status EXCEPT ![j] = "waiting"]
  /\ UNCHANGED <<cancelled, queueVars, pc, hand>>

\* The channel has room: the job is accepted and the caller waits for its
\* result, with no timer and no context.
Send(j) ==
  /\ status[j] = "sending"
  /\ Len(jobQueue) < QueueSize
  /\ jobQueue' = Append(jobQueue, j)
  /\ status' = [status EXCEPT ![j] = "waiting"]
  /\ UNCHANGED <<cancelled, queueVars, pc, hand>>

\* Mutant: the timer also wins against a send that went through.
EnqueueTimeoutLate(j) ==
  /\ status[j] \in {"sending", "waiting"}
  /\ Len(jobQueue) = QueueSize
  /\ status' = [status EXCEPT ![j] = "rejected"]
  /\ UNCHANGED <<cancelled, jobQueue, queueVars, pc, hand>>

\* The channel stayed full for enqueueTimeout.
EnqueueTimeout(j) ==
  /\ status[j] = "sending"
  /\ Len(jobQueue) = QueueSize
  /\ status' = [status EXCEPT ![j] = "rejected"]
  /\ UNCHANGED <<cancelled, jobQueue, queueVars, pc, hand>>

\* handleInit or handleStream ends and sends on the buffered result channel.
Answer(j) ==
  /\ status[j] = "running"
  /\ status' = [status EXCEPT ![j] = "answered"]
  /\ UNCHANGED <<cancelled, jobQueue, queueVars, pc, hand>>

-----------------------------------------------------------------------------
(* The run goroutine.                                                      *)

Without(u) == RemoveFirst(ready, u)

\* Mutant: a user whose queue runs empty stays marked as enqueued.
DispatchOneKeepsFlag ==
  /\ pc = "dispatch"
  /\ IF ready = <<>>
     THEN pc' = "receive" /\ UNCHANGED <<queueVars, hand>>
     ELSE LET u == Head(ready)
          IN  /\ hand' = Head(queues[u].jobs)
              /\ queues' = [queues EXCEPT ![u].jobs = Tail(@)]
              /\ ready' = Tail(ready)
              /\ positions' = positions \ {u}
              /\ pc' = "acquire"
  /\ UNCHANGED <<callerVars, jobQueue>>

\* dispatchOne under d.mu: take the next job of the user at the front, or
\* go and block on JobQueue when no user is ready.
DispatchOne ==
  /\ pc = "dispatch"
  /\ IF ready = <<>>
     THEN /\ pc' = "receive"
          /\ UNCHANGED <<queueVars, hand>>
     ELSE LET u    == Head(ready)
              q    == queues[u]
              rest == Tail(q.jobs)
              last == rest = <<>>
          IN  /\ hand' = Head(q.jobs)
              /\ queues' = [queues EXCEPT ![u] =
                   [jobs |-> rest, enqueued |-> q.enqueued /\ ~last]]
              /\ ready' = IF last THEN Tail(ready) ELSE Append(Tail(ready), u)
              /\ positions' = IF last THEN positions \ {u} ELSE positions
              /\ pc' = "acquire"
  /\ UNCHANGED <<callerVars, jobQueue>>

\* dispatchOne after d.mu: acquire returned a worker, which takes the job.
Handoff ==
  /\ pc = "acquire"
  /\ Cardinality(Running) < MaxWorkers
  /\ status' = [status EXCEPT ![hand] = "running"]
  /\ hand' = NoJob
  /\ pc' = "poll"
  /\ UNCHANGED <<cancelled, jobQueue, queueVars>>

TakeFromJobQueue ==
  /\ jobQueue # <<>>
  /\ hand' = Head(jobQueue)
  /\ jobQueue' = Tail(jobQueue)
  /\ pc' = "enqueue"

\* job := <-d.JobQueue, which blocks.
Receive ==
  /\ pc = "receive"
  /\ TakeFromJobQueue
  /\ UNCHANGED <<callerVars, queueVars>>

\* The select with a default: at most one job is taken after a dispatch.
Poll ==
  /\ pc = "poll"
  /\ \/ TakeFromJobQueue
     \/ jobQueue = <<>> /\ pc' = "dispatch" /\ UNCHANGED <<jobQueue, hand>>
  /\ UNCHANGED <<callerVars, queueVars>>

\* The queue enqueueJob finds for u, or the one it creates.
QueueOf(u) ==
  IF u \in DOMAIN queues THEN queues[u] ELSE [jobs |-> <<>>, enqueued |-> FALSE]

\* Mutant: a new user is not put on the round-robin list.
EnqueueJobForgets ==
  /\ pc = "enqueue"
  /\ LET u == JobUser[hand]
     IN  queues' = [v \in DOMAIN queues \cup {u} |->
           IF v = u THEN [jobs |-> Append(QueueOf(u).jobs, hand), enqueued |-> TRUE]
                    ELSE queues[v]]
  /\ hand' = NoJob
  /\ pc' = "dispatch"
  /\ UNCHANGED <<callerVars, jobQueue, ready, positions>>

\* enqueueJob: append to the user's queue; a user not yet enqueued joins the
\* back of the round-robin list.
EnqueueJob ==
  /\ pc = "enqueue"
  /\ LET u == JobUser[hand]
         q == QueueOf(u)
     IN  /\ queues' = [v \in DOMAIN queues \cup {u} |->
              IF v = u THEN [jobs |-> Append(q.jobs, hand), enqueued |-> TRUE]
                       ELSE queues[v]]
         /\ ready' = IF q.enqueued THEN ready ELSE Append(ready, u)
         /\ positions' = IF q.enqueued THEN positions ELSE positions \cup {u}
  /\ hand' = NoJob
  /\ pc' = "dispatch"
  /\ UNCHANGED <<callerVars, jobQueue>>

-----------------------------------------------------------------------------
\* Mutant: the user stays on the round-robin list.
CancelUserKeepsReady(u) ==
  /\ cancelled' = cancelled \cup ToSet(QueueOf(u).jobs)
  /\ queues' = [v \in DOMAIN queues \ {u} |-> queues[v]]
  /\ positions' = positions \ {u}
  /\ UNCHANGED <<status, jobQueue, ready, pc, hand>>

\* CancelUser, called by ResetUser: on logout, account deletion, provider
\* token deletion and on a user-scope invalidation message.  Nobody tells the
\* callers of the dropped jobs.
CancelUser(u) ==
  /\ cancelled' = cancelled \cup ToSet(QueueOf(u).jobs)
  /\ queues' = [v \in DOMAIN queues \ {u} |-> queues[v]]
  /\ ready' = IF u \in positions THEN Without(u) ELSE ready
  /\ positions' = positions \ {u}
  /\ UNCHANGED <<status, jobQueue, pc, hand>>

DispatcherStep == DispatchOne \/ Handoff \/ Receive \/ Poll \/ EnqueueJob

Next ==
  \/ \E j \in Jobs : Call(j) \/ Send(j) \/ EnqueueTimeout(j) \/ Answer(j)
  \/ DispatchOne
  \/ Handoff
  \/ Receive
  \/ Poll
  \/ EnqueueJob
  \/ \E u \in Users : CancelUser(u)

Spec == Init /\ [][Next]_vars

\* The run goroutine is scheduled, and every handler ends (captureInput gives
\* it a context with a two-minute deadline).  Nothing obliges callers to call
\* or users to log out.
Fairness ==
  /\ WF_vars(DispatcherStep)
  /\ \A j \in Jobs : WF_vars(Answer(j)) /\ WF_vars(Send(j) \/ EnqueueTimeout(j))

FairSpec == Spec /\ Fairness

-----------------------------------------------------------------------------
Held     == {hand} \ {NoJob}
InQueues == UNION {ToSet(queues[u].jobs) : u \in DOMAIN queues}
Waiting  == {j \in Jobs : status[j] = "waiting"}

\* Types; the run goroutine holds a job exactly between taking it and putting
\* it down.
TypeOK ==
  /\ status \in [Jobs -> Status]
  /\ cancelled \subseteq Jobs
  /\ jobQueue \in Seq(Jobs)
  /\ Len(jobQueue) <= QueueSize
  /\ DOMAIN queues \subseteq Users
  /\ queues \in [DOMAIN queues -> UserQueue]
  /\ ready \in Seq(Users)
  /\ positions \subseteq Users
  /\ pc \in {"dispatch", "acquire", "receive", "enqueue", "poll"}
  /\ IF pc \in {"acquire", "enqueue"} THEN hand \in Jobs ELSE hand = NoJob

\* The list, the map of its elements, the enqueued flags and the queues say the
\* same of every user whatever CancelUser interleaves with: dispatchOne finds
\* a queue with a job for the user at the front (no nil dereference and no
\* index out of range), and no user with jobs is missing from the list.
QueuesConsistent ==
  /\ ToSet(ready) = positions
  /\ \A i, k \in DOMAIN ready : ready[i] = ready[k] => i = k
  /\ positions = {u \in DOMAIN queues : queues[u].jobs # <<>>}
  /\ positions = {u \in DOMAIN queues : queues[u].enqueued}

\* run takes one job from JobQueue per job it dispatches, so the user queues
\* hold at most one job between them, and none while run waits for a worker
\* or for JobQueue: the round-robin list never has two users to choose from.
AtMostOneQueued ==
  /\ Len(ready) <= 1
  /\ \A u \in DOMAIN queues : Len(queues[u].jobs) <= 1
  /\ pc # "dispatch" => ready = <<>>

\* Every accepted job nobody has started is in exactly one place: JobQueue, the
\* queue of its own user, the hands of run, or dropped by CancelUser.  None is
\* lost, duplicated, put in another user's queue or run after it was dropped.
NoJobLost ==
  /\ Waiting = ToSet(jobQueue) \cup InQueues \cup Held \cup cancelled
  /\ ToSet(jobQueue) \cap (InQueues \cup Held \cup cancelled) = {}
  /\ InQueues \cap (Held \cup cancelled) = {}
  /\ Held \cap cancelled = {}
  /\ \A i, k \in DOMAIN jobQueue : jobQueue[i] = jobQueue[k] => i = k
  /\ \A u \in DOMAIN queues : \A i, k \in DOMAIN queues[u].jobs :
       /\ queues[u].jobs[i] = queues[u].jobs[k] => i = k
       /\ JobUser[queues[u].jobs[i]] = u

\* Every call of enqueueJob ends, with a result or with ErrDispatcherBusy, but
\* for the calls whose job CancelUser dropped.
CallsReturn ==
  \A j \in Jobs :
    status[j] = "sending" ~> status[j] \in {"answered", "rejected"} \/ j \in cancelled

\* backend/README.md promises a client that keeps the connection open a final
\* done or error event: every accepted job is answered.
EveryAcceptedJobAnswered ==
  \A j \in Jobs : status[j] = "waiting" ~> status[j] = "answered"

-----------------------------------------------------------------------------
(* Refinement: the pipeline of the code, read from the oldest job on, is the *)
(* line of FifoService.                                                      *)

HandSeq   == IF hand = NoJob THEN <<>> ELSE <<hand>>
QueuedSeq == IF ready = <<>> THEN <<>> ELSE queues[Head(ready)].jobs

Pipeline  == HandSeq \o QueuedSeq \o jobQueue

Fifo == INSTANCE FifoService WITH pending <- Pipeline

\* For all its per-user queues and its round-robin list, the dispatcher behaves
\* as one line of the accepted jobs of all users: every step is a step of
\* FifoService or a stutter.  So the backlog of one user delays the others, which
\* README.md denies: ServedInTurn of DispatcherOrder is what it says, and fails.
ImplementsFifo == Fifo!FifoSafety

\* The same with the progress of FifoService: whoever it belongs to, the oldest
\* accepted job is the next to start.
ImplementsFairFifo == Fifo!FifoSpec
=============================================================================
