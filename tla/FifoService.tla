---------------------------- MODULE FifoService ----------------------------
(***************************************************************************)
(* What the dispatcher comes to for its callers, once its channel, user    *)
(* queues and round-robin list are taken away: one line of accepted jobs,  *)
(* started strictly in order of acceptance, at most MaxWorkers at a time.  *)
(* Cancelling a user takes at most the job at the front of the line, and   *)
(* only if it is his.  It is what the code does, not what README.md says   *)
(* it is for: see ServedInTurn in DispatcherOrder.                         *)
(***************************************************************************)
EXTENDS Naturals, FiniteSets, Sequences

CONSTANTS Users, Jobs, JobUser, MaxWorkers

VARIABLES
  status,     \* where the caller of each job is
  cancelled,  \* the jobs dropped by a cancellation
  pending     \* the accepted jobs not yet started, oldest first

fifoVars == <<status, cancelled, pending>>

SetStatus(j, from, to) ==
  /\ status[j] = from
  /\ status' = [status EXCEPT ![j] = to]

FifoInit ==
  /\ status = [j \in Jobs |-> "new"]
  /\ cancelled = {}
  /\ pending = <<>>

Enter(j)  == SetStatus(j, "new", "sending") /\ UNCHANGED <<cancelled, pending>>
Refuse(j) == SetStatus(j, "sending", "rejected") /\ UNCHANGED <<cancelled, pending>>
Finish(j) == SetStatus(j, "running", "answered") /\ UNCHANGED <<cancelled, pending>>

Accept(j) ==
  /\ SetStatus(j, "sending", "waiting")
  /\ pending' = Append(pending, j)
  /\ UNCHANGED cancelled

Start ==
  /\ pending # <<>>
  /\ Cardinality({j \in Jobs : status[j] = "running"}) < MaxWorkers
  /\ SetStatus(Head(pending), "waiting", "running")
  /\ pending' = Tail(pending)
  /\ UNCHANGED cancelled

Drop(u) ==
  /\ pending # <<>>
  /\ JobUser[Head(pending)] = u
  /\ cancelled' = cancelled \cup {Head(pending)}
  /\ pending' = Tail(pending)
  /\ UNCHANGED status

FifoNext ==
  \/ \E j \in Jobs : Enter(j) \/ Accept(j) \/ Refuse(j) \/ Finish(j)
  \/ Start
  \/ \E u \in Users : Drop(u)

\* No step but these: jobs start in the order of acceptance, whoever owns them.
FifoSafety == FifoInit /\ [][FifoNext]_fifoVars

\* And the service keeps going: a free worker gets the job at the front.
FifoSpec ==
  /\ FifoSafety
  /\ WF_fifoVars(Start)
  /\ \A j \in Jobs : WF_fifoVars(Finish(j)) /\ WF_fifoVars(Accept(j) \/ Refuse(j))
=============================================================================
