-------------------------- MODULE DispatcherOrder --------------------------
(***************************************************************************)
(* The dispatcher with two history variables, enough to say in which order *)
(* jobs were accepted, started and answered.                               *)
(***************************************************************************)
EXTENDS Dispatcher

VARIABLES
  acceptedBefore,  \* the jobs accepted before each job was
  passed           \* the jobs started while each job waited

orderVars == <<vars, acceptedBefore, passed>>

Accepted == {j \in Jobs : status[j] \in {"waiting", "running", "answered"}}

RecordAcceptance ==
  LET new == {j \in Jobs : status[j] = "sending" /\ status'[j] = "waiting"}
  IN  acceptedBefore' =
        [j \in Jobs |-> IF j \in new THEN Accepted ELSE acceptedBefore[j]]

RecordStart ==
  LET started == Running' \ Running
  IN  passed' =
        [j \in Jobs |-> IF j \in Waiting /\ j \notin started THEN passed[j] \cup started
                                                              ELSE passed[j]]

OrderInit ==
  /\ Init
  /\ acceptedBefore = [j \in Jobs |-> {}]
  /\ passed = [j \in Jobs |-> {}]

OrderNext == Next /\ RecordAcceptance /\ RecordStart

OrderSpec == OrderInit /\ [][OrderNext]_orderVars

SameUser(j, k) == JobUser[j] = JobUser[k]

\* README.md: each user has an independent queue, "ensuring response order".
\* The answer to a job comes after the answers to the earlier jobs of its user.
AnsweredInOrder ==
  \A j \in Jobs : status[j] = "answered" =>
    \A k \in acceptedBefore[j] \ cancelled : SameUser(j, k) => status[k] = "answered"

\* README.md: queues per user and round-robin scheduling, "resource isolation even
\* under high concurrency".  Users taking turns, a waiting job is passed by no more
\* jobs of another user than of its own, and two: the one chosen before it came,
\* which waits for a worker, and the one whose turn it then was.
ServedInTurn ==
  \A j \in Jobs, u \in Users :
    LET Passing(v) == Cardinality({k \in passed[j] : JobUser[k] = v})
    IN  u # JobUser[j] => Passing(u) <= Passing(JobUser[j]) + 2

\* The two promises are made in one breath (src/README.md:48).  Where both held, at
\* least one would in every state; the dispatcher has states without either.
OrderOrIsolation == AnsweredInOrder \/ ServedInTurn
=============================================================================
