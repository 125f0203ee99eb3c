----------------------------- MODULE WorkerPool -----------------------------
(***************************************************************************)
(* The elastic worker pool of src/backend/internal/worker/pool.go and the  *)
(* workers of worker.go: the run goroutine of the dispatcher acquires a    *)
(* worker and sends it a job on its unbuffered channel, workers mark       *)
(* themselves idle, and the goroutine purgeStaleWorkers (the janitor)      *)
(* lowers the retention boundary and stops expired workers.                *)
(*                                                                         *)
(* p.mu is held within one action, except where tryBoostBoundary runs under *)
(* it: the atomics minDynamic and minBoostUntil are read and written by the *)
(* janitor without the lock, so each access to them is an action.  Time is *)
(* abstracted: a tick finds any prefix of the idle list expired, and the   *)
(* boost deadline elapsed or not.                                          *)
(***************************************************************************)
EXTENDS Integers, FiniteSets, Sequences, SequencesExt, Sublists

CONSTANTS
  Workers,     \* worker channels; one is reused only after its worker is gone
  MinWorkers,  \* p.minBase
  MaxWorkers,  \* p.max
  NoWorker     \* the dispatcher holds no worker channel

MinDecaySlack == 1

ASSUME PoolAssumption ==
  /\ IsFiniteSet(Workers)
  /\ MinWorkers \in Nat \ {0}
  /\ MaxWorkers \in Nat
  /\ MinWorkers <= MaxWorkers
  /\ Cardinality(Workers) >= MaxWorkers
  /\ NoWorker \notin Workers

VARIABLES
  wpc,         \* where each worker goroutine is
  metadata,    \* the keys of p.metadata
  enqueued,    \* the workers whose meta has enqueued set
  discarded,   \* the workers whose meta has discarded set
  idle,        \* p.idle
  running,     \* p.running
  minDynamic,  \* p.minDynamic
  boosted,     \* p.minBoostUntil is not zero
  dpc,         \* where the dispatcher is in acquire
  dch,         \* the worker channel acquire returned
  jpc,         \* where the janitor is
  expired,     \* idle workers last used an expiry before the tick
  snap,        \* the janitor's local running, boundary or target
  stale        \* the janitor's local stale

poolVars == <<metadata, enqueued, discarded, idle, running>>
boostVars == <<minDynamic, boosted>>
dVars == <<dpc, dch>>
jVars == <<jpc, snap, stale>>
vars == <<wpc, metadata, enqueued, discarded, idle, running, minDynamic, boosted,
          dpc, dch, jpc, expired, snap, stale>>

WorkerPc == {"none",       \* no such worker
             "top",        \* about to call MarkIdle
             "signal",     \* enlisted; about to signal p.cond
             "recv",       \* blocked on its job channel
             "busy",       \* in handleInit or handleStream
             "stopping",   \* received Stop; about to call retire
             "broadcast"}  \* retired; about to broadcast on p.cond

DispatcherPc == {"idle",     \* not in acquire
                 "acquire",  \* at the head of the loop of acquire
                 "boost",    \* spawned; in tryBoostBoundary, holding p.mu
                 "arm",      \* swapped minDynamic; holding p.mu
                 "wait",     \* in p.cond.Wait
                 "send"}     \* blocked sending the job to worker dch

JanitorPc == {"sleep", "running", "compare", "swap", "clock", "boundary",
              "shutdown", "stop"}

MuFree == dpc \notin {"boost", "arm"}

Larger(a, b) == IF a >= b THEN a ELSE b
Smaller(a, b) == IF a <= b THEN a ELSE b

\* After NewDispatcher: spawnWorker has run MinWorkers times.
Init ==
  /\ \E warm \in SUBSET Workers :
       /\ Cardinality(warm) = MinWorkers
       /\ metadata = warm
       /\ wpc = [w \in Workers |-> IF w \in warm THEN "top" ELSE "none"]
  /\ enqueued = {}
  /\ discarded = {}
  /\ idle = <<>>
  /\ running = MinWorkers
  /\ minDynamic = MinWorkers
  /\ boosted = FALSE
  /\ dpc = "idle"
  /\ dch = NoWorker
  /\ jpc = "sleep"
  /\ expired = {}
  /\ snap = 0
  /\ stale = <<>>

-----------------------------------------------------------------------------
(* The dispatcher's goroutine.                                             *)

\* dispatchOne has a job and calls acquire.
Take ==
  /\ dpc = "idle"
  /\ dpc' = "acquire"
  /\ UNCHANGED <<wpc, poolVars, boostVars, dch, jVars, expired>>

\* popIdleLocked skips discarded workers: the positions it may return.
Live == {i \in DOMAIN idle : idle[i] \notin discarded}

\* Mutant: the worker stays at the front of the idle list.
AcquireIdleKeeps ==
  /\ dpc = "acquire"
  /\ \E i \in Live :
       /\ \A k \in Live : i <= k
       /\ dch' = idle[i]
       /\ idle' = SubSeq(idle, i, Len(idle))
       /\ enqueued' = enqueued \ {idle[i]}
  /\ dpc' = "send"
  /\ UNCHANGED <<wpc, metadata, discarded, running, boostVars, jVars, expired>>

\* Mutant: the worker stays marked as enqueued.
AcquireIdleKeepsFlag ==
  /\ dpc = "acquire"
  /\ \E i \in Live :
       /\ \A k \in Live : i <= k
       /\ dch' = idle[i]
       /\ idle' = SubSeq(idle, i + 1, Len(idle))
  /\ dpc' = "send"
  /\ UNCHANGED <<wpc, metadata, enqueued, discarded, running, boostVars, jVars, expired>>

\* acquire returns the first idle worker.
AcquireIdle ==
  /\ dpc = "acquire"
  /\ \E i \in Live :
       /\ \A k \in Live : i <= k
       /\ dch' = idle[i]
       /\ idle' = SubSeq(idle, i + 1, Len(idle))
       /\ enqueued' = enqueued \ {idle[i]}
  /\ dpc' = "send"
  /\ UNCHANGED <<wpc, metadata, discarded, running, boostVars, jVars, expired>>

\* acquire finds none idle and starts a worker; p.mu stays locked.
AcquireSpawn ==
  /\ dpc = "acquire"
  /\ Live = {}
  /\ running < MaxWorkers
  /\ \E w \in Workers :
       /\ wpc[w] = "none"
       /\ wpc' = [wpc EXCEPT ![w] = "top"]
       /\ metadata' = metadata \cup {w}
       /\ enqueued' = enqueued \ {w}
       /\ discarded' = discarded \ {w}
  /\ idle' = <<>>
  /\ running' = running + 1
  /\ dpc' = "boost"
  /\ UNCHANGED <<boostVars, dch, jVars, expired>>

\* Mutant: the boundary is raised past the workers there are.
BoostAhead ==
  /\ dpc = "boost"
  /\ IF running <= minDynamic
     THEN dpc' = "acquire" /\ UNCHANGED minDynamic
     ELSE dpc' = "arm" /\ minDynamic' = running + 1
  /\ UNCHANGED <<wpc, poolVars, boosted, dch, jVars, expired>>

\* tryBoostBoundary: compare and swap minDynamic up to running ...
Boost ==
  /\ dpc = "boost"
  /\ IF running <= minDynamic
     THEN dpc' = "acquire" /\ UNCHANGED minDynamic
     ELSE dpc' = "arm" /\ minDynamic' = running
  /\ UNCHANGED <<wpc, poolVars, boosted, dch, jVars, expired>>

\* Mutant: the retention clock is not started.
ArmForgets ==
  /\ dpc = "arm"
  /\ dpc' = "acquire"
  /\ UNCHANGED <<wpc, poolVars, boostVars, dch, jVars, expired>>

\* ... and then restart the retention clock; acquire unlocks and loops.
Arm ==
  /\ dpc = "arm"
  /\ boosted' = TRUE
  /\ dpc' = "acquire"
  /\ UNCHANGED <<wpc, poolVars, minDynamic, dch, jVars, expired>>

\* None idle and running at the maximum: wait for p.cond.
AcquireWait ==
  /\ dpc = "acquire"
  /\ Live = {}
  /\ running >= MaxWorkers
  /\ idle' = <<>>
  /\ dpc' = "wait"
  /\ UNCHANGED <<wpc, metadata, enqueued, discarded, running, boostVars, dch,
                 jVars, expired>>

\* workerChan <- job, when the worker receives.
SendJob ==
  /\ dpc = "send"
  /\ wpc[dch] = "recv"
  /\ wpc' = [wpc EXCEPT ![dch] = "busy"]
  /\ dpc' = "idle"
  /\ dch' = NoWorker
  /\ UNCHANGED <<poolVars, boostVars, jVars, expired>>

-----------------------------------------------------------------------------
(* The workers.                                                            *)

\* MarkIdle under p.mu; its first test sends a worker the pool does not know,
\* has discarded or has already enlisted straight to its channel.
MarkIdle(w) ==
  /\ wpc[w] = "top"
  /\ MuFree
  /\ IF w \notin metadata \/ w \in discarded \/ w \in enqueued
     THEN /\ wpc' = [wpc EXCEPT ![w] = "recv"]
          /\ UNCHANGED <<enqueued, idle, expired>>
     ELSE /\ wpc' = [wpc EXCEPT ![w] = "signal"]
          /\ enqueued' = enqueued \cup {w}
          /\ idle' = Append(idle, w)
          /\ expired' = expired \ {w}
  /\ UNCHANGED <<metadata, discarded, running, boostVars, dVars, jVars>>

\* Only the dispatcher ever waits on p.cond.
Wake == IF dpc = "wait" THEN "acquire" ELSE dpc

\* Mutant: nobody is signalled.
SignalForgets(w) ==
  /\ wpc[w] = "signal"
  /\ wpc' = [wpc EXCEPT ![w] = "recv"]
  /\ UNCHANGED <<poolVars, boostVars, dVars, jVars, expired>>

\* MarkIdle after p.mu: p.cond.Signal.
Signal(w) ==
  /\ wpc[w] = "signal"
  /\ wpc' = [wpc EXCEPT ![w] = "recv"]
  /\ dpc' = Wake
  /\ UNCHANGED <<poolVars, boostVars, dch, jVars, expired>>

\* handleInit or handleStream returns.
Finish(w) ==
  /\ wpc[w] = "busy"
  /\ wpc' = [wpc EXCEPT ![w] = "top"]
  /\ UNCHANGED <<poolVars, boostVars, dVars, jVars, expired>>

\* Mutant: running is not decremented.
RetireKeepsCount(w) ==
  /\ wpc[w] = "stopping"
  /\ MuFree
  /\ wpc' = [wpc EXCEPT ![w] = "broadcast"]
  /\ metadata' = metadata \ {w}
  /\ discarded' = discarded \cup {w}
  /\ UNCHANGED <<running, enqueued, idle, boostVars, dVars, jVars, expired>>

\* retire under p.mu ...
Retire(w) ==
  /\ wpc[w] = "stopping"
  /\ MuFree
  /\ wpc' = [wpc EXCEPT ![w] = "broadcast"]
  /\ metadata' = metadata \ {w}
  /\ IF w \in metadata
     THEN /\ discarded' = discarded \cup {w}
          /\ running' = IF running > 0 THEN running - 1 ELSE running
     ELSE UNCHANGED <<discarded, running>>
  /\ UNCHANGED <<enqueued, idle, boostVars, dVars, jVars, expired>>

\* Mutant: the waiter is not told of the room.
BroadcastForgets(w) ==
  /\ wpc[w] = "broadcast"
  /\ wpc' = [wpc EXCEPT ![w] = "none"]
  /\ UNCHANGED <<poolVars, boostVars, dVars, jVars, expired>>

\* ... and p.cond.Broadcast after it; the worker goroutine returns.
Broadcast(w) ==
  /\ wpc[w] = "broadcast"
  /\ wpc' = [wpc EXCEPT ![w] = "none"]
  /\ dpc' = Wake
  /\ UNCHANGED <<poolVars, boostVars, dch, jVars, expired>>

-----------------------------------------------------------------------------
(* The janitor: purgeStaleWorkers.                                         *)

\* Ticks are an expiry apart, a minute at least (worker_idle_timeout_minutes):
\* whatever needs only the processor has been done when the next one comes.
CaughtUp ==
  /\ dpc \notin {"acquire", "boost", "arm"}
  /\ \A w \in Workers : wpc[w] \notin {"signal", "stopping", "broadcast"}

\* The tick, and decayBoundary's test of the retention clock.  The first n
\* workers of the idle list (it is in order of lastUsed) have expired.
Tick(n, elapsed) ==
  /\ jpc = "sleep"
  /\ CaughtUp
  /\ n <= Len(idle)
  /\ elapsed => boosted
  /\ expired' = ToSet(SubSeq(idle, 1, n))
  /\ jpc' = IF elapsed THEN "running" ELSE "boundary"
  /\ UNCHANGED <<wpc, poolVars, boostVars, dVars, snap, stale>>

\* decayBoundary reads running under the lock ...
ReadRunning ==
  /\ jpc = "running"
  /\ MuFree
  /\ snap' = running
  /\ jpc' = "compare"
  /\ UNCHANGED <<wpc, poolVars, boostVars, dVars, expired, stale>>

\* ... and compares it with a boundary read after unlocking: a busy pool keeps
\* its boundary and restarts the clock.
CompareLoad ==
  /\ jpc = "compare"
  /\ IF snap >= minDynamic - MinDecaySlack
     THEN jpc' = "boundary" /\ boosted' = TRUE /\ UNCHANGED snap
     ELSE /\ jpc' = "swap"
          /\ snap' = Larger(snap, MinWorkers)
          /\ UNCHANGED boosted
  /\ UNCHANGED <<wpc, poolVars, minDynamic, dVars, expired, stale>>

\* Mutant: the boundary falls to its base at once.
LowerToBase ==
  /\ jpc = "swap"
  /\ minDynamic' = MinWorkers
  /\ jpc' = "clock"
  /\ UNCHANGED <<wpc, poolVars, boosted, dVars, expired, snap, stale>>

\* The compare-and-swap loop lowers the boundary to the old running.
LowerBoundary ==
  /\ jpc = "swap"
  /\ minDynamic' = Smaller(minDynamic, snap)
  /\ jpc' = "clock"
  /\ UNCHANGED <<wpc, poolVars, boosted, dVars, expired, snap, stale>>

\* The clock stops when the boundary is back at its base.
SetClock ==
  /\ jpc = "clock"
  /\ boosted' = (snap # MinWorkers)
  /\ jpc' = "boundary"
  /\ UNCHANGED <<wpc, poolVars, minDynamic, dVars, expired, snap, stale>>

\* Mutant: the slack of the decay also applies to the shutdown.
ReadBoundarySlack ==
  /\ jpc = "boundary"
  /\ snap' = minDynamic - MinDecaySlack
  /\ jpc' = "shutdown"
  /\ UNCHANGED <<wpc, poolVars, boostVars, dVars, expired, stale>>

\* shutdownExpired reads the boundary before it locks ...
ReadBoundary ==
  /\ jpc = "boundary"
  /\ snap' = minDynamic
  /\ jpc' = "shutdown"
  /\ UNCHANGED <<wpc, poolVars, boostVars, dVars, expired, stale>>

\* ... and under the lock discards the expired workers above it, oldest first.
Shutdown ==
  /\ jpc = "shutdown"
  /\ MuFree
  /\ IF idle = <<>> \/ running <= snap
     THEN jpc' = "sleep" /\ UNCHANGED <<idle, enqueued, discarded, stale>>
     ELSE LET old == Sublist(idle, {i \in Live : idle[i] \in expired})
          IN  /\ stale' = SubSeq(old, 1, Smaller(Len(old), running - snap))
              /\ idle' = Sublist(idle, {i \in Live : idle[i] \notin ToSet(stale')})
              /\ enqueued' = enqueued \ ToSet(stale')
              /\ discarded' = discarded \cup ToSet(stale')
              /\ jpc' = "stop"
  /\ expired' = {}
  /\ snap' = 0
  /\ UNCHANGED <<wpc, metadata, running, boostVars, dVars>>

\* Mutant: the Stop job is lost.
SendStopLost ==
  /\ jpc = "stop"
  /\ stale # <<>>
  /\ stale' = Tail(stale)
  /\ UNCHANGED <<wpc, poolVars, boostVars, dVars, jpc, expired, snap>>

\* meta.ch <- Job{Type: Stop}, one stale worker after the other, without p.mu.
SendStop ==
  /\ jpc = "stop"
  /\ stale # <<>>
  /\ wpc[Head(stale)] = "recv"
  /\ wpc' = [wpc EXCEPT ![Head(stale)] = "stopping"]
  /\ stale' = Tail(stale)
  /\ UNCHANGED <<poolVars, boostVars, dVars, jpc, expired, snap>>

StopsSent ==
  /\ jpc = "stop"
  /\ stale = <<>>
  /\ jpc' = "sleep"
  /\ UNCHANGED <<wpc, poolVars, boostVars, dVars, expired, snap, stale>>

-----------------------------------------------------------------------------
AcquireStep ==
  AcquireIdle \/ AcquireSpawn \/ Boost \/ Arm \/ AcquireWait \/ SendJob

WorkerStep(w) ==
  MarkIdle(w) \/ Signal(w) \/ Finish(w) \/ Retire(w) \/ Broadcast(w)

JanitorStep ==
  \/ ReadRunning \/ CompareLoad \/ LowerBoundary \/ SetClock \/ ReadBoundary
  \/ Shutdown \/ SendStop \/ StopsSent

Next ==
  \/ Take
  \/ AcquireStep
  \/ \E w \in Workers : WorkerStep(w)
  \/ \E n \in 0..MaxWorkers, elapsed \in BOOLEAN : Tick(n, elapsed)
  \/ JanitorStep

Spec == Init /\ [][Next]_vars

\* Goroutines are scheduled, p.mu is fair and handlers end.  Jobs need not
\* come, nor ticks.
Fairness ==
  /\ WF_vars(AcquireStep)
  /\ \A w \in Workers : WF_vars(WorkerStep(w))
  /\ WF_vars(JanitorStep)

FairSpec == Spec /\ Fairness

-----------------------------------------------------------------------------
Idle     == ToSet(idle)
Stale    == ToSet(stale)
Acquired == {dch} \ {NoWorker}

\* Types; the dispatcher holds a channel exactly while it sends.
TypeOK ==
  /\ wpc \in [Workers -> WorkerPc]
  /\ metadata \subseteq Workers
  /\ enqueued \subseteq Workers
  /\ discarded \subseteq Workers
  /\ idle \in Seq(Workers)
  /\ running \in 0..MaxWorkers
  /\ minDynamic \in MinWorkers..MaxWorkers
  /\ boosted \in BOOLEAN
  /\ dpc \in DispatcherPc
  /\ IF dpc = "send" THEN dch \in Workers ELSE dch = NoWorker
  /\ jpc \in JanitorPc
  /\ expired \subseteq Workers
  /\ snap \in 0..MaxWorkers
  /\ stale \in Seq(Workers)

\* running counts the workers of metadata, and those are the goroutines that
\* live: spawn and retire never disagree, so running cannot drift and leave
\* acquire waiting for a worker that is gone, nor pass MaxWorkers.
CountsAgree ==
  /\ metadata = {w \in Workers : wpc[w] \notin {"none", "broadcast"}}
  /\ running = Cardinality(metadata)

\* A worker that blocks on its channel is known to exactly one party, which
\* will send to it: the idle list, the dispatcher or the janitor.  No send, of
\* a job or of Stop, goes to a worker that is busy or gone (that sender would
\* block for ever), no worker gets both, and none is forgotten.
OneOwner ==
  /\ \A i, k \in DOMAIN idle : idle[i] = idle[k] => i = k
  /\ \A i, k \in DOMAIN stale : stale[i] = stale[k] => i = k
  /\ Idle \cap (Acquired \cup Stale) = {}
  /\ Acquired \cap Stale = {}
  /\ Idle \cup Acquired \cup Stale = {w \in Workers : wpc[w] \in {"signal", "recv"}}

\* The flags of the metas agree with the lists: enqueued means in idle, and
\* discarded means on its way out.  The discarded tests of MarkIdle and
\* popIdleLocked never fire.
FlagsAgree ==
  /\ enqueued = Idle
  /\ discarded \cap metadata = Stale \cup {w \in Workers : wpc[w] = "stopping"}

\* While acquire waits on p.cond although it could go on, a goroutine is about
\* to wake it: the unlock before Signal and Broadcast loses no wake-up.
NoLostWakeup ==
  dpc = "wait" =>
    /\ idle # <<>> => \E w \in Workers : wpc[w] \in {"signal", "broadcast"}
    /\ running < MaxWorkers => \E w \in Workers : wpc[w] = "broadcast"

\* The janitor never takes the pool below its base size, although it reads the
\* boundary and running at different times and stops workers after unlocking.
BaseKept == Cardinality(metadata \ discarded) >= MinWorkers

\* A boundary above its base always has its retention clock running or about to
\* be started: the unlocked stores to minBoostUntil never strand it.
ClockRuns ==
  minDynamic > MinWorkers => boosted \/ dpc = "arm" \/ jpc = "clock"

\* And it runs for ever: a pool that has grown never returns to its base size,
\* because the janitor sees fewer workers than the boundary only if a burst
\* raises the boundary while it looks.
GrownForGood == [][running > MinWorkers => running' > MinWorkers]_vars

\* Every acquire ends with a job handed to a worker.
AcquireCompletes == dpc = "acquire" ~> dpc = "idle"

\* Every worker chosen for shutdown retires.
StopsRetire == \A w \in Workers : (w \in Stale) ~> (wpc[w] = "none")
=============================================================================
