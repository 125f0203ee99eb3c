-------------------------- MODULE WorkerPoolProofs --------------------------
(***************************************************************************)
(* Proofs about WorkerPool, for any number of workers, any base size and   *)
(* any maximum.                                                            *)
(***************************************************************************)
EXTENDS WorkerPool, SequenceLemmas

\* The workers that are not on their way out.
Kept == metadata \ discarded

\* From the tick to the shutdown nobody is stopping: the timing assumption
\* CaughtUp, carried along.
JanitorShape ==
  /\ jpc # "stop" => stale = <<>>
  /\ jpc \notin {"sleep", "stop"} => \A w \in Workers : wpc[w] # "stopping"
  /\ jpc \in {"swap", "clock", "shutdown"} => snap >= MinWorkers

\* p.mu is locked while tryBoostBoundary runs: nobody becomes idle.
BoostShape == dpc = "boost" => idle = <<>>

\* A pool that has not grown yet, ...
AtBase ==
  /\ running = MinWorkers
  /\ minDynamic = MinWorkers
  /\ ~boosted
  /\ dpc \notin {"boost", "arm"}
  /\ jpc \in {"sleep", "boundary", "shutdown"}
  /\ discarded \cap metadata = {}

\* ... and one that has.  A boundary read before it grew is harmless: growth
\* emptied the idle list, and who became idle since has not expired.
Grown ==
  /\ Cardinality(Kept) > MinWorkers
  /\ minDynamic > MinWorkers \/ dpc = "boost"
  /\ jpc \in {"compare", "swap", "clock"} => snap > MinWorkers
  /\ jpc = "shutdown" => snap > MinWorkers \/ expired \cap Idle = {}

IInv ==
  /\ TypeOK
  /\ CountsAgree
  /\ OneOwner
  /\ FlagsAgree
  /\ NoLostWakeup
  /\ ClockRuns
  /\ JanitorShape
  /\ BoostShape
  /\ AtBase \/ Grown

-----------------------------------------------------------------------------
LEMMA Numbers ==
  /\ MinWorkers \in Nat \ {0}
  /\ MaxWorkers \in Nat
  /\ MinWorkers <= MaxWorkers
  /\ NoWorker \notin Workers
  /\ \A S \in SUBSET Workers : IsFiniteSet(S) /\ Cardinality(S) \in Nat
BY PoolAssumption, FS_Subset, FS_CardinalityType

LEMMA InitIInv == Init => IInv
<1> SUFFICES ASSUME Init PROVE IInv
  OBVIOUS
<1> USE Numbers, EmptyFacts
<1>1. TypeOK
  <2>1. wpc \in [Workers -> WorkerPc] /\ metadata \subseteq Workers
    BY DEF Init, WorkerPc
  <2>2. idle \in Seq(Workers) /\ stale \in Seq(Workers)
    BY DEF Init
  <2>3. running \in 0..MaxWorkers /\ minDynamic \in MinWorkers..MaxWorkers /\ snap \in 0..MaxWorkers
    BY DEF Init
  <2>4. boosted \in BOOLEAN /\ dpc \in DispatcherPc /\ jpc \in JanitorPc /\ dpc # "send" /\ dch = NoWorker
    BY DEF Init, DispatcherPc, JanitorPc
  <2> QED
    BY <2>1, <2>2, <2>3, <2>4 DEF Init, TypeOK
<1>2. CountsAgree
  BY DEF Init, CountsAgree
<1>3. OneOwner /\ FlagsAgree
  BY DEF Init, OneOwner, FlagsAgree, Idle, Stale, Acquired
<1>4. NoLostWakeup /\ ClockRuns /\ JanitorShape /\ BoostShape /\ AtBase
  BY DEF Init, NoLostWakeup, ClockRuns, JanitorShape, BoostShape, AtBase
<1> QED
  BY <1>1, <1>2, <1>3, <1>4 DEF IInv

\* A step of the janitor that only computes.
LEMMA JanitorComputes ==
  ASSUME IInv, UNCHANGED <<wpc, poolVars, dVars>>, Stale' = Stale,
         \A i, k \in DOMAIN stale' : stale'[i] = stale'[k] => i = k
  PROVE  CountsAgree' /\ OneOwner' /\ FlagsAgree' /\ NoLostWakeup' /\ BoostShape' /\ Kept' = Kept
<1> USE DEF IInv, poolVars, dVars
<1>1. CountsAgree'
  BY DEF CountsAgree
<1>2. OneOwner'
  BY DEF OneOwner, Idle, Acquired
<1>3. FlagsAgree'
  BY DEF FlagsAgree, Idle
<1>4. NoLostWakeup' /\ BoostShape' /\ Kept' = Kept
  BY DEF NoLostWakeup, BoostShape, Kept
<1> QED
  BY <1>1, <1>2, <1>3, <1>4

LEMMA TickIInv ==
  ASSUME IInv, NEW n \in 0..MaxWorkers, NEW elapsed \in BOOLEAN, Tick(n, elapsed)
  PROVE  IInv' /\ (Grown => Grown')
<1> USE Numbers DEF Tick, CaughtUp
<1>1. CountsAgree' /\ OneOwner' /\ FlagsAgree' /\ NoLostWakeup' /\ BoostShape' /\ Kept' = Kept
  <2>1. UNCHANGED <<wpc, poolVars, dVars, stale>>
    BY DEF poolVars, dVars, boostVars, jVars
  <2> QED
    BY <2>1, JanitorComputes DEF IInv, OneOwner, Stale
<1>2. TypeOK'
  <2>1. ToSet(SubSeq(idle, 1, n)) \subseteq Workers
    <3>1. SubSeq(idle, 1, n) \in Seq(Workers)
      BY PrefixFacts DEF IInv, TypeOK
    <3> QED
      BY <3>1 DEF ToSet
  <2> QED
    BY <2>1 DEF IInv, TypeOK, poolVars, dVars, boostVars, JanitorPc, JanitorShape
<1>3. ClockRuns'
  BY DEF IInv, TypeOK, ClockRuns, AtBase, Grown, dVars, boostVars
<1>4. JanitorShape'
  BY DEF IInv, TypeOK, JanitorShape
<1>5. AtBase => AtBase'
  BY <1>1
     DEF IInv, TypeOK, AtBase, Grown, JanitorShape, poolVars, dVars, boostVars, Idle,
         BoostShape
<1>6. Grown => Grown'
  BY <1>1 DEF IInv, TypeOK, Grown, JanitorShape, dVars, boostVars, Idle, BoostShape
<1> QED
  BY <1>1, <1>2, <1>3, <1>4, <1>5, <1>6 DEF IInv

LEMMA ReadRunningIInv ==
  ASSUME IInv, ReadRunning
  PROVE  IInv' /\ (Grown => Grown')
<1> USE Numbers DEF ReadRunning
<1>1. CountsAgree' /\ OneOwner' /\ FlagsAgree' /\ NoLostWakeup' /\ BoostShape' /\ Kept' = Kept
  <2>1. UNCHANGED <<wpc, poolVars, dVars, stale>>
    BY DEF poolVars, dVars, boostVars, jVars
  <2> QED
    BY <2>1, JanitorComputes DEF IInv, OneOwner, Stale
<1>2. TypeOK'
  BY DEF IInv, TypeOK, poolVars, dVars, boostVars, JanitorPc, JanitorShape
<1>3. ClockRuns'
  BY DEF IInv, TypeOK, ClockRuns, AtBase, Grown, dVars, boostVars
<1>4. JanitorShape'
  BY DEF IInv, TypeOK, JanitorShape
<1>5. AtBase => AtBase'
  BY <1>1
     DEF IInv, TypeOK, AtBase, Grown, JanitorShape, poolVars, dVars, boostVars, Idle,
         BoostShape
<1>6. Grown => Grown'
  <2>1. Kept \in SUBSET metadata /\ metadata \in SUBSET Workers
    BY DEF Kept, IInv, TypeOK
  <2>2. Cardinality(Kept) <= running /\ Cardinality(Kept) \in Nat
    BY <2>1, FS_Subset DEF IInv, CountsAgree
  <2> QED
    BY <1>1, <2>2 DEF IInv, TypeOK, Grown, JanitorShape, dVars, boostVars, Idle, BoostShape
<1> QED
  BY <1>1, <1>2, <1>3, <1>4, <1>5, <1>6 DEF IInv

LEMMA CompareLoadIInv ==
  ASSUME IInv, CompareLoad
  PROVE  IInv' /\ (Grown => Grown')
<1> USE Numbers DEF CompareLoad, Larger, MinDecaySlack
<1>1. CountsAgree' /\ OneOwner' /\ FlagsAgree' /\ NoLostWakeup' /\ BoostShape' /\ Kept' = Kept
  <2>1. UNCHANGED <<wpc, poolVars, dVars, stale>>
    BY DEF poolVars, dVars, boostVars, jVars
  <2> QED
    BY <2>1, JanitorComputes DEF IInv, OneOwner, Stale
<1>2. TypeOK'
  <2>1. boosted' \in BOOLEAN /\ jpc' \in JanitorPc
    BY DEF IInv, TypeOK, JanitorPc
  <2>2. snap' \in 0..MaxWorkers
    BY DEF IInv, TypeOK
  <2> QED
    BY <2>1, <2>2 DEF IInv, TypeOK, poolVars, dVars, boostVars, JanitorPc, JanitorShape
<1>3. ClockRuns'
  BY DEF IInv, TypeOK, ClockRuns, AtBase, Grown, dVars, boostVars
<1>4. JanitorShape'
  BY DEF IInv, TypeOK, JanitorShape
<1>5. AtBase => AtBase'
  BY <1>1
     DEF IInv, TypeOK, AtBase, Grown, JanitorShape, poolVars, dVars, boostVars, Idle,
         BoostShape
<1>6. Grown => Grown'
  BY <1>1 DEF IInv, TypeOK, Grown, JanitorShape, dVars, boostVars, Idle, BoostShape
<1> QED
  BY <1>1, <1>2, <1>3, <1>4, <1>5, <1>6 DEF IInv

LEMMA LowerBoundaryIInv ==
  ASSUME IInv, LowerBoundary
  PROVE  IInv' /\ (Grown => Grown')
<1> USE Numbers DEF LowerBoundary, Smaller
<1>1. CountsAgree' /\ OneOwner' /\ FlagsAgree' /\ NoLostWakeup' /\ BoostShape' /\ Kept' = Kept
  <2>1. UNCHANGED <<wpc, poolVars, dVars, stale>>
    BY DEF poolVars, dVars, boostVars, jVars
  <2> QED
    BY <2>1, JanitorComputes DEF IInv, OneOwner, Stale
<1>2. TypeOK'
  BY DEF IInv, TypeOK, poolVars, dVars, boostVars, JanitorPc, JanitorShape
<1>3. ClockRuns'
  BY DEF IInv, TypeOK, ClockRuns, AtBase, Grown, dVars, boostVars
<1>4. JanitorShape'
  BY DEF IInv, TypeOK, JanitorShape
<1>5. AtBase => AtBase'
  BY <1>1
     DEF IInv, TypeOK, AtBase, Grown, JanitorShape, poolVars, dVars, boostVars, Idle,
         BoostShape
<1>6. Grown => Grown'
  BY <1>1 DEF IInv, TypeOK, Grown, JanitorShape, dVars, boostVars, Idle, BoostShape
<1> QED
  BY <1>1, <1>2, <1>3, <1>4, <1>5, <1>6 DEF IInv

LEMMA SetClockIInv ==
  ASSUME IInv, SetClock
  PROVE  IInv' /\ (Grown => Grown')
<1> USE Numbers DEF SetClock
<1>1. CountsAgree' /\ OneOwner' /\ FlagsAgree' /\ NoLostWakeup' /\ BoostShape' /\ Kept' = Kept
  <2>1. UNCHANGED <<wpc, poolVars, dVars, stale>>
    BY DEF poolVars, dVars, boostVars, jVars
  <2> QED
    BY <2>1, JanitorComputes DEF IInv, OneOwner, Stale
<1>2. TypeOK'
  BY DEF IInv, TypeOK, poolVars, dVars, boostVars, JanitorPc, JanitorShape
<1>3. ClockRuns'
  <2>1. snap > MinWorkers
    BY DEF IInv, AtBase, Grown
  <2>2. snap # MinWorkers
    BY <2>1
  <2>3. boosted'
    BY <2>2, Zenon
  <2> QED
    BY <2>3 DEF IInv, TypeOK, ClockRuns, AtBase, Grown, dVars, boostVars
<1>4. JanitorShape'
  BY DEF IInv, TypeOK, JanitorShape
<1>5. AtBase => AtBase'
  BY <1>1
     DEF IInv, TypeOK, AtBase, Grown, JanitorShape, poolVars, dVars, boostVars, Idle,
         BoostShape
<1>6. Grown => Grown'
  BY <1>1 DEF IInv, TypeOK, Grown, JanitorShape, dVars, boostVars, Idle, BoostShape
<1> QED
  BY <1>1, <1>2, <1>3, <1>4, <1>5, <1>6 DEF IInv

LEMMA ReadBoundaryIInv ==
  ASSUME IInv, ReadBoundary
  PROVE  IInv' /\ (Grown => Grown')
<1> USE Numbers DEF ReadBoundary
<1>1. CountsAgree' /\ OneOwner' /\ FlagsAgree' /\ NoLostWakeup' /\ BoostShape' /\ Kept' = Kept
  <2>1. UNCHANGED <<wpc, poolVars, dVars, stale>>
    BY DEF poolVars, dVars, boostVars, jVars
  <2> QED
    BY <2>1, JanitorComputes DEF IInv, OneOwner, Stale
<1>2. TypeOK'
  BY DEF IInv, TypeOK, poolVars, dVars, boostVars, JanitorPc, JanitorShape
<1>3. ClockRuns'
  BY DEF IInv, TypeOK, ClockRuns, AtBase, Grown, dVars, boostVars
<1>4. JanitorShape'
  BY DEF IInv, TypeOK, JanitorShape
<1>5. AtBase => AtBase'
  BY <1>1
     DEF IInv, TypeOK, AtBase, Grown, JanitorShape, poolVars, dVars, boostVars, Idle,
         BoostShape
<1>6. Grown => Grown'
  BY <1>1, EmptyFacts DEF IInv, TypeOK, Grown, JanitorShape, dVars, boostVars, Idle, BoostShape
<1> QED
  BY <1>1, <1>2, <1>3, <1>4, <1>5, <1>6 DEF IInv

LEMMA StopsSentIInv ==
  ASSUME IInv, StopsSent
  PROVE  IInv' /\ (Grown => Grown')
<1> USE Numbers DEF StopsSent
<1>1. CountsAgree' /\ OneOwner' /\ FlagsAgree' /\ NoLostWakeup' /\ BoostShape' /\ Kept' = Kept
  <2>1. UNCHANGED <<wpc, poolVars, dVars, stale>>
    BY DEF poolVars, dVars, boostVars, jVars
  <2> QED
    BY <2>1, JanitorComputes DEF IInv, OneOwner, Stale
<1>2. TypeOK'
  BY DEF IInv, TypeOK, poolVars, dVars, boostVars, JanitorPc, JanitorShape
<1>3. ClockRuns'
  BY DEF IInv, TypeOK, ClockRuns, AtBase, Grown, dVars, boostVars
<1>4. JanitorShape'
  BY DEF IInv, TypeOK, JanitorShape
<1>5. AtBase => AtBase'
  BY <1>1
     DEF IInv, TypeOK, AtBase, Grown, JanitorShape, poolVars, dVars, boostVars, Idle,
         BoostShape
<1>6. Grown => Grown'
  BY <1>1 DEF IInv, TypeOK, Grown, JanitorShape, dVars, boostVars, Idle, BoostShape
<1> QED
  BY <1>1, <1>2, <1>3, <1>4, <1>5, <1>6 DEF IInv

\* popIdleLocked never meets a discarded worker.
LEMMA AllLive ==
  ASSUME IInv
  PROVE  Live = DOMAIN idle
<1> SUFFICES ASSUME NEW i \in DOMAIN idle PROVE idle[i] \notin discarded
  BY DEF Live
<1>1. idle[i] \in Idle /\ idle[i] \in Workers
  BY DEF IInv, TypeOK, Idle, ToSet
<1>2. idle[i] \notin Stale /\ wpc[idle[i]] \in {"signal", "recv"}
  BY <1>1 DEF IInv, OneOwner
<1>3. idle[i] \in metadata
  BY <1>1, <1>2 DEF IInv, CountsAgree
<1> QED
  BY <1>1, <1>2, <1>3 DEF IInv, FlagsAgree

LEMMA TakeIInv ==
  ASSUME IInv, Take
  PROVE  IInv' /\ (Grown => Grown')
<1> USE Numbers DEF Take, poolVars, boostVars, dVars, jVars
<1>1. TypeOK'
  BY DEF IInv, TypeOK, WorkerPc, DispatcherPc
<1>2. CountsAgree'
  BY DEF IInv, TypeOK, CountsAgree
<1>3. OneOwner'
  BY DEF IInv, TypeOK, OneOwner, Idle, Stale, Acquired
<1>4. FlagsAgree'
  BY DEF IInv, TypeOK, FlagsAgree, OneOwner, Idle, Stale, Acquired
<1>5. NoLostWakeup' /\ BoostShape' /\ ClockRuns'
  BY DEF IInv, TypeOK, NoLostWakeup, BoostShape, ClockRuns
<1>6. JanitorShape'
  BY DEF IInv, TypeOK, JanitorShape
<1>7. AtBase => AtBase'
  BY DEF IInv, TypeOK, AtBase
<1>8. Grown => Grown'
  BY DEF IInv, TypeOK, Grown, Kept, Idle
<1> QED
  BY <1>1, <1>2, <1>3, <1>4, <1>5, <1>6, <1>7, <1>8 DEF IInv

LEMMA AcquireIdleIInv ==
  ASSUME IInv, AcquireIdle
  PROVE  IInv' /\ (Grown => Grown')
<1> USE Numbers DEF AcquireIdle, Live, poolVars, boostVars, dVars, jVars
<1>a. /\ idle # <<>>
      /\ dch' = Head(idle) /\ dch' \in Workers
      /\ idle' = Tail(idle) /\ idle' \in Seq(Workers)
      /\ enqueued' = enqueued \ {Head(idle)}
  <2>1. PICK i \in DOMAIN idle : /\ \A k \in DOMAIN idle : i <= k
                                /\ dch' = idle[i]
                                /\ idle' = SubSeq(idle, i + 1, Len(idle))
                                /\ enqueued' = enqueued \ {idle[i]}
    BY AllLive
  <2>2. idle \in Seq(Workers)
    BY DEF IInv, TypeOK
  <2>3. i = 1 /\ idle # <<>>
    BY <2>1, <2>2
  <2>4. SubSeq(idle, 2, Len(idle)) = Tail(idle) /\ Head(idle) = idle[1] /\ idle[1] \in Workers
    BY <2>2, <2>3
  <2> QED
    BY <2>1, <2>2, <2>3, <2>4
<1>b. /\ Idle = {Head(idle)} \cup Idle'
      /\ Head(idle) \notin Idle'
      /\ \A i, k \in DOMAIN idle' : idle'[i] = idle'[k] => i = k
  <2>1. idle \in Seq(Workers) /\ Distinct(idle)
    BY DEF IInv, TypeOK, OneOwner, Distinct
  <2>2. ToSet(idle) = {Head(idle)} \cup ToSet(Tail(idle))
    BY <1>a, <2>1, ToSetTail
  <2>3. Distinct(Tail(idle)) /\ Head(idle) \notin ToSet(Tail(idle))
    BY <1>a, <2>1, DistinctTail
  <2> QED
    BY <1>a, <2>2, <2>3 DEF Idle, Distinct
<1>1. TypeOK'
  BY <1>a DEF IInv, TypeOK, WorkerPc, DispatcherPc
<1>2. CountsAgree'
  BY DEF IInv, TypeOK, CountsAgree
<1>3. OneOwner'
  <2>1. Acquired = {} /\ Acquired' = {Head(idle)} /\ Stale' = Stale
    BY <1>a DEF IInv, TypeOK, Acquired, Stale
  <2> QED
    BY <1>b, <2>1 DEF IInv, OneOwner, Stale
<1>4. FlagsAgree'
  <2>1. Stale' = Stale
    BY DEF Stale
  <2> QED
    BY <1>a, <1>b, <2>1 DEF IInv, FlagsAgree
<1>5. NoLostWakeup' /\ BoostShape' /\ ClockRuns'
  BY DEF IInv, TypeOK, NoLostWakeup, BoostShape, ClockRuns
<1>6. JanitorShape'
  BY DEF IInv, TypeOK, JanitorShape
<1>7. AtBase => AtBase'
  BY DEF IInv, TypeOK, AtBase
<1>8. Grown => Grown'
  BY <1>b DEF IInv, TypeOK, Grown, Kept
<1> QED
  BY <1>1, <1>2, <1>3, <1>4, <1>5, <1>6, <1>7, <1>8 DEF IInv

LEMMA BoostIInv ==
  ASSUME IInv, Boost
  PROVE  IInv' /\ (Grown => Grown')
<1> USE Numbers DEF Boost, poolVars, boostVars, dVars, jVars
<1>1. TypeOK'
  BY DEF IInv, TypeOK, WorkerPc, DispatcherPc
<1>2. CountsAgree'
  BY DEF IInv, TypeOK, CountsAgree
<1>3. OneOwner'
  BY DEF IInv, TypeOK, OneOwner, Idle, Stale, Acquired
<1>4. FlagsAgree'
  BY DEF IInv, TypeOK, FlagsAgree, OneOwner, Idle, Stale, Acquired
<1>5. NoLostWakeup' /\ BoostShape' /\ ClockRuns'
  BY DEF IInv, TypeOK, NoLostWakeup, BoostShape, ClockRuns
<1>6. JanitorShape'
  BY DEF IInv, TypeOK, JanitorShape
<1>7. AtBase => AtBase'
  BY DEF IInv, TypeOK, AtBase
<1>8. Grown => Grown'
  <2>1. Kept \in SUBSET metadata /\ metadata \in SUBSET Workers
    BY DEF Kept, IInv, TypeOK
  <2>2. Cardinality(Kept) <= running /\ Cardinality(Kept) \in Nat
    BY <2>1, FS_Subset DEF IInv, CountsAgree
  <2>3. Kept' = Kept /\ Idle' = Idle
    BY DEF Kept, Idle
  <2> QED
    BY <2>2, <2>3 DEF IInv, TypeOK, Grown
<1> QED
  BY <1>1, <1>2, <1>3, <1>4, <1>5, <1>6, <1>7, <1>8 DEF IInv

LEMMA ArmIInv ==
  ASSUME IInv, Arm
  PROVE  IInv' /\ (Grown => Grown')
<1> USE Numbers DEF Arm, poolVars, boostVars, dVars, jVars
<1>1. TypeOK'
  BY DEF IInv, TypeOK, WorkerPc, DispatcherPc
<1>2. CountsAgree'
  BY DEF IInv, TypeOK, CountsAgree
<1>3. OneOwner'
  BY DEF IInv, TypeOK, OneOwner, Idle, Stale, Acquired
<1>4. FlagsAgree'
  BY DEF IInv, TypeOK, FlagsAgree, OneOwner, Idle, Stale, Acquired
<1>5. NoLostWakeup' /\ BoostShape' /\ ClockRuns'
  BY DEF IInv, TypeOK, NoLostWakeup, BoostShape, ClockRuns
<1>6. JanitorShape'
  BY DEF IInv, TypeOK, JanitorShape
<1>7. AtBase => AtBase'
  BY DEF IInv, TypeOK, AtBase
<1>8. Grown => Grown'
  BY DEF IInv, TypeOK, Grown, Kept, Idle
<1> QED
  BY <1>1, <1>2, <1>3, <1>4, <1>5, <1>6, <1>7, <1>8 DEF IInv

LEMMA AcquireWaitIInv ==
  ASSUME IInv, AcquireWait
  PROVE  IInv' /\ (Grown => Grown')
<1> USE Numbers DEF AcquireWait, Live, poolVars, boostVars, dVars, jVars
<1>a. idle = <<>>
  BY AllLive DEF IInv, TypeOK
<1>b. idle' = idle /\ Idle' = Idle /\ Stale' = Stale /\ Acquired' = Acquired
  BY <1>a DEF Idle, Stale, Acquired
<1>1. TypeOK'
  BY DEF IInv, TypeOK, WorkerPc, DispatcherPc
<1>2. CountsAgree'
  BY DEF IInv, TypeOK, CountsAgree
<1>3. OneOwner'
  BY <1>b DEF IInv, OneOwner
<1>4. FlagsAgree'
  BY <1>b DEF IInv, FlagsAgree
<1>5. NoLostWakeup' /\ BoostShape' /\ ClockRuns'
  BY DEF IInv, TypeOK, NoLostWakeup, BoostShape, ClockRuns
<1>6. JanitorShape'
  BY DEF IInv, TypeOK, JanitorShape
<1>7. AtBase => AtBase'
  BY DEF IInv, TypeOK, AtBase
<1>8. Grown => Grown'
  BY <1>b DEF IInv, TypeOK, Grown, Kept
<1> QED
  BY <1>1, <1>2, <1>3, <1>4, <1>5, <1>6, <1>7, <1>8 DEF IInv

LEMMA SendJobIInv ==
  ASSUME IInv, SendJob
  PROVE  IInv' /\ (Grown => Grown')
<1> USE Numbers DEF SendJob, poolVars, boostVars, dVars, jVars
<1>1. TypeOK'
  BY DEF IInv, TypeOK, WorkerPc, DispatcherPc
<1>2. CountsAgree'
  BY DEF IInv, TypeOK, CountsAgree
<1>3. OneOwner'
  BY DEF IInv, TypeOK, OneOwner, Idle, Stale, Acquired
<1>4. FlagsAgree'
  BY DEF IInv, TypeOK, FlagsAgree, OneOwner, Idle, Stale, Acquired
<1>5. NoLostWakeup' /\ BoostShape' /\ ClockRuns'
  BY DEF IInv, TypeOK, NoLostWakeup, BoostShape, ClockRuns
<1>6. JanitorShape'
  BY DEF IInv, TypeOK, JanitorShape
<1>7. AtBase => AtBase'
  BY DEF IInv, TypeOK, AtBase
<1>8. Grown => Grown'
  BY DEF IInv, TypeOK, Grown, Kept, Idle
<1> QED
  BY <1>1, <1>2, <1>3, <1>4, <1>5, <1>6, <1>7, <1>8 DEF IInv

LEMMA MarkIdleIInv ==
  ASSUME IInv, NEW w \in Workers, MarkIdle(w)
  PROVE  IInv' /\ (Grown => Grown')
<1> USE Numbers DEF MarkIdle, MuFree, poolVars, boostVars, dVars, jVars
<1>a. w \in metadata /\ w \notin discarded /\ w \notin enqueued
  BY DEF IInv, TypeOK, CountsAgree, OneOwner, FlagsAgree
<1>b. /\ wpc' = [wpc EXCEPT ![w] = "signal"]
      /\ enqueued' = enqueued \cup {w}
      /\ idle' = Append(idle, w)
      /\ expired' = expired \ {w}
  BY <1>a
<1>c. /\ w \notin Idle
      /\ Idle' = Idle \cup {w}
      /\ \A i, k \in DOMAIN idle' : idle'[i] = idle'[k] => i = k
  <2>1. idle \in Seq(Workers) /\ Distinct(idle)
    BY DEF IInv, TypeOK, OneOwner, Distinct
  <2>2. w \notin ToSet(idle)
    BY <1>a DEF IInv, FlagsAgree, Idle
  <2>3. ToSet(Append(idle, w)) = ToSet(idle) \cup {w}
    BY <2>1, ToSetAppend
  <2>4. Distinct(Append(idle, w))
    BY <2>1, <2>2, DistinctAppend
  <2> QED
    BY <1>b, <2>2, <2>3, <2>4 DEF Idle, Distinct
<1>1. TypeOK'
  <2>1. wpc' \in [Workers -> WorkerPc]
    BY <1>b DEF IInv, TypeOK, WorkerPc
  <2>2. idle' \in Seq(Workers)
    BY <1>b DEF IInv, TypeOK
  <2> QED
    BY <1>b, <2>1, <2>2 DEF IInv, TypeOK
<1>2. CountsAgree'
  BY DEF IInv, TypeOK, CountsAgree
<1>3. OneOwner'
  <2>1. Stale' = Stale /\ Acquired' = Acquired
    BY DEF Stale, Acquired
  <2>2. {v \in Workers : wpc'[v] \in {"signal", "recv"}}
          = {v \in Workers : wpc[v] \in {"signal", "recv"}} \cup {w}
    BY <1>b DEF IInv, TypeOK
  <2>3. w \notin Stale \cup Acquired
    BY DEF IInv, OneOwner
  <2> QED
    BY <1>c, <2>1, <2>2, <2>3 DEF IInv, OneOwner
<1>4. FlagsAgree'
  <2>1. Stale' = Stale
    BY DEF Stale
  <2>2. {v \in Workers : wpc'[v] = "stopping"} = {v \in Workers : wpc[v] = "stopping"}
    BY <1>b DEF IInv, TypeOK
  <2> QED
    BY <1>b, <1>c, <2>1, <2>2 DEF IInv, FlagsAgree
<1>5. NoLostWakeup' /\ BoostShape' /\ ClockRuns'
  BY DEF IInv, TypeOK, NoLostWakeup, BoostShape, ClockRuns
<1>6. JanitorShape'
  BY DEF IInv, TypeOK, JanitorShape
<1>7. AtBase => AtBase'
  BY DEF IInv, TypeOK, AtBase
<1>8. Grown => Grown'
  BY <1>b, <1>c DEF IInv, TypeOK, Grown, Kept
<1> QED
  BY <1>1, <1>2, <1>3, <1>4, <1>5, <1>6, <1>7, <1>8 DEF IInv

LEMMA SignalIInv ==
  ASSUME IInv, NEW w \in Workers, Signal(w)
  PROVE  IInv' /\ (Grown => Grown')
<1> USE Numbers DEF Signal, Wake, poolVars, boostVars, dVars, jVars
<1>1. TypeOK'
  BY DEF IInv, TypeOK, WorkerPc, DispatcherPc
<1>2. CountsAgree'
  BY DEF IInv, TypeOK, CountsAgree
<1>3. OneOwner'
  BY DEF IInv, TypeOK, OneOwner, Idle, Stale, Acquired
<1>4. FlagsAgree'
  BY DEF IInv, TypeOK, FlagsAgree, OneOwner, Idle, Stale, Acquired
<1>5. NoLostWakeup' /\ BoostShape' /\ ClockRuns'
  BY DEF IInv, TypeOK, NoLostWakeup, BoostShape, ClockRuns
<1>6. JanitorShape'
  BY DEF IInv, TypeOK, JanitorShape
<1>7. AtBase => AtBase'
  BY DEF IInv, TypeOK, AtBase
<1>8. Grown => Grown'
  BY DEF IInv, TypeOK, Grown, Kept, Idle
<1> QED
  BY <1>1, <1>2, <1>3, <1>4, <1>5, <1>6, <1>7, <1>8 DEF IInv

LEMMA FinishIInv ==
  ASSUME IInv, NEW w \in Workers, Finish(w)
  PROVE  IInv' /\ (Grown => Grown')
<1> USE Numbers DEF Finish, poolVars, boostVars, dVars, jVars
<1>1. TypeOK'
  BY DEF IInv, TypeOK, WorkerPc, DispatcherPc
<1>2. CountsAgree'
  BY DEF IInv, TypeOK, CountsAgree
<1>3. OneOwner'
  BY DEF IInv, TypeOK, OneOwner, Idle, Stale, Acquired
<1>4. FlagsAgree'
  BY DEF IInv, TypeOK, FlagsAgree, OneOwner, Idle, Stale, Acquired
<1>5. NoLostWakeup' /\ BoostShape' /\ ClockRuns'
  BY DEF IInv, TypeOK, NoLostWakeup, BoostShape, ClockRuns
<1>6. JanitorShape'
  BY DEF IInv, TypeOK, JanitorShape
<1>7. AtBase => AtBase'
  BY DEF IInv, TypeOK, AtBase
<1>8. Grown => Grown'
  BY DEF IInv, TypeOK, Grown, Kept, Idle
<1> QED
  BY <1>1, <1>2, <1>3, <1>4, <1>5, <1>6, <1>7, <1>8 DEF IInv

LEMMA BroadcastIInv ==
  ASSUME IInv, NEW w \in Workers, Broadcast(w)
  PROVE  IInv' /\ (Grown => Grown')
<1> USE Numbers DEF Broadcast, Wake, poolVars, boostVars, dVars, jVars
<1>1. TypeOK'
  BY DEF IInv, TypeOK, WorkerPc, DispatcherPc
<1>2. CountsAgree'
  BY DEF IInv, TypeOK, CountsAgree
<1>3. OneOwner'
  BY DEF IInv, TypeOK, OneOwner, Idle, Stale, Acquired
<1>4. FlagsAgree'
  BY DEF IInv, TypeOK, FlagsAgree, OneOwner, Idle, Stale, Acquired
<1>5. NoLostWakeup' /\ BoostShape' /\ ClockRuns'
  BY DEF IInv, TypeOK, NoLostWakeup, BoostShape, ClockRuns
<1>6. JanitorShape'
  BY DEF IInv, TypeOK, JanitorShape
<1>7. AtBase => AtBase'
  BY DEF IInv, TypeOK, AtBase
<1>8. Grown => Grown'
  BY DEF IInv, TypeOK, Grown, Kept, Idle
<1> QED
  BY <1>1, <1>2, <1>3, <1>4, <1>5, <1>6, <1>7, <1>8 DEF IInv

LEMMA SendStopIInv ==
  ASSUME IInv, SendStop
  PROVE  IInv' /\ (Grown => Grown')
<1> USE Numbers DEF SendStop, poolVars, boostVars, dVars, jVars
<1>a. Head(stale) \in Workers /\ stale \in Seq(Workers)
  BY DEF IInv, TypeOK
<1>b. /\ Stale = {Head(stale)} \cup Stale'
      /\ Head(stale) \notin Stale'
      /\ \A i, k \in DOMAIN stale' : stale'[i] = stale'[k] => i = k
  <2>1. Distinct(stale)
    BY DEF IInv, OneOwner, Distinct
  <2>2. ToSet(stale) = {Head(stale)} \cup ToSet(Tail(stale))
    BY <1>a, ToSetTail
  <2>3. Distinct(Tail(stale)) /\ Head(stale) \notin ToSet(Tail(stale))
    BY <1>a, <2>1, DistinctTail
  <2> QED
    BY <2>2, <2>3 DEF Stale, Distinct
<1>c. Idle' = Idle /\ Acquired' = Acquired
  BY DEF Idle, Acquired
<1>1. TypeOK'
  BY DEF IInv, TypeOK, WorkerPc, DispatcherPc
<1>2. CountsAgree'
  BY DEF IInv, TypeOK, CountsAgree
<1>3. OneOwner'
  <2>1. {v \in Workers : wpc'[v] \in {"signal", "recv"}}
          = {v \in Workers : wpc[v] \in {"signal", "recv"}} \ {Head(stale)}
    BY <1>a DEF IInv, TypeOK
  <2> QED
    BY <1>b, <1>c, <2>1 DEF IInv, OneOwner
<1>4. FlagsAgree'
  <2>1. {v \in Workers : wpc'[v] = "stopping"}
          = {v \in Workers : wpc[v] = "stopping"} \cup {Head(stale)}
    BY <1>a DEF IInv, TypeOK
  <2> QED
    BY <1>b, <1>c, <2>1 DEF IInv, FlagsAgree
<1>5. NoLostWakeup' /\ BoostShape' /\ ClockRuns'
  BY DEF IInv, TypeOK, NoLostWakeup, BoostShape, ClockRuns
<1>6. JanitorShape'
  BY DEF IInv, TypeOK, JanitorShape
<1>7. AtBase => AtBase'
  BY DEF IInv, TypeOK, AtBase
<1>8. Grown => Grown'
  BY DEF IInv, TypeOK, Grown, Kept, Idle
<1> QED
  BY <1>1, <1>2, <1>3, <1>4, <1>5, <1>6, <1>7, <1>8 DEF IInv

LEMMA AcquireSpawnIInv ==
  ASSUME IInv, AcquireSpawn
  PROVE  IInv' /\ Grown'
<1> USE Numbers DEF AcquireSpawn, poolVars, boostVars, dVars, jVars
<1>1. PICK w \in Workers : /\ wpc[w] = "none"
                          /\ wpc' = [wpc EXCEPT ![w] = "top"]
                          /\ metadata' = metadata \cup {w}
                          /\ enqueued' = enqueued \ {w}
                          /\ discarded' = discarded \ {w}
  OBVIOUS
<1>2. w \notin metadata /\ w \notin Stale
  BY <1>1 DEF IInv, CountsAgree, OneOwner
<1>3. idle = <<>> /\ idle' = <<>> /\ Idle = {} /\ Idle' = {} /\ Stale' = Stale /\ Acquired' = Acquired
  BY AllLive, EmptyFacts DEF IInv, TypeOK, Idle, Stale, Acquired
<1>4. Kept' = Kept \cup {w} /\ w \notin Kept
  BY <1>1, <1>2 DEF Kept
<1>5. TypeOK'
  <2>1. wpc' \in [Workers -> WorkerPc]
    BY <1>1 DEF IInv, TypeOK, WorkerPc
  <2> QED
    BY <1>1, <1>3, <2>1 DEF IInv, TypeOK, DispatcherPc
<1>6. CountsAgree'
  <2>1. metadata' = {v \in Workers : wpc'[v] \notin {"none", "broadcast"}}
    BY <1>1 DEF IInv, TypeOK, CountsAgree
  <2>2. metadata \in SUBSET Workers
    BY DEF IInv, TypeOK
  <2>3. Cardinality(metadata') = Cardinality(metadata) + 1
    BY <1>1, <1>2, <2>2, FS_AddElement
  <2> QED
    BY <2>1, <2>3 DEF IInv, CountsAgree
<1>7. OneOwner'
  <2>1. {v \in Workers : wpc'[v] \in {"signal", "recv"}} = {v \in Workers : wpc[v] \in {"signal", "recv"}}
    BY <1>1 DEF IInv, TypeOK
  <2> QED
    BY <1>3, <2>1 DEF IInv, OneOwner
<1>8. FlagsAgree'
  <2>1. {v \in Workers : wpc'[v] = "stopping"} = {v \in Workers : wpc[v] = "stopping"}
    BY <1>1 DEF IInv, TypeOK
  <2>2. discarded' \cap metadata' = discarded \cap metadata
    BY <1>1, <1>2
  <2> QED
    BY <1>1, <1>3, <2>1, <2>2 DEF IInv, FlagsAgree
<1>9. NoLostWakeup' /\ ClockRuns' /\ BoostShape'
  BY <1>3 DEF IInv, NoLostWakeup, ClockRuns, BoostShape
<1>10. JanitorShape'
  BY <1>1 DEF IInv, TypeOK, JanitorShape
<1>11. Grown'
  <2>1. Kept \in SUBSET Workers
    BY DEF Kept, IInv, TypeOK
  <2>2. Cardinality(Kept') = Cardinality(Kept) + 1
    BY <1>4, <2>1, FS_AddElement
  <2>3. Cardinality(Kept) >= MinWorkers
    <3>1. CASE AtBase
      <4>1. Kept = metadata
        BY <3>1 DEF AtBase, Kept
      <4> QED
        BY <3>1, <4>1 DEF AtBase, IInv, CountsAgree
    <3>2. CASE Grown
      BY <2>1, <3>2 DEF Grown
    <3> QED
      BY <3>1, <3>2 DEF IInv
  <2>4. Cardinality(Kept) \in Nat
    BY <2>1
  <2> QED
    BY <1>3, <2>2, <2>3, <2>4 DEF IInv, AtBase, Grown
<1> QED
  BY <1>5, <1>6, <1>7, <1>8, <1>9, <1>10, <1>11 DEF IInv

LEMMA RetireIInv ==
  ASSUME IInv, NEW w \in Workers, Retire(w)
  PROVE  IInv' /\ (Grown => Grown')
<1> USE Numbers DEF Retire, MuFree, poolVars, boostVars, dVars, jVars
<1>1. w \in metadata /\ w \in discarded
  BY DEF IInv, CountsAgree, FlagsAgree
<1>2. Idle' = Idle /\ Stale' = Stale /\ Acquired' = Acquired
  BY DEF Idle, Stale, Acquired
<1>3. Kept' = Kept
  BY <1>1 DEF Kept
<1>4. metadata \in SUBSET Workers /\ Cardinality(metadata \ {w}) = Cardinality(metadata) - 1
  BY <1>1, FS_RemoveElement DEF IInv, TypeOK
<1>5. running' = running - 1 /\ running > 0
  <2>1. metadata # {}
    BY <1>1
  <2>2. running > 0
    BY <1>4, <2>1, FS_EmptySet DEF IInv, CountsAgree
  <2> QED
    BY <1>1, <2>2
<1>6. TypeOK'
  BY <1>1, <1>5 DEF IInv, TypeOK, WorkerPc
<1>7. CountsAgree'
  BY <1>4, <1>5 DEF IInv, TypeOK, CountsAgree
<1>8. OneOwner'
  <2>1. {v \in Workers : wpc'[v] \in {"signal", "recv"}} = {v \in Workers : wpc[v] \in {"signal", "recv"}}
    BY DEF IInv, TypeOK
  <2> QED
    BY <1>2, <2>1 DEF IInv, OneOwner
<1>9. FlagsAgree'
  <2>1. {v \in Workers : wpc'[v] = "stopping"} = {v \in Workers : wpc[v] = "stopping"} \ {w}
    BY DEF IInv, TypeOK
  <2>2. discarded' \cap metadata' = (discarded \cap metadata) \ {w}
    BY <1>1
  <2>3. w \notin Stale
    BY DEF IInv, OneOwner
  <2> QED
    BY <1>2, <2>1, <2>2, <2>3 DEF IInv, FlagsAgree
<1>10. NoLostWakeup' /\ ClockRuns' /\ BoostShape'
  BY DEF IInv, TypeOK, NoLostWakeup, ClockRuns, BoostShape
<1>11. JanitorShape'
  BY DEF IInv, TypeOK, JanitorShape
<1>12. ~AtBase
  BY <1>1 DEF AtBase
<1>13. Grown => Grown'
  BY <1>2, <1>3 DEF IInv, TypeOK, Grown
<1> QED
  BY <1>6, <1>7, <1>8, <1>9, <1>10, <1>11, <1>12, <1>13 DEF IInv

LEMMA ShutdownIInv ==
  ASSUME IInv, Shutdown
  PROVE  IInv' /\ (Grown => Grown')
<1> USE Numbers DEF MuFree, poolVars, boostVars, dVars, jVars
<1>1. /\ dpc \notin {"boost", "arm"}
      /\ jpc = "shutdown" /\ expired' = {} /\ snap' = 0
      /\ UNCHANGED <<wpc, metadata, running, minDynamic, boosted, dpc, dch>>
      /\ Acquired' = Acquired
  BY DEF Shutdown, Acquired
<1>2. stale = <<>> /\ Stale = {} /\ metadata \cap discarded = {} /\ snap >= MinWorkers
  BY <1>1, EmptyFacts DEF IInv, JanitorShape, FlagsAgree, Stale
<1>3. CASE idle = <<>> \/ running <= snap
  <2>1. UNCHANGED <<idle, enqueued, discarded, stale>> /\ jpc' = "sleep"
    BY <1>3 DEF Shutdown
  <2>2. Idle' = Idle /\ Stale' = Stale /\ Kept' = Kept
    BY <1>1, <2>1 DEF Idle, Stale, Kept
  <2>3. TypeOK'
    BY <1>1, <2>1 DEF IInv, TypeOK, JanitorPc
  <2>4. CountsAgree' /\ OneOwner' /\ FlagsAgree'
    BY <1>1, <2>1, <2>2 DEF IInv, CountsAgree, OneOwner, FlagsAgree
  <2>5. NoLostWakeup' /\ ClockRuns' /\ BoostShape' /\ JanitorShape'
    BY <1>1, <1>2, <2>1 DEF IInv, NoLostWakeup, ClockRuns, BoostShape, JanitorShape
  <2>6. (AtBase => AtBase') /\ (Grown => Grown')
    BY <1>1, <2>1, <2>2 DEF AtBase, Grown
  <2> QED
    BY <2>3, <2>4, <2>5, <2>6 DEF IInv
<1>4. CASE idle # <<>> /\ running > snap
  <2> DEFINE oldAt == {i \in Live : idle[i] \in expired}
             old == Sublist(idle, oldAt)
             n == Smaller(Len(old), running - snap)
             leftAt == {i \in Live : idle[i] \notin ToSet(stale')}
  <2>1. /\ stale' = SubSeq(old, 1, n)
        /\ idle' = Sublist(idle, leftAt)
        /\ enqueued' = enqueued \ ToSet(stale')
        /\ discarded' = discarded \cup ToSet(stale')
        /\ jpc' = "stop"
    BY <1>1, <1>4 DEF Shutdown, IInv, TypeOK
  <2>2. idle \in Seq(Workers) /\ Distinct(idle) /\ Live = DOMAIN idle
    BY AllLive DEF IInv, TypeOK, OneOwner, Distinct
  <2>3. /\ old \in Seq(Workers)
        /\ ToSet(old) = {idle[i] : i \in oldAt}
        /\ Distinct(old)
    <3>1. oldAt \in SUBSET DOMAIN idle
      BY <2>2
    <3> HIDE DEF oldAt
    <3> QED
      BY <2>2, <3>1, SublistFacts
  <2>4. /\ idle' \in Seq(Workers)
        /\ Idle' = {idle[i] : i \in leftAt}
        /\ Distinct(idle')
    <3>1. leftAt \in SUBSET DOMAIN idle
      BY <2>2
    <3> HIDE DEF leftAt
    <3> QED
      BY <2>1, <2>2, <3>1, SublistFacts DEF Idle
  <2>5. n \in 0..Len(old) /\ n <= running - snap
    BY <1>4, <2>3 DEF Smaller, IInv, TypeOK
  <2>6. /\ stale' \in Seq(Workers)
        /\ Len(stale') = n
        /\ Stale' \subseteq ToSet(old)
        /\ Distinct(stale')
    <3> HIDE DEF old, n
    <3> QED
      BY <2>1, <2>3, <2>5, PrefixFacts DEF Stale
  <2>7. Stale' \subseteq Idle \cap expired
    BY <2>2, <2>3, <2>6 DEF Idle, ToSet
  <2>8. Idle' = Idle \ Stale'
    BY <2>2, <2>4 DEF Idle, Stale, ToSet
  <2>9. Idle \subseteq metadata
    BY DEF IInv, OneOwner, CountsAgree
  <2>10. Kept' = metadata \ Stale' /\ Kept = metadata
    BY <1>1, <1>2, <2>1 DEF Kept, Stale
  <2>11. Cardinality(Kept') >= snap
    <3>1. IsFiniteSet(metadata) /\ IsFiniteSet(Stale')
      BY <2>7, <2>9 DEF IInv, TypeOK
    <3>2. metadata \cap Stale' = Stale'
      BY <2>7, <2>9
    <3>3. Cardinality(Kept') = Cardinality(metadata) - Cardinality(Stale')
      BY <2>10, <3>1, <3>2, FS_Difference
    <3>4. Cardinality(Stale') <= n
      <4> HIDE DEF n
      <4> QED
        BY <2>6, ElementsBound DEF Stale
    <3>5. Cardinality(Stale') \in Nat /\ n \in Nat
      BY <2>3, <2>5, <3>1, FS_CardinalityType
    <3> QED
      BY <2>5, <3>3, <3>4, <3>5 DEF IInv, CountsAgree, TypeOK
  <2>12. TypeOK'
    <3>1. ToSet(stale') \subseteq Workers
      BY <2>3, <2>6 DEF Stale, ToSet
    <3>2. enqueued' \subseteq Workers /\ discarded' \subseteq Workers /\ jpc' \in JanitorPc
      BY <2>1, <3>1 DEF IInv, TypeOK, JanitorPc
    <3> HIDE DEF n, old, leftAt
    <3> QED
      BY <1>1, <2>4, <2>6, <3>2 DEF IInv, TypeOK
  <2>13. CountsAgree'
    BY <1>1 DEF IInv, CountsAgree
  <2>14. OneOwner'
    BY <1>1, <1>2, <2>4, <2>6, <2>7, <2>8 DEF IInv, OneOwner, Distinct
  <2>15. FlagsAgree'
    <3>1. discarded' \cap metadata' = Stale'
      BY <1>1, <1>2, <2>1, <2>7, <2>9 DEF Stale
    <3>2. {v \in Workers : wpc'[v] = "stopping"} = {}
      BY <1>1 DEF IInv, JanitorShape
    <3> QED
      BY <2>1, <2>8, <3>1, <3>2 DEF IInv, FlagsAgree, Stale
  <2>16. NoLostWakeup'
    BY <1>1, <1>4 DEF IInv, NoLostWakeup
  <2>17. ClockRuns' /\ BoostShape' /\ JanitorShape'
    BY <1>1, <2>1 DEF IInv, ClockRuns, BoostShape, JanitorShape
  <2>18. Grown
    BY <1>1, <1>2, <1>4 DEF IInv, AtBase, TypeOK
  <2>19. Grown'
    <3>1. CASE snap > MinWorkers
      <4>1. Kept' \in SUBSET Workers
        BY <2>10 DEF IInv, TypeOK
      <4>2. Cardinality(Kept') \in Nat
        BY <4>1
      <4> QED
        BY <1>1, <2>1, <2>11, <2>18, <3>1, <4>2 DEF Grown, IInv, TypeOK
    <3>2. CASE expired \cap Idle = {}
      <4>1. Kept' = Kept
        BY <2>7, <2>10, <3>2
      <4> QED
        BY <1>1, <2>1, <2>18, <4>1 DEF Grown
    <3> QED
      BY <1>1, <2>18, <3>1, <3>2 DEF Grown
  <2> HIDE DEF n, old
  <2> QED
    BY <2>12, <2>13, <2>14, <2>15, <2>16, <2>17, <2>19 DEF IInv
<1> QED
  BY <1>2, <1>3, <1>4 DEF IInv, TypeOK

-----------------------------------------------------------------------------
\* The invariant is inductive, and a pool that has grown stays grown.
LEMMA NextIInv == IInv /\ [Next]_vars => IInv' /\ (Grown => Grown')
<1> SUFFICES ASSUME IInv, [Next]_vars PROVE IInv' /\ (Grown => Grown')
  OBVIOUS
<1>1. CASE UNCHANGED vars
  <2>1. TypeOK' /\ CountsAgree' /\ OneOwner' /\ FlagsAgree'
    BY <1>1 DEF vars, IInv, TypeOK, CountsAgree, OneOwner, FlagsAgree, Idle, Stale, Acquired
  <2>2. NoLostWakeup' /\ ClockRuns' /\ JanitorShape' /\ BoostShape'
    BY <1>1 DEF vars, IInv, NoLostWakeup, ClockRuns, JanitorShape, BoostShape
  <2>3. (AtBase => AtBase') /\ (Grown => Grown')
    BY <1>1 DEF vars, AtBase, Grown, Kept, Idle
  <2> QED
    BY <2>1, <2>2, <2>3 DEF IInv
<1>2. CASE Take
  BY <1>2, TakeIInv
<1>3. CASE AcquireStep
  BY <1>3, AcquireIdleIInv, AcquireSpawnIInv, BoostIInv, ArmIInv, AcquireWaitIInv, SendJobIInv
     DEF AcquireStep
<1>4. ASSUME NEW w \in Workers, WorkerStep(w) PROVE IInv' /\ (Grown => Grown')
  BY <1>4, MarkIdleIInv, SignalIInv, FinishIInv, RetireIInv, BroadcastIInv DEF WorkerStep
<1>5. ASSUME NEW n \in 0..MaxWorkers, NEW elapsed \in BOOLEAN, Tick(n, elapsed)
      PROVE  IInv' /\ (Grown => Grown')
  BY <1>5, TickIInv
<1>6. CASE JanitorStep
  BY <1>6, ReadRunningIInv, CompareLoadIInv, LowerBoundaryIInv, SetClockIInv, ReadBoundaryIInv,
     ShutdownIInv, SendStopIInv, StopsSentIInv
     DEF JanitorStep
<1> QED
  BY <1>1, <1>2, <1>3, <1>4, <1>5, <1>6 DEF Next

THEOREM Invariance == Spec => []IInv
<1>1. Init => IInv
  BY InitIInv
<1>2. IInv /\ [Next]_vars => IInv'
  BY NextIInv
<1> QED
  BY <1>1, <1>2, PTL DEF Spec

\* The workers kept are never fewer than the base.
LEMMA KeepsBase == IInv => BaseKept
<1> SUFFICES ASSUME IInv PROVE Cardinality(Kept) >= MinWorkers
  BY DEF BaseKept, Kept
<1>1. CASE AtBase
  <2>1. Kept = metadata
    BY <1>1 DEF AtBase, Kept
  <2> QED
    BY <1>1, <2>1, Numbers DEF AtBase, IInv, CountsAgree
<1>2. CASE Grown
  <2>1. Kept \in SUBSET Workers
    BY DEF Kept, IInv, TypeOK
  <2> QED
    BY <1>2, <2>1, Numbers DEF Grown
<1> QED
  BY <1>1, <1>2 DEF IInv

\* The variables keep their types.
THEOREM TypeCorrect == Spec => []TypeOK
<1>1. IInv => TypeOK
  BY DEF IInv
<1> QED
  BY <1>1, Invariance, PTL

\* running counts the living workers, so the pool never exceeds its maximum
\* and acquire never waits for a worker that is gone.
THEOREM CountsStayRight == Spec => []CountsAgree
<1>1. IInv => CountsAgree
  BY DEF IInv
<1> QED
  BY <1>1, Invariance, PTL

\* Every send on a worker's channel finds its worker receiving, and every
\* worker that receives is known to one sender.
THEOREM WorkersHaveOneOwner == Spec => []OneOwner
<1>1. IInv => OneOwner
  BY DEF IInv
<1> QED
  BY <1>1, Invariance, PTL

\* The flags of the workers agree with the lists.
THEOREM FlagsStayRight == Spec => []FlagsAgree
<1>1. IInv => FlagsAgree
  BY DEF IInv
<1> QED
  BY <1>1, Invariance, PTL

\* acquire never waits for a wake-up that has been given already.
THEOREM WakeupsReachAcquire == Spec => []NoLostWakeup
<1>1. IInv => NoLostWakeup
  BY DEF IInv
<1> QED
  BY <1>1, Invariance, PTL

\* The janitor never takes the pool below its base size.
THEOREM BaseStays == Spec => []BaseKept
BY KeepsBase, Invariance, PTL

\* A raised boundary has its retention clock running.
THEOREM ClockKeepsRunning == Spec => []ClockRuns
<1>1. IInv => ClockRuns
  BY DEF IInv
<1> QED
  BY <1>1, Invariance, PTL

\* A pool that has grown never returns to its base size, whatever its load.
THEOREM NoWayBack == Spec => GrownForGood
<1>1. IInv /\ IInv' /\ [Next]_vars => [running > MinWorkers => running' > MinWorkers]_vars
  <2> SUFFICES ASSUME IInv, IInv', [Next]_vars, running > MinWorkers PROVE running' > MinWorkers
    BY Zenon
  <2>1. Grown
    BY Numbers DEF IInv, AtBase, TypeOK
  <2>2. Grown'
    BY <2>1, NextIInv
  <2>3. Kept' \in SUBSET metadata' /\ metadata' \in SUBSET Workers
    BY DEF Kept, IInv, TypeOK
  <2>4. IsFiniteSet(metadata') /\ Cardinality(metadata') = running'
    BY <2>3, Numbers DEF IInv, CountsAgree
  <2>5. Cardinality(Kept') \in Nat /\ Cardinality(Kept') > MinWorkers
    BY <2>2, <2>3, Numbers DEF Grown
  <2>6. Cardinality(Kept') <= running' /\ running' \in Nat
    BY <2>3, <2>4, FS_Subset, Numbers DEF IInv, TypeOK
  <2> QED
    BY <2>5, <2>6, Numbers
<1> QED
  BY <1>1, Invariance, PTL DEF Spec, GrownForGood
=============================================================================
