------------------------- MODULE IdempotencyProofs -------------------------
(***************************************************************************)
(* Proofs about Idempotency, for any set of requests and keys.             *)
(***************************************************************************)
EXTENDS Idempotency, TLAPS

\* Where a request is says which entry it has.
EntryShape ==
  \A r \in Requests :
    /\ rpc[r] = "new" <=> entry[r] = NoEntry
    /\ r \in Owners => entry[r] = r
    /\ rpc[r] = "wait" => entry[r] # r
    /\ entry[r] # NoEntry =>
         KeyOf[entry[r]] = KeyOf[r] /\ entry[entry[r]] = entry[r]

\* How far an owner is says what it has stored and what it will publish.
OwnerShape ==
  \A r \in Requests :
    /\ rpc[r] \in {"prepare", "stream", "lost", "save", "done"} => r \in userStored
    /\ rpc[r] = "done" => r \in aiStored
    /\ rpc[r] = "publish" => verdict[r] \in {"ok", "error"}
    /\ r \in Owners /\ rpc[r] # "unlist" => r \notin closed
    /\ verdict[r] = "ok" => r \in userStored \cap aiStored /\ reply[r] = "done"
    /\ verdict[r] = "error" => reply[r] \in {"error", "status", "gone"}
    /\ verdict[r] # "none" => entry[r] = r
    /\ rpc[r] \in (OwnerPc \ {"publish", "unlist"}) \cup {"new", "wait"} =>
         verdict[r] = "none"

\* A closed entry holds its owner's verdict.
ClosedShape ==
  \A r \in closed : entry[r] = r /\ result[r] = verdict[r] /\ result[r] \in {"ok", "error"}

\* What a request that found an entry has told its client.
WaiterShape ==
  \A r \in Requests : entry[r] # r =>
    /\ reply[r] = "done" => entry[r] \in closed /\ result[entry[r]] = "ok"
    /\ reply[r] = "error" => entry[r] \in closed /\ result[entry[r]] = "error"

IInv ==
  /\ TypeOK
  /\ SingleFlight
  /\ EntryShape
  /\ OwnerShape
  /\ ClosedShape
  /\ WaiterShape

LEMMA InitIInv == Init => IInv
BY IdempotencyAssumption
   DEF Init, IInv, TypeOK, SingleFlight, EntryShape, OwnerShape, ClosedShape,
       WaiterShape, Owners, OwnerPc, Pc, Outcome, Reply

-----------------------------------------------------------------------------
\* The steps an owner takes between begin and complete touch nothing that is
\* shared: it stays an owner, of the same open entry.
LEMMA PrivateStep ==
  ASSUME IInv, NEW r \in Requests,
         rpc[r] \in OwnerPc \ {"publish", "unlist"},
         NEW next \in OwnerPc \ {"unlist"}, rpc' = [rpc EXCEPT ![r] = next],
         NEW said \in Reply, reply' = [reply EXCEPT ![r] = said],
         UNCHANGED sharedVars
  PROVE  /\ SingleFlight'
         /\ EntryShape'
         /\ WaiterShape'
<1> USE DEF IInv, TypeOK, OwnerPc, Pc, Owners
<1>1. Owners' = Owners
  BY DEF sharedVars
<1>2. SingleFlight'
  BY <1>1 DEF SingleFlight, sharedVars
<1>3. EntryShape'
  BY <1>1 DEF EntryShape, sharedVars
<1>4. entry[r] = r
  BY DEF EntryShape
<1>5. WaiterShape'
  BY <1>4 DEF WaiterShape, sharedVars
<1> QED
  BY <1>2, <1>3, <1>5

LEMMA OwnerWorks ==
  ASSUME IInv, NEW r \in Requests,
         ResolveFiles(r) \/ AppendUserMessage(r) \/ Prepare(r) \/ Stream(r)
           \/ LoseJob(r) \/ AppendAnswer(r) \/ SendDone(r)
  PROVE  IInv'
<1>1. PICK next \in OwnerPc \ {"unlist"}, said \in Reply :
        /\ rpc[r] \in OwnerPc \ {"publish", "unlist"}
        /\ rpc' = [rpc EXCEPT ![r] = next]
        /\ reply' = [reply EXCEPT ![r] = said]
        /\ UNCHANGED sharedVars
  <2>1. reply = [reply EXCEPT ![r] = reply[r]] /\ reply[r] \in Reply
    BY DEF IInv, TypeOK
  <2> QED
    BY <2>1 DEF ResolveFiles, AppendUserMessage, Prepare, Stream, LoseJob, AppendAnswer,
                SendDone, Goto, Fail, sharedVars, storeVars, OwnerPc, Reply
<1>2. SingleFlight' /\ EntryShape' /\ WaiterShape'
  BY <1>1, PrivateStep
<1>3. r \in Owners /\ r \notin closed
  BY <1>1 DEF IInv, OwnerShape, Owners, OwnerPc
<1>4. TypeOK'
  BY <1>1 DEF IInv, TypeOK, ResolveFiles, AppendUserMessage, Prepare, Stream, LoseJob,
              AppendAnswer, SendDone, Goto, Fail, sharedVars, storeVars, OwnerPc, Pc, Outcome
<1>5. OwnerShape'
  <2> USE <1>3 DEF IInv, TypeOK, OwnerShape, EntryShape, Goto, Fail, sharedVars, storeVars,
                   Owners, OwnerPc, Pc, Outcome, Reply
  <2>1. CASE ResolveFiles(r)
    BY <2>1 DEF ResolveFiles
  <2>2. CASE AppendUserMessage(r)
    BY <2>2 DEF AppendUserMessage
  <2>3. CASE Prepare(r)
    BY <2>3 DEF Prepare
  <2>4. CASE Stream(r)
    BY <2>4 DEF Stream
  <2>5. CASE LoseJob(r)
    BY <2>5 DEF LoseJob
  <2>6. CASE AppendAnswer(r)
    BY <2>6 DEF AppendAnswer
  <2>7. CASE SendDone(r)
    BY <2>7 DEF SendDone
  <2> QED
    BY <2>1, <2>2, <2>3, <2>4, <2>5, <2>6, <2>7
<1>6. ClosedShape'
  <2>1. \A s \in closed : verdict'[s] = verdict[s]
    BY <1>3 DEF IInv, TypeOK, ResolveFiles, AppendUserMessage, Prepare, Stream, LoseJob,
                AppendAnswer, SendDone, Goto, Fail
  <2> QED
    BY <1>1, <2>1 DEF IInv, ClosedShape, sharedVars
<1> QED
  BY <1>2, <1>4, <1>5, <1>6 DEF IInv

LEMMA NextIInv == IInv /\ [Next]_vars => IInv'
<1> SUFFICES ASSUME IInv, [Next]_vars PROVE IInv'
  OBVIOUS
<1>1. CASE UNCHANGED vars
  BY <1>1 DEF IInv, TypeOK, SingleFlight, EntryShape, OwnerShape, ClosedShape, WaiterShape,
              Owners, vars, sharedVars, storeVars
<1>2. ASSUME NEW r \in Requests, OwnerStep(r) \/ LoseJob(r), ~Publish(r), ~Unlist(r)
      PROVE  IInv'
  BY <1>2, OwnerWorks DEF OwnerStep
<1>3. ASSUME NEW r \in Requests, BeginNew(r) PROVE IInv'
  <2> USE <1>3, IdempotencyAssumption
      DEF BeginNew, Goto, IInv, TypeOK, Owners, OwnerPc, Pc, sharedVars, storeVars
  <2>1. TypeOK'
    <3>1. DOMAIN table' = DOMAIN table \cup {KeyOf[r]}
      OBVIOUS
    <3>2. table' \in [DOMAIN table' -> Requests]
      BY <3>1
    <3>3. DOMAIN table' \subseteq Keys
      <4>1. KeyOf[r] \in Keys /\ DOMAIN table \subseteq Keys
        OBVIOUS
      <4> QED
        BY <4>1, <3>1, Zenon
    <3>4. rpc' \in [Requests -> Pc] /\ entry' \in [Requests -> Requests \cup {NoEntry}]
      OBVIOUS
    <3> QED
      BY <3>2, <3>3, <3>4
  <2>2. SingleFlight'
    BY DEF SingleFlight, EntryShape
  <2>3. EntryShape'
    BY DEF EntryShape, SingleFlight
  <2>4. OwnerShape'
    BY DEF OwnerShape, EntryShape, ClosedShape
  <2>5. ClosedShape'
    BY DEF ClosedShape, OwnerShape, EntryShape
  <2>6. WaiterShape'
    BY DEF WaiterShape, EntryShape, OwnerShape, ClosedShape
  <2> QED
    BY <2>1, <2>2, <2>3, <2>4, <2>5, <2>6
<1>4. ASSUME NEW r \in Requests, BeginDuplicate(r) PROVE IInv'
  <2> USE <1>4, IdempotencyAssumption
      DEF BeginDuplicate, Goto, IInv, TypeOK, Owners, OwnerPc, Pc, sharedVars, storeVars
  <2>1. TypeOK'
    BY DEF Outcome, Reply
  <2>2. SingleFlight'
    BY DEF SingleFlight, EntryShape
  <2>3. EntryShape'
    BY DEF EntryShape, SingleFlight
  <2>4. OwnerShape'
    BY DEF OwnerShape, EntryShape
  <2>5. ClosedShape'
    BY DEF ClosedShape, OwnerShape, EntryShape
  <2>6. WaiterShape'
    BY DEF WaiterShape, EntryShape, OwnerShape, ClosedShape
  <2> QED
    BY <2>1, <2>2, <2>3, <2>4, <2>5, <2>6
<1>5. ASSUME NEW r \in Requests, Publish(r) PROVE IInv'
  <2> USE <1>5, IdempotencyAssumption
      DEF Publish, Goto, IInv, TypeOK, Owners, OwnerPc, Pc, sharedVars, storeVars
  <2>1. TypeOK'
    BY DEF Outcome, EntryShape
  <2>2. SingleFlight'
    BY DEF SingleFlight, EntryShape
  <2>3. EntryShape'
    BY DEF EntryShape, SingleFlight
  <2>4. OwnerShape'
    BY DEF OwnerShape, EntryShape
  <2>5. ClosedShape'
    BY DEF ClosedShape, OwnerShape, EntryShape
  <2>6. WaiterShape'
    BY DEF WaiterShape, EntryShape, OwnerShape, ClosedShape
  <2> QED
    BY <2>1, <2>2, <2>3, <2>4, <2>5, <2>6
<1>6. ASSUME NEW r \in Requests, Unlist(r) PROVE IInv'
  <2> USE <1>6, IdempotencyAssumption
      DEF Unlist, Goto, IInv, TypeOK, Owners, OwnerPc, Pc, sharedVars, storeVars
  <2>1. TypeOK'
    BY DEF Outcome, EntryShape
  <2>2. SingleFlight'
    BY DEF SingleFlight, EntryShape
  <2>3. EntryShape'
    BY DEF EntryShape, SingleFlight
  <2>4. OwnerShape'
    BY DEF OwnerShape, EntryShape
  <2>5. ClosedShape'
    BY DEF ClosedShape, OwnerShape, EntryShape
  <2>6. WaiterShape'
    BY DEF WaiterShape, EntryShape, OwnerShape, ClosedShape
  <2> QED
    BY <2>1, <2>2, <2>3, <2>4, <2>5, <2>6
<1>7. ASSUME NEW r \in Requests, RespondCached(r) PROVE IInv'
  <2> USE <1>7, IdempotencyAssumption
      DEF RespondCached, Goto, IInv, TypeOK, Owners, OwnerPc, Pc, sharedVars, storeVars
  <2>1. TypeOK'
    BY DEF Outcome, Reply
  <2>2. SingleFlight'
    BY DEF SingleFlight, EntryShape
  <2>3. EntryShape'
    BY DEF EntryShape, SingleFlight
  <2>4. OwnerShape'
    BY DEF OwnerShape, EntryShape
  <2>5. ClosedShape'
    BY DEF ClosedShape, OwnerShape, EntryShape
  <2>6. WaiterShape'
    BY DEF WaiterShape, EntryShape, OwnerShape, ClosedShape
  <2> QED
    BY <2>1, <2>2, <2>3, <2>4, <2>5, <2>6
<1>8. ASSUME NEW r \in Requests, RefuseDuplicate(r) PROVE IInv'
  <2> USE <1>8, IdempotencyAssumption
      DEF RefuseDuplicate, Goto, IInv, TypeOK, Owners, OwnerPc, Pc, sharedVars, storeVars
  <2>1. TypeOK'
    BY DEF Outcome, Reply
  <2>2. SingleFlight'
    BY DEF SingleFlight, EntryShape
  <2>3. EntryShape'
    BY DEF EntryShape, SingleFlight
  <2>4. OwnerShape'
    BY DEF OwnerShape, EntryShape
  <2>5. ClosedShape'
    BY DEF ClosedShape, OwnerShape, EntryShape
  <2>6. WaiterShape'
    BY DEF WaiterShape, EntryShape, OwnerShape, ClosedShape
  <2> QED
    BY <2>1, <2>2, <2>3, <2>4, <2>5, <2>6
<1> QED
  BY <1>1, <1>2, <1>3, <1>4, <1>5, <1>6, <1>7, <1>8 DEF Next, OwnerStep

THEOREM Invariance == Spec => []IInv
<1>1. Init => IInv
  BY InitIInv
<1>2. IInv /\ [Next]_vars => IInv'
  BY NextIInv
<1> QED
  BY <1>1, <1>2, PTL DEF Spec

\* The variables keep their types.
THEOREM TypeCorrect == Spec => []TypeOK
<1>1. IInv => TypeOK
  BY DEF IInv
<1> QED
  BY <1>1, Invariance, PTL

\* Of the requests with one key at most one works at a time, and the table
\* names it as long as it does.
THEOREM OneFlight == Spec => []SingleFlight
<1>1. IInv => SingleFlight
  BY DEF IInv
<1> QED
  BY <1>1, Invariance, PTL

\* A request that found an entry tells its client what became of the request
\* that owns the entry.
THEOREM OutcomeShared == Spec => []SharedOutcome
<1>1. ASSUME IInv PROVE SharedOutcome
  <2> SUFFICES ASSUME NEW r \in Requests, entry[r] \notin {r, NoEntry}
               PROVE  /\ KeyOf[entry[r]] = KeyOf[r]
                      /\ reply[r] = "done" =>
                           /\ entry[r] \in userStored \cap aiStored
                           /\ reply[entry[r]] = "done"
                      /\ reply[r] = "error" => reply[entry[r]] \in {"error", "status", "gone"}
    BY DEF SharedOutcome
  <2>1. entry[r] \in Requests /\ KeyOf[entry[r]] = KeyOf[r]
    BY <1>1 DEF IInv, TypeOK, EntryShape
  <2>2. reply[r] = "done" => verdict[entry[r]] = "ok"
    BY <1>1 DEF IInv, WaiterShape, ClosedShape
  <2>3. reply[r] = "error" => verdict[entry[r]] = "error"
    BY <1>1 DEF IInv, WaiterShape, ClosedShape
  <2> QED
    BY <1>1, <2>1, <2>2, <2>3 DEF IInv, OwnerShape
<1> QED
  BY <1>1, Invariance, PTL
=============================================================================
