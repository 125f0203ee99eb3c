------------------------- MODULE SessionCacheProofs -------------------------
(***************************************************************************)
(* Proofs about SessionCache, for any requests and bounds.                 *)
(***************************************************************************)
EXTENDS SessionCache, FiniteSetTheorems, TLAPS

\* Only messages are streamed.
SendsOnly ==
  \A r \in Requests :
    rpc[r] \in StreamPc \cup {"streamQueued", "storeAnswer"} => r \in Sends

\* Before the session has its row nobody can name it.
BeforeRow ==
  row = "none" =>
    /\ \A r \in Requests \ {Creator} : rpc[r] = "new"
    /\ rpc[Creator] \in {"new", "called", "initQueued"} \cup Ended
    /\ \A i \in DOMAIN mem : ~mem[i].ready

\* The row is made once, and what follows a deletion comes after it.
RowStages ==
  /\ rpc[Creator] \in {"new", "called", "initQueued"} => row = "none"
  /\ cleaner["delete"].pc # "idle" => row = "deleted"
  /\ \A i \in DOMAIN echoes : echoes[i] = "session" => row = "deleted"

\* From SetSession to MarkReady the session stays in the memory in use, as long
\* as its row exists.
Installed ==
  row = "live" =>
    \A r \in Requests :
      /\ rpc[r] \in {"setHistory", "cacheSession", "cacheLoaded", "markReady"}
      /\ at[r] = current
      => mem[current].session

\* The userState that a cleaner clears is not the one in use.
Detached ==
  \A c \in Cleaners : cleaner[c].state # 0 =>
    cleaner[c].state # current /\ cleaner[c].pc \in {"cancel", "clear"}

IInv ==
  /\ TypeOK
  /\ SendsOnly
  /\ BeforeRow
  /\ RowStages
  /\ Installed
  /\ Detached
  /\ ReadyMeansLoaded
  /\ HistoryFollowsSession

-----------------------------------------------------------------------------
\* Histories.
LEMMA HistoryFacts ==
  /\ <<>> \in History
  /\ \A h \in History, r \in Sends :
       /\ Append(h, Question(r)) \in History
       /\ Append(h, Summary(r)) \in History
       /\ Append(h, Answer(r)) \in History
<1>1. <<>> \in History
  BY DEF History
<1>2. ASSUME NEW h \in History, NEW r \in Sends
      PROVE  /\ Append(h, Question(r)) \in History
             /\ Append(h, Summary(r)) \in History
             /\ Append(h, Answer(r)) \in History
  <2>1. Question(r) \in Entry /\ Summary(r) \in Entry /\ Answer(r) \in Entry
    BY DEF Entry, Question, Summary, Answer
  <2> QED
    BY <2>1 DEF History
<1> QED
  BY <1>1, <1>2

LEMMA AbsentIsNoHistory == Absent \notin History
BY SessionCacheAssumption DEF History, Entry

\* The userState objects without a session.
LEMMA NewStateType == NewState \in UserState
BY HistoryFacts DEF NewState, UserState

\* One userState changes.
LEMMA SetState ==
  ASSUME NEW S, NEW m \in Seq(S), NEW i \in 1..Len(m), NEW s \in S
  PROVE  /\ [m EXCEPT ![i] = s] \in Seq(S)
         /\ Len([m EXCEPT ![i] = s]) = Len(m)
OBVIOUS

\* What getState does.
LEMMA GetStateFacts ==
  ASSUME MemTypes, GetState
  PROVE  /\ mem' \in Seq(UserState)
         /\ current' \in 1..Len(mem')
         /\ Len(mem') >= Len(mem)
         /\ \A i \in 1..Len(mem) : mem'[i] = mem[i]
         /\ current # 0 => UNCHANGED memVars
         /\ current = 0 =>
              /\ current' = Len(mem) + 1
              /\ mem'[current'] = NewState
<1>1. CASE current # 0
  BY <1>1 DEF MemTypes, GetState, memVars
<1>2. CASE current = 0
  <2>1. mem' = Append(mem, NewState) /\ current' = Len(mem) + 1
    BY <1>2 DEF GetState
  <2>2. mem \in Seq(UserState) /\ NewState \in UserState
    BY NewStateType DEF MemTypes
  <2>3. mem' \in Seq(UserState) /\ Len(mem') = Len(mem) + 1
        /\ mem'[Len(mem) + 1] = NewState
        /\ \A i \in 1..Len(mem) : mem'[i] = mem[i]
    BY <2>1, <2>2
  <2> QED
    BY <1>2, <2>1, <2>2, <2>3
<1> QED
  BY <1>1, <1>2

\* The userState of a handler that has one.
LEMMA HeldState ==
  ASSUME IInv, NEW r \in Requests, rpc[r] \in InitPc \cup StreamPc
  PROVE  /\ at[r] \in 1..Len(mem)
         /\ mem[at[r]] \in UserState
         /\ mem[at[r]].history \in History
<1>1. at[r] \in 1..Len(mem)
  BY DEF IInv, TypeOK, RequestTypes, MemTypes
<1>2. mem[at[r]] \in UserState
  BY <1>1 DEF IInv, TypeOK, MemTypes
<1> QED
  BY <1>1, <1>2 DEF UserState

\* A handler changes the userState it holds.
LEMMA HeldStateSet ==
  ASSUME IInv, NEW r \in Requests, rpc[r] \in InitPc \cup StreamPc,
         NEW s \in UserState, mem' = [mem EXCEPT ![at[r]] = s]
  PROVE  mem' \in Seq(UserState) /\ Len(mem') = Len(mem)
<1>1. at[r] \in 1..Len(mem)
  BY HeldState
<1>2. mem \in Seq(UserState)
  BY DEF IInv, TypeOK, MemTypes
<1> QED
  BY <1>1, <1>2, SetState

\* A step that counts as an upset, or does not.
LEMMA UpsetsBounded ==
  ASSUME StoreTypes, Upset \/ UNCHANGED upsets
  PROVE  upsets' \in 0..MaxUpsets
BY SessionCacheAssumption DEF StoreTypes, Upset

\* Redis gets the history of the handler, or falls behind.
LEMMA CacheHistoryFacts ==
  ASSUME IInv, NEW r \in Requests, CacheHistory(r)
  PROVE  /\ StoreTypes /\ UNCHANGED <<row, title, messages>> => StoreTypes'
         /\ rHistory' = Absent => behind'
         /\ UNCHANGED <<rSession, gap>>
         /\ behind' \/ rHistory' = local[r]
<1>1. Upset \/ UNCHANGED upsets
  BY DEF CacheHistory
<1>2. upsets' \in 0..MaxUpsets
  BY <1>1, UpsetsBounded DEF IInv, TypeOK
<1>3. local[r] \in History
  BY DEF IInv, TypeOK, RequestTypes
<1>4. (StoreTypes /\ UNCHANGED <<row, title, messages>>) => StoreTypes'
  BY <1>2, <1>3 DEF CacheHistory, StoreTypes
<1> QED
  BY <1>3, <1>4, AbsentIsNoHistory DEF CacheHistory

-----------------------------------------------------------------------------
LEMMA InitIInv == Init => IInv
<1> SUFFICES ASSUME Init PROVE IInv
  OBVIOUS
<1> USE SessionCacheAssumption DEF Init
<1>1. RequestTypes
  BY HistoryFacts DEF RequestTypes, Pc, InitPc, StreamPc
<1>2. StoreTypes
  <2>1. messages \in History
    BY HistoryFacts
  <2>2. upsets \in 0..MaxUpsets
    OBVIOUS
  <2> QED
    BY <2>1, <2>2 DEF StoreTypes
<1>3. CleanerTypes
  BY DEF CleanerTypes, Cleaners, CleanerState, NotCleaning
<1>4. MemTypes
  BY DEF MemTypes, NotCleaning
<1>5. SendsOnly
  BY DEF SendsOnly, StreamPc
<1>6. BeforeRow /\ RowStages
  BY DEF BeforeRow, RowStages, Cleaners, NotCleaning, Requests
<1>7. Installed /\ Detached
  BY DEF Installed, Detached, NotCleaning
<1>8. ReadyMeansLoaded /\ HistoryFollowsSession
  BY DEF ReadyMeansLoaded, HistoryFollowsSession
<1> QED
  BY <1>1, <1>2, <1>3, <1>4, <1>5, <1>6, <1>7, <1>8 DEF IInv, TypeOK

-----------------------------------------------------------------------------
(* The requests, up to their first job, and their end.                     *)

LEMMA StartStep ==
  ASSUME IInv, NEW r \in Requests, Start(r)
  PROVE  IInv'
<1> USE DEF Start, Goto, dbVars, redisVars, memVars, clearVars, IInv, TypeOK
<1>1. RequestTypes'
  BY DEF RequestTypes, Pc, InitPc, StreamPc
<1>2. SendsOnly'
  BY DEF SendsOnly, StreamPc
<1>3. BeforeRow'
  BY DEF BeforeRow
<1>4. RowStages'
  BY DEF RowStages
<1>5. Installed'
  BY DEF Installed
<1>6. HistoryFollowsSession'
  BY DEF HistoryFollowsSession
<1>7. (StoreTypes /\ CleanerTypes /\ MemTypes /\ Detached /\ ReadyMeansLoaded)'
  BY DEF StoreTypes, CleanerTypes, MemTypes, Detached, ReadyMeansLoaded
<1> QED
  BY <1>1, <1>2, <1>3, <1>4, <1>5, <1>6, <1>7

LEMMA StoreQuestionStep ==
  ASSUME IInv, NEW r \in Requests, StoreQuestion(r)
  PROVE  IInv'
<1> USE DEF StoreQuestion, Goto, redisVars, memVars, clearVars, IInv, TypeOK
<1>1. RequestTypes'
  BY DEF RequestTypes, Pc, InitPc, StreamPc
<1>2. StoreTypes'
  BY HistoryFacts DEF StoreTypes
<1>3. SendsOnly'
  BY DEF SendsOnly
<1>4. BeforeRow'
  BY DEF BeforeRow
<1>5. RowStages'
  BY DEF RowStages
<1>6. Installed'
  BY DEF Installed
<1>7. HistoryFollowsSession'
  BY DEF HistoryFollowsSession
<1>8. (CleanerTypes /\ MemTypes /\ Detached /\ ReadyMeansLoaded)'
  BY DEF CleanerTypes, MemTypes, Detached, ReadyMeansLoaded
<1> QED
  BY <1>1, <1>2, <1>3, <1>4, <1>5, <1>6, <1>7, <1>8

LEMMA CheckReadyStep ==
  ASSUME IInv, NEW r \in Requests, CheckReady(r)
  PROVE  IInv'
<1> USE DEF CheckReady, Goto, GetState, dbVars, redisVars, memVars, clearVars,
          IInv, TypeOK
<1>1. RequestTypes'
  BY DEF RequestTypes, Pc, InitPc, StreamPc, Ended
<1>2. MemTypes'
  <2>1. /\ mem' \in Seq(UserState) /\ Len(mem') \in Nat
        /\ current' \in 1..Len(mem') /\ Len(mem') >= Len(mem)
    BY GetStateFacts
  <2>2. \A q \in Requests : at'[q] <= Len(mem')
    BY <2>1 DEF MemTypes, RequestTypes
  <2>3. \A c \in Cleaners : cleaner[c].state <= Len(mem')
    BY <2>1 DEF MemTypes, CleanerTypes, CleanerState
  <2> QED
    BY <2>1, <2>2, <2>3 DEF MemTypes
<1>3. SendsOnly'
  BY DEF SendsOnly, StreamPc
<1>4. BeforeRow'
  <2> SUFFICES ASSUME row = "none" PROVE BeforeRow'
    BY DEF BeforeRow
  <2>1. r = Creator /\ rpc' = [rpc EXCEPT ![r] = "initQueued"]
    BY DEF BeforeRow
  <2>2. ASSUME NEW i \in DOMAIN mem' PROVE ~mem'[i].ready
    <3>1. CASE i \in 1..Len(mem)
      BY <3>1, GetStateFacts DEF BeforeRow, MemTypes
    <3>2. CASE i \notin 1..Len(mem)
      <4>1. /\ mem \in Seq(UserState) /\ mem' \in Seq(UserState)
            /\ DOMAIN mem' = 1..Len(mem')
        BY GetStateFacts DEF MemTypes
      <4>2. CASE current = 0
        <5>1. mem' = Append(mem, NewState)
          BY <4>2
        <5>2. Len(mem') = Len(mem) + 1
          BY <4>1, <5>1, NewStateType
        <5>3. i = current' /\ mem'[i] = NewState
          BY <3>2, <4>1, <4>2, <5>2, GetStateFacts
        <5> QED
          BY <5>3 DEF NewState
      <4>3. CASE current # 0
        BY <3>2, <4>1, <4>3
      <4> QED
        BY <4>2, <4>3
    <3> QED
      BY <3>1, <3>2
  <2> QED
    BY <2>1, <2>2 DEF BeforeRow, RequestTypes, Requests
<1>5. RowStages'
  BY DEF RowStages
<1>6. Installed'
  BY DEF Installed, MemTypes
<1>7. Detached'
  BY DEF Detached, MemTypes
<1>8. ReadyMeansLoaded'
  BY DEF ReadyMeansLoaded, NewState
<1>9. HistoryFollowsSession'
  BY DEF HistoryFollowsSession
<1>10. (StoreTypes /\ CleanerTypes)'
  BY DEF StoreTypes, CleanerTypes
<1> QED
  BY <1>1, <1>2, <1>3, <1>4, <1>5, <1>6, <1>7, <1>8, <1>9, <1>10

LEMMA StoreAnswerStep ==
  ASSUME IInv, NEW r \in Requests, StoreAnswer(r)
  PROVE  IInv'
<1> USE DEF StoreAnswer, Goto, redisVars, memVars, clearVars, IInv, TypeOK
<1>1. RequestTypes'
  BY DEF RequestTypes, Pc, InitPc, StreamPc, Ended
<1>2. StoreTypes'
  BY HistoryFacts DEF StoreTypes, SendsOnly
<1>3. SendsOnly'
  BY DEF SendsOnly
<1>4. BeforeRow'
  BY DEF BeforeRow
<1>5. RowStages'
  BY DEF RowStages
<1>6. Installed'
  BY DEF Installed
<1>7. HistoryFollowsSession'
  BY DEF HistoryFollowsSession
<1>8. (CleanerTypes /\ MemTypes /\ Detached /\ ReadyMeansLoaded)'
  BY DEF CleanerTypes, MemTypes, Detached, ReadyMeansLoaded
<1> QED
  BY <1>1, <1>2, <1>3, <1>4, <1>5, <1>6, <1>7, <1>8

LEMMA FailStep ==
  ASSUME IInv, NEW r \in Requests, Fail(r)
  PROVE  IInv'
<1> USE DEF Fail, Leave, dbVars, memVars, clearVars, IInv, TypeOK
<1>1. RequestTypes'
  BY HistoryFacts DEF RequestTypes, Pc, InitPc, StreamPc, Ended
<1>2. MemTypes'
  BY DEF MemTypes
<1>3. SendsOnly'
  BY DEF SendsOnly, StreamPc
<1>4. BeforeRow'
  BY DEF BeforeRow, Ended
<1>5. RowStages'
  BY DEF RowStages
<1>6. Installed'
  BY DEF Installed
<1>7. HistoryFollowsSession'
  <2>1. \A q \in Requests : rpc[q] = "cacheLoaded" => rpc'[q] = rpc[q]
    BY DEF RequestTypes
  <2> QED
    BY <2>1 DEF HistoryFollowsSession
<1>8. StoreTypes'
  BY DEF StoreTypes
<1>9. (CleanerTypes /\ Detached /\ ReadyMeansLoaded)'
  BY DEF CleanerTypes, Detached, ReadyMeansLoaded
<1> QED
  BY <1>1, <1>2, <1>3, <1>4, <1>5, <1>6, <1>7, <1>8, <1>9

-----------------------------------------------------------------------------
(* Manager.handleInit.                                                     *)

LEMMA CreateSessionStep ==
  ASSUME IInv, NEW r \in Requests, CreateSession(r)
  PROVE  IInv'
<1> USE DEF CreateSession, Goto, GetState, GetStateOf, redisVars, memVars,
          clearVars, IInv, TypeOK
<1>1. RequestTypes'
  <2>1. current' \in Nat \ {0}
    BY GetStateFacts DEF MemTypes
  <2> QED
    BY <2>1 DEF RequestTypes, Pc, InitPc, StreamPc, Ended
<1>2. StoreTypes'
  BY DEF StoreTypes
<1>3. MemTypes'
  <2>1. /\ mem' \in Seq(UserState) /\ Len(mem') \in Nat
        /\ current' \in 1..Len(mem') /\ Len(mem') >= Len(mem)
    BY GetStateFacts
  <2>2. \A q \in Requests : at'[q] <= Len(mem')
    BY <2>1 DEF MemTypes, RequestTypes
  <2>3. \A c \in Cleaners : cleaner[c].state <= Len(mem')
    BY <2>1 DEF MemTypes, CleanerTypes, CleanerState
  <2> QED
    BY <2>1, <2>2, <2>3 DEF MemTypes
<1>4. SendsOnly'
  BY DEF SendsOnly, StreamPc
<1>5. BeforeRow'
  BY DEF BeforeRow
<1>6. RowStages'
  BY DEF RowStages, RequestTypes
<1>7. Installed'
  <2>1. row = "none"
    BY DEF RowStages
  <2>2. \A q \in Requests :
          rpc'[q] \notin {"setHistory", "cacheSession", "cacheLoaded",
               "markReady"}
    BY <2>1 DEF BeforeRow, RequestTypes
  <2> QED
    BY <2>2 DEF Installed
<1>8. Detached'
  BY DEF Detached, MemTypes
<1>9. ReadyMeansLoaded'
  <2>1. row = "none"
    BY DEF RowStages
  <2>2. CASE current = 0
    <3>1. mem'[current'] = NewState
      BY <2>2, GetStateFacts
    <3> QED
      BY <3>1 DEF ReadyMeansLoaded, NewState
  <2>3. CASE current # 0
    BY <2>1, <2>3 DEF ReadyMeansLoaded, BeforeRow, MemTypes
  <2> QED
    BY <2>2, <2>3
<1>10. HistoryFollowsSession'
  BY DEF HistoryFollowsSession
<1>11. (CleanerTypes)'
  BY DEF CleanerTypes
<1> QED
  BY <1>1, <1>2, <1>3, <1>4, <1>5, <1>6, <1>7, <1>8, <1>9, <1>10, <1>11

LEMMA StartInitStep ==
  ASSUME IInv, NEW r \in Requests, StartInit(r)
  PROVE  IInv'
<1> USE DEF StartInit, Goto, GetState, GetStateOf, dbVars, redisVars, memVars,
          clearVars, IInv, TypeOK
<1>1. RequestTypes'
  <2>1. current' \in Nat \ {0}
    BY GetStateFacts DEF MemTypes
  <2> QED
    BY <2>1 DEF RequestTypes, Pc, InitPc, StreamPc, Ended
<1>2. MemTypes'
  <2>1. /\ mem' \in Seq(UserState) /\ Len(mem') \in Nat
        /\ current' \in 1..Len(mem') /\ Len(mem') >= Len(mem)
    BY GetStateFacts
  <2>2. \A q \in Requests : at'[q] <= Len(mem')
    BY <2>1 DEF MemTypes, RequestTypes
  <2>3. \A c \in Cleaners : cleaner[c].state <= Len(mem')
    BY <2>1 DEF MemTypes, CleanerTypes, CleanerState
  <2> QED
    BY <2>1, <2>2, <2>3 DEF MemTypes
<1>3. SendsOnly'
  BY DEF SendsOnly, StreamPc
<1>4. BeforeRow'
  BY DEF BeforeRow
<1>5. RowStages'
  BY DEF RowStages
<1>6. Installed'
  BY DEF Installed, MemTypes
<1>7. Detached'
  BY DEF Detached, MemTypes
<1>8. ReadyMeansLoaded'
  BY DEF ReadyMeansLoaded, NewState
<1>9. HistoryFollowsSession'
  BY DEF HistoryFollowsSession
<1>10. (StoreTypes /\ CleanerTypes)'
  BY DEF StoreTypes, CleanerTypes
<1> QED
  BY <1>1, <1>2, <1>3, <1>4, <1>5, <1>6, <1>7, <1>8, <1>9, <1>10

LEMMA LoadSessionStep ==
  ASSUME IInv, NEW r \in Requests, LoadSession(r)
  PROVE  IInv'
<1> USE DEF dbVars, redisVars, memVars, clearVars, IInv, TypeOK
<1>a. PICK to \in {"loadHistory", "loadDatabase"} :
        /\ rpc[r] = "loadSession" /\ rpc' = [rpc EXCEPT ![r] = to]
        /\ UNCHANGED <<at, local, dbVars, redisVars, memVars, clearVars>>
        /\ Upset \/ UNCHANGED upsets
  BY DEF LoadSession, Goto
<1>1. RequestTypes'
  BY <1>a DEF RequestTypes, Pc, InitPc
<1>2. SendsOnly'
  BY <1>a DEF SendsOnly, StreamPc
<1>3. BeforeRow'
  BY <1>a DEF BeforeRow, Ended
<1>4. RowStages'
  BY <1>a DEF RowStages
<1>5. Installed'
  BY <1>a DEF Installed
<1>6. HistoryFollowsSession'
  BY <1>a DEF HistoryFollowsSession
<1>7. (CleanerTypes /\ MemTypes /\ Detached /\ ReadyMeansLoaded)'
  BY <1>a DEF CleanerTypes, MemTypes, Detached, ReadyMeansLoaded
<1>8. StoreTypes'
  BY <1>a, UpsetsBounded DEF StoreTypes
<1> QED
  BY <1>1, <1>2, <1>3, <1>4, <1>5, <1>6, <1>7, <1>8

LEMMA LoadHistoryStep ==
  ASSUME IInv, NEW r \in Requests, LoadHistory(r)
  PROVE  IInv'
<1> USE DEF LoadHistory, Goto, dbVars, redisVars, memVars, clearVars, IInv,
          TypeOK
<1>1. RequestTypes'
  <2>1. local' \in [Requests -> History]
    BY HistoryFacts DEF RequestTypes, StoreTypes
  <2> QED
    BY <2>1 DEF RequestTypes, Pc, InitPc, StreamPc, Ended
<1>2. SendsOnly'
  BY DEF SendsOnly, StreamPc
<1>3. BeforeRow'
  BY DEF BeforeRow, Ended
<1>4. RowStages'
  BY DEF RowStages
<1>5. Installed'
  BY DEF Installed
<1>6. HistoryFollowsSession'
  BY DEF HistoryFollowsSession
<1>7. (CleanerTypes /\ MemTypes /\ Detached /\ ReadyMeansLoaded)'
  BY DEF CleanerTypes, MemTypes, Detached, ReadyMeansLoaded
<1>8. StoreTypes'
  BY UpsetsBounded DEF StoreTypes
<1> QED
  BY <1>1, <1>2, <1>3, <1>4, <1>5, <1>6, <1>7, <1>8

LEMMA LoadDatabaseStep ==
  ASSUME IInv, NEW r \in Requests, LoadDatabase(r)
  PROVE  IInv'
<1> USE DEF LoadDatabase, Goto, dbVars, redisVars, memVars, clearVars, IInv,
          TypeOK
<1>1. RequestTypes'
  <2>1. local' \in [Requests -> History]
    BY HistoryFacts DEF RequestTypes, StoreTypes
  <2> QED
    BY <2>1 DEF RequestTypes, Pc, InitPc, StreamPc, Ended
<1>2. SendsOnly'
  BY DEF SendsOnly, StreamPc
<1>3. BeforeRow'
  BY DEF BeforeRow
<1>4. RowStages'
  BY DEF RowStages
<1>5. Installed'
  BY DEF Installed
<1>6. HistoryFollowsSession'
  BY DEF HistoryFollowsSession
<1>7. (StoreTypes /\ CleanerTypes /\ MemTypes /\ Detached /\ ReadyMeansLoaded)'
  BY DEF StoreTypes, CleanerTypes, MemTypes, Detached, ReadyMeansLoaded
<1> QED
  BY <1>1, <1>2, <1>3, <1>4, <1>5, <1>6, <1>7

LEMMA SetSessionStep ==
  ASSUME IInv, NEW r \in Requests, SetSession(r)
  PROVE  IInv'
<1> USE DEF SetSession, Goto, dbVars, redisVars, clearVars, IInv, TypeOK
<1>1. RequestTypes'
  BY DEF RequestTypes, Pc, InitPc
<1>2. MemTypes'
  <2>1. rpc[r] \in InitPc \cup StreamPc
    BY DEF InitPc, StreamPc
  <2>2. mem[at[r]] \in UserState
    BY <2>1, HeldState
  <2>3. PICK s \in UserState : mem' = [mem EXCEPT ![at[r]] = s]
    <3>1. [mem[at[r]] EXCEPT !.session = TRUE] \in UserState
      BY <2>2 DEF UserState
    <3> QED
      BY <3>1
  <2>4. mem' \in Seq(UserState) /\ Len(mem') = Len(mem)
    BY <2>1, <2>3, HeldStateSet
  <2> QED
    BY <2>4 DEF MemTypes, RequestTypes
<1>3. SendsOnly'
  BY DEF SendsOnly, StreamPc
<1>4. BeforeRow'
  BY DEF BeforeRow, Ended
<1>5. RowStages'
  BY DEF RowStages
<1>6. Installed'
  BY DEF Installed, RequestTypes, MemTypes, InitPc
<1>7. ReadyMeansLoaded'
  BY DEF ReadyMeansLoaded
<1>8. HistoryFollowsSession'
  BY DEF HistoryFollowsSession
<1>9. (StoreTypes /\ CleanerTypes /\ Detached)'
  BY DEF StoreTypes, CleanerTypes, Detached
<1> QED
  BY <1>1, <1>2, <1>3, <1>4, <1>5, <1>6, <1>7, <1>8, <1>9

LEMMA SetHistoryStep ==
  ASSUME IInv, NEW r \in Requests, SetHistory(r)
  PROVE  IInv'
<1> USE DEF SetHistory, Goto, dbVars, redisVars, clearVars, IInv, TypeOK
<1>1. RequestTypes'
  BY DEF RequestTypes, Pc, InitPc
<1>2. MemTypes'
  <2>1. rpc[r] \in InitPc \cup StreamPc
    BY DEF InitPc, StreamPc
  <2>2. mem[at[r]] \in UserState
    BY <2>1, HeldState
  <2>3. PICK s \in UserState : mem' = [mem EXCEPT ![at[r]] = s]
    <3>1. [mem[at[r]] EXCEPT !.history = local[r]] \in UserState
      BY <2>2 DEF UserState, RequestTypes
    <3> QED
      BY <3>1
  <2>4. mem' \in Seq(UserState) /\ Len(mem') = Len(mem)
    BY <2>1, <2>3, HeldStateSet
  <2> QED
    BY <2>4 DEF MemTypes, RequestTypes
<1>3. SendsOnly'
  BY DEF SendsOnly, StreamPc
<1>4. BeforeRow'
  BY DEF BeforeRow, Ended
<1>5. RowStages'
  BY DEF RowStages
<1>6. Installed'
  BY DEF Installed
<1>7. ReadyMeansLoaded'
  BY DEF ReadyMeansLoaded
<1>8. HistoryFollowsSession'
  BY DEF HistoryFollowsSession
<1>9. (StoreTypes /\ CleanerTypes /\ Detached)'
  BY DEF StoreTypes, CleanerTypes, Detached
<1> QED
  BY <1>1, <1>2, <1>3, <1>4, <1>5, <1>6, <1>7, <1>8, <1>9

LEMMA CacheSessionStep ==
  ASSUME IInv, NEW r \in Requests, CacheSession(r)
  PROVE  IInv'
<1> USE DEF CacheSession, Goto, dbVars, memVars, clearVars, IInv, TypeOK
<1>1. RequestTypes'
  BY DEF RequestTypes, Pc, InitPc
<1>2. StoreTypes'
  BY UpsetsBounded DEF StoreTypes
<1>3. SendsOnly'
  BY DEF SendsOnly, StreamPc
<1>4. BeforeRow'
  BY DEF BeforeRow, Ended
<1>5. RowStages'
  BY DEF RowStages
<1>6. Installed'
  BY DEF Installed
<1>7. HistoryFollowsSession'
  BY DEF HistoryFollowsSession, RequestTypes
<1>8. (CleanerTypes /\ MemTypes /\ Detached /\ ReadyMeansLoaded)'
  BY DEF CleanerTypes, MemTypes, Detached, ReadyMeansLoaded
<1> QED
  BY <1>1, <1>2, <1>3, <1>4, <1>5, <1>6, <1>7, <1>8

LEMMA CacheLoadedStep ==
  ASSUME IInv, NEW r \in Requests, CacheLoaded(r)
  PROVE  IInv'
<1> USE DEF CacheLoaded, Goto, dbVars, memVars, clearVars, IInv, TypeOK
<1>1. RequestTypes'
  BY DEF RequestTypes, Pc, InitPc
<1>2. StoreTypes'
  BY CacheHistoryFacts
<1>3. SendsOnly'
  BY DEF SendsOnly, StreamPc
<1>4. BeforeRow'
  BY DEF BeforeRow, Ended
<1>5. RowStages'
  BY DEF RowStages
<1>6. Installed'
  BY DEF Installed
<1>7. HistoryFollowsSession'
  BY CacheHistoryFacts DEF HistoryFollowsSession, RequestTypes
<1>8. (CleanerTypes /\ MemTypes /\ Detached /\ ReadyMeansLoaded)'
  BY DEF CleanerTypes, MemTypes, Detached, ReadyMeansLoaded
<1> QED
  BY <1>1, <1>2, <1>3, <1>4, <1>5, <1>6, <1>7, <1>8

LEMMA MarkReadyStep ==
  ASSUME IInv, NEW r \in Requests, MarkReady(r)
  PROVE  IInv'
<1> USE DEF MarkReady, Goto, Leave, dbVars, redisVars, clearVars, IInv, TypeOK
<1>1. RequestTypes'
  BY HistoryFacts DEF RequestTypes, Pc, InitPc, StreamPc, Ended
<1>2. MemTypes'
  <2>1. rpc[r] \in InitPc \cup StreamPc
    BY DEF InitPc, StreamPc
  <2>2. mem[at[r]] \in UserState
    BY <2>1, HeldState
  <2>3. PICK s \in UserState : mem' = [mem EXCEPT ![at[r]] = s]
    <3>1. [mem[at[r]] EXCEPT !.ready = TRUE] \in UserState
      BY <2>2 DEF UserState
    <3> QED
      BY <3>1
  <2>4. mem' \in Seq(UserState) /\ Len(mem') = Len(mem)
    BY <2>1, <2>3, HeldStateSet
  <2> QED
    BY <2>4 DEF MemTypes, RequestTypes
<1>3. SendsOnly'
  BY DEF SendsOnly, StreamPc
<1>4. BeforeRow'
  BY DEF BeforeRow, Ended
<1>5. RowStages'
  BY DEF RowStages
<1>6. Installed'
  BY DEF Installed, RequestTypes
<1>7. ReadyMeansLoaded'
  BY DEF ReadyMeansLoaded, Installed
<1>8. HistoryFollowsSession'
  BY DEF HistoryFollowsSession
<1>9. (StoreTypes /\ CleanerTypes /\ Detached)'
  BY DEF StoreTypes, CleanerTypes, Detached
<1> QED
  BY <1>1, <1>2, <1>3, <1>4, <1>5, <1>6, <1>7, <1>8, <1>9

-----------------------------------------------------------------------------
(* Manager.handleStream.                                                   *)

LEMMA StartStreamStep ==
  ASSUME IInv, NEW r \in Requests, StartStream(r)
  PROVE  IInv'
<1> USE DEF StartStream, Goto, GetState, GetStateOf, dbVars, redisVars,
          memVars, clearVars, IInv, TypeOK
<1>1. RequestTypes'
  <2>1. current' \in Nat \ {0}
    BY GetStateFacts DEF MemTypes
  <2> QED
    BY <2>1 DEF RequestTypes, Pc, InitPc, StreamPc, Ended
<1>2. MemTypes'
  <2>1. /\ mem' \in Seq(UserState) /\ Len(mem') \in Nat
        /\ current' \in 1..Len(mem') /\ Len(mem') >= Len(mem)
    BY GetStateFacts
  <2>2. \A q \in Requests : at'[q] <= Len(mem')
    BY <2>1 DEF MemTypes, RequestTypes
  <2>3. \A c \in Cleaners : cleaner[c].state <= Len(mem')
    BY <2>1 DEF MemTypes, CleanerTypes, CleanerState
  <2> QED
    BY <2>1, <2>2, <2>3 DEF MemTypes
<1>3. SendsOnly'
  BY DEF SendsOnly
<1>4. BeforeRow'
  BY DEF BeforeRow, Ended
<1>5. RowStages'
  BY DEF RowStages
<1>6. Installed'
  BY DEF Installed, MemTypes
<1>7. Detached'
  BY DEF Detached, MemTypes
<1>8. ReadyMeansLoaded'
  BY DEF ReadyMeansLoaded, NewState
<1>9. HistoryFollowsSession'
  BY DEF HistoryFollowsSession
<1>10. (StoreTypes /\ CleanerTypes)'
  BY DEF StoreTypes, CleanerTypes
<1> QED
  BY <1>1, <1>2, <1>3, <1>4, <1>5, <1>6, <1>7, <1>8, <1>9, <1>10

LEMMA ReadHistoryStep ==
  ASSUME IInv, NEW r \in Requests, ReadHistory(r)
  PROVE  IInv'
<1> USE DEF ReadHistory, Goto, dbVars, redisVars, memVars, clearVars, IInv,
          TypeOK
<1>1. RequestTypes'
  <2>1. mem[at[r]].history \in History
    BY HeldState DEF InitPc, StreamPc
  <2>2. local' \in [Requests -> History]
    BY <2>1 DEF RequestTypes
  <2> QED
    BY <2>2 DEF RequestTypes, Pc, InitPc, StreamPc, Ended
<1>2. SendsOnly'
  BY DEF SendsOnly, StreamPc
<1>3. BeforeRow'
  BY DEF BeforeRow, Ended
<1>4. RowStages'
  BY DEF RowStages
<1>5. Installed'
  BY DEF Installed
<1>6. HistoryFollowsSession'
  BY DEF HistoryFollowsSession
<1>7. (StoreTypes /\ CleanerTypes /\ MemTypes /\ Detached /\ ReadyMeansLoaded)'
  BY DEF StoreTypes, CleanerTypes, MemTypes, Detached, ReadyMeansLoaded
<1> QED
  BY <1>1, <1>2, <1>3, <1>4, <1>5, <1>6, <1>7

LEMMA StoreTitleStep ==
  ASSUME IInv, NEW r \in Requests, StoreTitle(r)
  PROVE  IInv'
<1> USE DEF StoreTitle, Goto, redisVars, memVars, clearVars, IInv, TypeOK
<1>1. RequestTypes'
  BY DEF RequestTypes, Pc, StreamPc
<1>2. StoreTypes'
  BY DEF StoreTypes, SendsOnly, StreamPc
<1>3. SendsOnly'
  BY DEF SendsOnly, StreamPc
<1>4. BeforeRow'
  BY DEF BeforeRow
<1>5. RowStages'
  BY DEF RowStages
<1>6. Installed'
  BY DEF Installed
<1>7. HistoryFollowsSession'
  BY DEF HistoryFollowsSession
<1>8. (CleanerTypes /\ MemTypes /\ Detached /\ ReadyMeansLoaded)'
  BY DEF CleanerTypes, MemTypes, Detached, ReadyMeansLoaded
<1> QED
  BY <1>1, <1>2, <1>3, <1>4, <1>5, <1>6, <1>7, <1>8

LEMMA StoreSummaryStep ==
  ASSUME IInv, NEW r \in Requests, StoreSummary(r)
  PROVE  IInv'
<1> USE DEF StoreSummary, Goto, redisVars, memVars, clearVars, IInv, TypeOK
<1>1. RequestTypes'
  BY DEF RequestTypes, Pc, StreamPc
<1>2. StoreTypes'
  <2>1. messages' \in History
    BY HistoryFacts DEF StoreTypes, SendsOnly, StreamPc
  <2> QED
    BY <2>1 DEF StoreTypes
<1>3. SendsOnly'
  BY DEF SendsOnly, StreamPc
<1>4. BeforeRow'
  BY DEF BeforeRow
<1>5. RowStages'
  BY DEF RowStages
<1>6. Installed'
  BY DEF Installed
<1>7. HistoryFollowsSession'
  BY DEF HistoryFollowsSession
<1>8. (CleanerTypes /\ MemTypes /\ Detached /\ ReadyMeansLoaded)'
  BY DEF CleanerTypes, MemTypes, Detached, ReadyMeansLoaded
<1> QED
  BY <1>1, <1>2, <1>3, <1>4, <1>5, <1>6, <1>7, <1>8

LEMMA KeepSummaryStep ==
  ASSUME IInv, NEW r \in Requests, KeepSummary(r)
  PROVE  IInv'
<1> USE DEF KeepSummary, Goto, dbVars, redisVars, clearVars, IInv, TypeOK
<1>1. RequestTypes'
  <2>1. local' \in [Requests -> History]
    BY HistoryFacts DEF RequestTypes, SendsOnly, StreamPc
  <2> QED
    BY <2>1 DEF RequestTypes, Pc, InitPc, StreamPc, Ended
<1>2. MemTypes'
  <2>1. rpc[r] \in InitPc \cup StreamPc
    BY DEF InitPc, StreamPc
  <2>2. mem[at[r]] \in UserState
    BY <2>1, HeldState
  <2>3. PICK s \in UserState : mem' = [mem EXCEPT ![at[r]] = s]
    <3>1. Append(mem[at[r]].history, Summary(r)) \in History
      BY <2>1, HeldState, HistoryFacts DEF SendsOnly, StreamPc
    <3>2. [mem[at[r]] EXCEPT !.history = Append(@, Summary(r))] \in UserState
      BY <2>2, <3>1 DEF UserState
    <3> QED
      BY <3>2
  <2>4. mem' \in Seq(UserState) /\ Len(mem') = Len(mem)
    BY <2>1, <2>3, HeldStateSet
  <2> QED
    BY <2>4 DEF MemTypes, RequestTypes
<1>3. SendsOnly'
  BY DEF SendsOnly, StreamPc
<1>4. BeforeRow'
  BY DEF BeforeRow, Ended
<1>5. RowStages'
  BY DEF RowStages
<1>6. Installed'
  BY DEF Installed
<1>7. ReadyMeansLoaded'
  BY DEF ReadyMeansLoaded
<1>8. HistoryFollowsSession'
  BY DEF HistoryFollowsSession
<1>9. (StoreTypes /\ CleanerTypes /\ Detached)'
  BY DEF StoreTypes, CleanerTypes, Detached
<1> QED
  BY <1>1, <1>2, <1>3, <1>4, <1>5, <1>6, <1>7, <1>8, <1>9

LEMMA SetSummariesStep ==
  ASSUME IInv, NEW r \in Requests, SetSummaries(r)
  PROVE  IInv'
<1> USE DEF SetSummaries, Goto, dbVars, redisVars, clearVars, IInv, TypeOK
<1>1. RequestTypes'
  BY DEF RequestTypes, Pc, StreamPc
<1>2. MemTypes'
  <2>1. rpc[r] \in InitPc \cup StreamPc
    BY DEF InitPc, StreamPc
  <2>2. mem[at[r]] \in UserState
    BY <2>1, HeldState
  <2>3. PICK s \in UserState : mem' = [mem EXCEPT ![at[r]] = s]
    <3>1. local[r] \in History
      BY DEF RequestTypes
    <3>2. [mem[at[r]] EXCEPT !.history = local[r]] \in UserState
      BY <2>2, <3>1 DEF UserState
    <3> QED
      BY <3>2
  <2>4. mem' \in Seq(UserState) /\ Len(mem') = Len(mem)
    BY <2>1, <2>3, HeldStateSet
  <2> QED
    BY <2>4 DEF MemTypes, RequestTypes
<1>3. SendsOnly'
  BY DEF SendsOnly, StreamPc
<1>4. BeforeRow'
  BY DEF BeforeRow, Ended
<1>5. RowStages'
  BY DEF RowStages
<1>6. Installed'
  BY DEF Installed
<1>7. ReadyMeansLoaded'
  BY DEF ReadyMeansLoaded
<1>8. HistoryFollowsSession'
  BY DEF HistoryFollowsSession
<1>9. (StoreTypes /\ CleanerTypes /\ Detached)'
  BY DEF StoreTypes, CleanerTypes, Detached
<1> QED
  BY <1>1, <1>2, <1>3, <1>4, <1>5, <1>6, <1>7, <1>8, <1>9

LEMMA CacheSummariesStep ==
  ASSUME IInv, NEW r \in Requests, CacheSummaries(r)
  PROVE  IInv'
<1> USE DEF CacheSummaries, Goto, dbVars, memVars, clearVars, IInv, TypeOK
<1>1. RequestTypes'
  BY DEF RequestTypes, Pc, StreamPc
<1>2. StoreTypes'
  BY CacheHistoryFacts
<1>3. SendsOnly'
  BY DEF SendsOnly, StreamPc
<1>4. BeforeRow'
  BY DEF BeforeRow, Ended
<1>5. RowStages'
  BY DEF RowStages
<1>6. Installed'
  BY DEF Installed
<1>7. HistoryFollowsSession'
  BY CacheHistoryFacts DEF HistoryFollowsSession, RequestTypes
<1>8. (CleanerTypes /\ MemTypes /\ Detached /\ ReadyMeansLoaded)'
  BY DEF CleanerTypes, MemTypes, Detached, ReadyMeansLoaded
<1> QED
  BY <1>1, <1>2, <1>3, <1>4, <1>5, <1>6, <1>7, <1>8

LEMMA AddQuestionStep ==
  ASSUME IInv, NEW r \in Requests, AddQuestion(r)
  PROVE  IInv'
<1> USE DEF AddQuestion, Goto, dbVars, redisVars, clearVars, IInv, TypeOK
<1>h. Append(local[r], Question(r)) \in History
  BY HistoryFacts DEF RequestTypes, SendsOnly, StreamPc
<1>1. RequestTypes'
  <2>1. local' \in [Requests -> History]
    BY <1>h DEF RequestTypes
  <2> QED
    BY <2>1 DEF RequestTypes, Pc, InitPc, StreamPc, Ended
<1>2. MemTypes'
  <2>1. rpc[r] \in InitPc \cup StreamPc
    BY DEF InitPc, StreamPc
  <2>2. mem[at[r]] \in UserState
    BY <2>1, HeldState
  <2>3. PICK s \in UserState : mem' = [mem EXCEPT ![at[r]] = s]
    <3>1. [mem[at[r]] EXCEPT !.history = Append(local[r], Question(r))] \in UserState
      BY <2>2, <1>h DEF UserState
    <3> QED
      BY <3>1
  <2>4. mem' \in Seq(UserState) /\ Len(mem') = Len(mem)
    BY <2>1, <2>3, HeldStateSet
  <2> QED
    BY <2>4 DEF MemTypes, RequestTypes
<1>3. SendsOnly'
  BY DEF SendsOnly, StreamPc
<1>4. BeforeRow'
  BY DEF BeforeRow, Ended
<1>5. RowStages'
  BY DEF RowStages
<1>6. Installed'
  BY DEF Installed
<1>7. ReadyMeansLoaded'
  BY DEF ReadyMeansLoaded
<1>8. HistoryFollowsSession'
  BY DEF HistoryFollowsSession
<1>9. (StoreTypes /\ CleanerTypes /\ Detached)'
  BY DEF StoreTypes, CleanerTypes, Detached
<1> QED
  BY <1>1, <1>2, <1>3, <1>4, <1>5, <1>6, <1>7, <1>8, <1>9

LEMMA CacheQuestionStep ==
  ASSUME IInv, NEW r \in Requests, CacheQuestion(r)
  PROVE  IInv'
<1> USE DEF CacheQuestion, Goto, dbVars, memVars, clearVars, IInv, TypeOK
<1>1. RequestTypes'
  BY DEF RequestTypes, Pc, StreamPc
<1>2. StoreTypes'
  BY CacheHistoryFacts
<1>3. SendsOnly'
  BY DEF SendsOnly, StreamPc
<1>4. BeforeRow'
  BY DEF BeforeRow, Ended
<1>5. RowStages'
  BY DEF RowStages
<1>6. Installed'
  BY DEF Installed
<1>7. HistoryFollowsSession'
  BY CacheHistoryFacts DEF HistoryFollowsSession, RequestTypes
<1>8. (CleanerTypes /\ MemTypes /\ Detached /\ ReadyMeansLoaded)'
  BY DEF CleanerTypes, MemTypes, Detached, ReadyMeansLoaded
<1> QED
  BY <1>1, <1>2, <1>3, <1>4, <1>5, <1>6, <1>7, <1>8

LEMMA StreamChatStep ==
  ASSUME IInv, NEW r \in Requests, StreamChat(r)
  PROVE  IInv'
<1> USE DEF StreamChat, Goto, dbVars, redisVars, memVars, clearVars, IInv,
          TypeOK
<1>1. RequestTypes'
  BY DEF RequestTypes, Pc, StreamPc
<1>2. SendsOnly'
  BY DEF SendsOnly, StreamPc
<1>3. BeforeRow'
  BY DEF BeforeRow, Ended
<1>4. RowStages'
  BY DEF RowStages
<1>5. Installed'
  BY DEF Installed
<1>6. HistoryFollowsSession'
  BY DEF HistoryFollowsSession
<1>7. (StoreTypes /\ CleanerTypes /\ MemTypes /\ Detached /\ ReadyMeansLoaded)'
  BY DEF StoreTypes, CleanerTypes, MemTypes, Detached, ReadyMeansLoaded
<1> QED
  BY <1>1, <1>2, <1>3, <1>4, <1>5, <1>6, <1>7

LEMMA AppendAnswerStep ==
  ASSUME IInv, NEW r \in Requests, AppendAnswer(r)
  PROVE  IInv'
<1> USE DEF AppendAnswer, Goto, dbVars, redisVars, clearVars, IInv, TypeOK
<1>1. RequestTypes'
  BY DEF RequestTypes, Pc, StreamPc
<1>2. MemTypes'
  <2>1. rpc[r] \in InitPc \cup StreamPc
    BY DEF InitPc, StreamPc
  <2>2. mem[at[r]] \in UserState
    BY <2>1, HeldState
  <2>3. PICK s \in UserState : mem' = [mem EXCEPT ![at[r]] = s]
    <3>1. Append(mem[at[r]].history, Answer(r)) \in History
      BY <2>1, HeldState, HistoryFacts DEF SendsOnly, StreamPc
    <3>2. [mem[at[r]] EXCEPT !.history = Append(@, Answer(r))] \in UserState
      BY <2>2, <3>1 DEF UserState
    <3> QED
      BY <3>2
  <2>4. mem' \in Seq(UserState) /\ Len(mem') = Len(mem)
    BY <2>1, <2>3, HeldStateSet
  <2> QED
    BY <2>4 DEF MemTypes, RequestTypes
<1>3. SendsOnly'
  BY DEF SendsOnly, StreamPc
<1>4. BeforeRow'
  BY DEF BeforeRow, Ended
<1>5. RowStages'
  BY DEF RowStages
<1>6. Installed'
  BY DEF Installed
<1>7. ReadyMeansLoaded'
  BY DEF ReadyMeansLoaded
<1>8. HistoryFollowsSession'
  BY DEF HistoryFollowsSession
<1>9. (StoreTypes /\ CleanerTypes /\ Detached)'
  BY DEF StoreTypes, CleanerTypes, Detached
<1> QED
  BY <1>1, <1>2, <1>3, <1>4, <1>5, <1>6, <1>7, <1>8, <1>9

LEMMA ReadBackStep ==
  ASSUME IInv, NEW r \in Requests, ReadBack(r)
  PROVE  IInv'
<1> USE DEF ReadBack, Goto, dbVars, redisVars, memVars, clearVars, IInv, TypeOK
<1>1. RequestTypes'
  <2>1. mem[at[r]].history \in History
    BY HeldState DEF InitPc, StreamPc
  <2>2. local' \in [Requests -> History]
    BY <2>1 DEF RequestTypes
  <2> QED
    BY <2>2 DEF RequestTypes, Pc, InitPc, StreamPc, Ended
<1>2. SendsOnly'
  BY DEF SendsOnly, StreamPc
<1>3. BeforeRow'
  BY DEF BeforeRow, Ended
<1>4. RowStages'
  BY DEF RowStages
<1>5. Installed'
  BY DEF Installed
<1>6. HistoryFollowsSession'
  BY DEF HistoryFollowsSession
<1>7. (StoreTypes /\ CleanerTypes /\ MemTypes /\ Detached /\ ReadyMeansLoaded)'
  BY DEF StoreTypes, CleanerTypes, MemTypes, Detached, ReadyMeansLoaded
<1> QED
  BY <1>1, <1>2, <1>3, <1>4, <1>5, <1>6, <1>7

LEMMA CacheAnswerStep ==
  ASSUME IInv, NEW r \in Requests, CacheAnswer(r)
  PROVE  IInv'
<1> USE DEF CacheAnswer, Goto, Leave, dbVars, memVars, clearVars, IInv, TypeOK
<1>1. RequestTypes'
  BY HistoryFacts DEF RequestTypes, Pc, InitPc, StreamPc
<1>2. StoreTypes'
  BY CacheHistoryFacts
<1>3. MemTypes'
  BY DEF MemTypes
<1>4. SendsOnly'
  BY DEF SendsOnly, StreamPc
<1>5. BeforeRow'
  BY DEF BeforeRow, Ended
<1>6. RowStages'
  BY DEF RowStages
<1>7. Installed'
  BY DEF Installed
<1>8. HistoryFollowsSession'
  BY CacheHistoryFacts DEF HistoryFollowsSession, RequestTypes
<1>9. (CleanerTypes /\ Detached /\ ReadyMeansLoaded)'
  BY DEF CleanerTypes, Detached, ReadyMeansLoaded
<1> QED
  BY <1>1, <1>2, <1>3, <1>4, <1>5, <1>6, <1>7, <1>8, <1>9

-----------------------------------------------------------------------------
(* What clears the copies.                                                 *)

LEMMA CancelUserStep ==
  ASSUME IInv, NEW c \in Cleaners, CancelUser(c)
  PROVE  IInv'
<1> USE DEF CancelUser, Goto, Clean, AfterDel, dbVars, redisVars, memVars,
          IInv, TypeOK
<1>1. RequestTypes'
  BY DEF RequestTypes, Pc, InitPc, StreamPc, Ended
<1>2. CleanerTypes'
  BY DEF CleanerTypes, CleanerState
<1>3. MemTypes'
  BY DEF MemTypes, CleanerTypes, CleanerState
<1>4. SendsOnly'
  BY DEF SendsOnly, RequestTypes, StreamPc
<1>5. BeforeRow'
  BY DEF BeforeRow, RequestTypes, Requests, Ended
<1>6. RowStages'
  BY DEF RowStages, Requests, RequestTypes, CleanerTypes, Cleaners
<1>7. Installed'
  BY DEF Installed, RequestTypes
<1>8. Detached'
  BY DEF Detached, CleanerTypes, CleanerState, Cleaners
<1>9. HistoryFollowsSession'
  BY DEF HistoryFollowsSession, RequestTypes
<1>10. (StoreTypes /\ ReadyMeansLoaded)'
  BY DEF StoreTypes, ReadyMeansLoaded
<1> QED
  BY <1>1, <1>2, <1>3, <1>4, <1>5, <1>6, <1>7, <1>8, <1>9, <1>10

LEMMA ClearStateStep ==
  ASSUME IInv, NEW c \in Cleaners, ClearState(c)
  PROVE  IInv'
<1> USE DEF ClearState, AfterDel, dbVars, redisVars, IInv, TypeOK
<1>1. CleanerTypes'
  BY DEF CleanerTypes, CleanerState
<1>2. MemTypes'
  <2>1. cleaner[c].state \in 1..Len(mem) /\ mem \in Seq(UserState)
    BY DEF CleanerTypes, CleanerState, MemTypes
  <2>2. mem' \in Seq(UserState) /\ Len(mem') = Len(mem)
    BY <2>1, SetState, NewStateType
  <2> QED
    BY <2>2 DEF MemTypes, CleanerTypes, CleanerState
<1>3. BeforeRow'
  BY DEF BeforeRow, NewState
<1>4. RowStages'
  BY DEF RowStages
<1>5. Installed'
  BY DEF Installed, Detached, MemTypes
<1>6. Detached'
  BY DEF Detached
<1>7. ReadyMeansLoaded'
  BY DEF ReadyMeansLoaded, Detached
<1>8. (RequestTypes /\ StoreTypes /\ SendsOnly /\ HistoryFollowsSession)'
  BY DEF RequestTypes, StoreTypes, SendsOnly, HistoryFollowsSession
<1> QED
  BY <1>1, <1>2, <1>3, <1>4, <1>5, <1>6, <1>7, <1>8

LEMMA InvalidateSessionStep ==
  ASSUME IInv, NEW c \in Cleaners, InvalidateSession(c)
  PROVE  IInv'
<1> USE DEF InvalidateSession, Clean, AfterDel, dbVars, memVars, IInv, TypeOK
<1>1. StoreTypes'
  BY UpsetsBounded DEF StoreTypes
<1>2. CleanerTypes'
  BY DEF CleanerTypes, CleanerState
<1>3. MemTypes'
  BY DEF MemTypes
<1>4. RowStages'
  BY DEF RowStages
<1>5. Detached'
  BY DEF Detached
<1>6. HistoryFollowsSession'
  BY DEF HistoryFollowsSession
<1>7. (RequestTypes /\ SendsOnly /\ BeforeRow /\ Installed /\ ReadyMeansLoaded)'
  BY DEF RequestTypes, SendsOnly, BeforeRow, Installed, ReadyMeansLoaded
<1> QED
  BY <1>1, <1>2, <1>3, <1>4, <1>5, <1>6, <1>7

LEMMA PublishStep ==
  ASSUME IInv, NEW c \in Cleaners, Publish(c)
  PROVE  IInv'
<1> USE DEF Publish, Clean, dbVars, redisVars, memVars, IInv, TypeOK
<1>1. CleanerTypes'
  <2>1. echoes' \in Seq({"user", "session"})
    BY DEF CleanerTypes
  <2> QED
    BY <2>1 DEF CleanerTypes, CleanerState
<1>2. MemTypes'
  BY DEF MemTypes
<1>3. RowStages'
  BY DEF RowStages
<1>4. Detached'
  BY DEF Detached
<1>5. (RequestTypes /\ SendsOnly /\ BeforeRow /\ Installed /\ ReadyMeansLoaded /\ HistoryFollowsSession)'
  BY DEF RequestTypes, SendsOnly, BeforeRow, Installed,
       ReadyMeansLoaded, HistoryFollowsSession
<1>6. StoreTypes'
  BY UpsetsBounded DEF StoreTypes
<1> QED
  BY <1>1, <1>2, <1>3, <1>4, <1>5, <1>6

LEMMA ResetUserStep ==
  ASSUME IInv, ResetUser
  PROVE  IInv'
<1> USE DEF ResetUser, Detach, Upset, dbVars, redisVars, IInv, TypeOK
<1>1. StoreTypes'
  <2>1. upsets' \in 0..MaxUpsets
    BY SessionCacheAssumption DEF StoreTypes
  <2> QED
    BY <2>1 DEF StoreTypes
<1>2. CleanerTypes'
  <2>1. current \in Nat
    BY DEF MemTypes
  <2> QED
    BY <2>1 DEF CleanerTypes, Cleaners, CleanerState
<1>3. MemTypes'
  BY DEF MemTypes
<1>4. RowStages'
  BY DEF RowStages
<1>5. Installed'
  BY DEF Installed, RequestTypes, InitPc
<1>6. Detached'
  BY DEF Detached
<1>7. ReadyMeansLoaded'
  BY DEF ReadyMeansLoaded
<1>8. (RequestTypes /\ SendsOnly /\ BeforeRow /\ HistoryFollowsSession)'
  BY DEF RequestTypes, SendsOnly, BeforeRow, HistoryFollowsSession
<1> QED
  BY <1>1, <1>2, <1>3, <1>4, <1>5, <1>6, <1>7, <1>8

LEMMA DeleteSessionStep ==
  ASSUME IInv, DeleteSession
  PROVE  IInv'
<1> USE DEF DeleteSession, Clean, Upset, redisVars, memVars, IInv, TypeOK
<1>1. StoreTypes'
  <2>1. upsets' \in 0..MaxUpsets
    BY SessionCacheAssumption DEF StoreTypes
  <2> QED
    BY <2>1, HistoryFacts DEF StoreTypes
<1>2. CleanerTypes'
  BY DEF CleanerTypes, CleanerState
<1>3. MemTypes'
  BY DEF MemTypes
<1>4. BeforeRow'
  BY DEF BeforeRow
<1>5. RowStages'
  BY DEF RowStages
<1>6. Installed'
  BY DEF Installed
<1>7. Detached'
  BY DEF Detached
<1>8. ReadyMeansLoaded'
  BY DEF ReadyMeansLoaded
<1>9. (RequestTypes /\ SendsOnly /\ HistoryFollowsSession)'
  BY DEF RequestTypes, SendsOnly, HistoryFollowsSession
<1> QED
  BY <1>1, <1>2, <1>3, <1>4, <1>5, <1>6, <1>7, <1>8, <1>9

LEMMA PurgeStep ==
  ASSUME IInv, Purge
  PROVE  IInv'
<1> USE DEF Purge, Clean, PurgedMem, dbVars, redisVars, IInv, TypeOK
<1>1. CleanerTypes'
  BY DEF CleanerTypes, CleanerState
<1>2. MemTypes'
  <2>1. mem' \in Seq(UserState) /\ Len(mem') = Len(mem)
    <3>1. CASE current = 0
      BY <3>1 DEF MemTypes
    <3>2. CASE current # 0
      BY <3>2, SetState, NewStateType DEF MemTypes
    <3> QED
      BY <3>1, <3>2
  <2> QED
    BY <2>1 DEF MemTypes, CleanerTypes, CleanerState
<1>3. BeforeRow'
  BY DEF BeforeRow, RowStages
<1>4. RowStages'
  BY DEF RowStages
<1>5. Installed'
  BY DEF Installed, RowStages
<1>6. Detached'
  BY DEF Detached
<1>7. ReadyMeansLoaded'
  BY DEF ReadyMeansLoaded, RowStages
<1>8. (RequestTypes /\ StoreTypes /\ SendsOnly /\ HistoryFollowsSession)'
  BY DEF RequestTypes, StoreTypes, SendsOnly, HistoryFollowsSession
<1> QED
  BY <1>1, <1>2, <1>3, <1>4, <1>5, <1>6, <1>7, <1>8

LEMMA DeliverStep ==
  ASSUME IInv, Deliver
  PROVE  IInv'
<1> USE DEF Deliver, Clean, Detach, PurgedMem, dbVars, redisVars, IInv, TypeOK
<1>1. CleanerTypes'
  <2>1. current \in Nat
    BY DEF MemTypes
  <2>2. echoes' \in Seq({"user", "session"})
    BY DEF CleanerTypes
  <2>3. CASE cleaner' = [cleaner EXCEPT !["listener"] = [pc |-> "cancel", state |-> current]]
    BY <2>1, <2>2, <2>3 DEF CleanerTypes, Cleaners, CleanerState
  <2>4. CASE cleaner' = [cleaner EXCEPT !["listener"].pc = "del"]
    BY <2>1, <2>2, <2>4 DEF CleanerTypes, Cleaners, CleanerState
  <2> QED
    BY <2>3, <2>4
<1>2. MemTypes'
  <2>1. mem' \in Seq(UserState) /\ Len(mem') = Len(mem)
    <3>1. CASE current = 0 \/ mem' = mem
      BY <3>1 DEF MemTypes
    <3>2. CASE current # 0 /\ mem' # mem
      BY <3>2, SetState, NewStateType DEF MemTypes
    <3> QED
      BY <3>1, <3>2
  <2>2. \A k \in Cleaners :
          cleaner'[k].state = cleaner[k].state \/ cleaner'[k].state = current
    BY DEF CleanerTypes, Cleaners, CleanerState
  <2> QED
    BY <2>1, <2>2 DEF MemTypes
<1>3. BeforeRow'
  BY DEF BeforeRow, CleanerTypes, RowStages
<1>4. RowStages'
  <2>1. \A i \in DOMAIN echoes' : i + 1 \in DOMAIN echoes /\ echoes'[i] = echoes[i + 1]
    BY DEF CleanerTypes
  <2>2. cleaner'["delete"].pc = cleaner["delete"].pc
    BY DEF CleanerTypes, Cleaners
  <2> QED
    BY <2>1, <2>2 DEF RowStages
<1>5. Installed'
  BY DEF Installed, RowStages, RequestTypes, CleanerTypes, InitPc
<1>6. Detached'
  BY DEF Detached, CleanerTypes, CleanerState, Cleaners
<1>7. ReadyMeansLoaded'
  BY DEF ReadyMeansLoaded, RowStages, CleanerTypes
<1>8. (RequestTypes /\ StoreTypes /\ SendsOnly /\ HistoryFollowsSession)'
  BY DEF RequestTypes, StoreTypes, SendsOnly, HistoryFollowsSession
<1> QED
  BY <1>1, <1>2, <1>3, <1>4, <1>5, <1>6, <1>7, <1>8

LEMMA ExpireStep ==
  ASSUME IInv, Expire
  PROVE  IInv'
<1> USE DEF Expire, Upset, dbVars, memVars, clearVars, IInv, TypeOK
<1>1. StoreTypes'
  <2>1. upsets' \in 0..MaxUpsets
    BY SessionCacheAssumption DEF StoreTypes
  <2> QED
    BY <2>1 DEF StoreTypes
<1>2. HistoryFollowsSession'
  BY DEF HistoryFollowsSession
<1>3. (RequestTypes /\ CleanerTypes /\ MemTypes /\ SendsOnly /\ BeforeRow /\ RowStages /\ Installed /\ Detached /\ ReadyMeansLoaded)'
  BY DEF RequestTypes, CleanerTypes, MemTypes, SendsOnly, BeforeRow, RowStages,
       Installed, Detached, ReadyMeansLoaded
<1> QED
  BY <1>1, <1>2, <1>3

LEMMA RestartStep ==
  ASSUME IInv, Restart
  PROVE  IInv'
<1> USE DEF Restart, Upset, InProgress, dbVars, redisVars, IInv, TypeOK
<1>1. RequestTypes'
  BY HistoryFacts DEF RequestTypes, Pc, InitPc, StreamPc, Ended
<1>2. StoreTypes'
  <2>1. upsets' \in 0..MaxUpsets
    BY SessionCacheAssumption DEF StoreTypes
  <2> QED
    BY <2>1 DEF StoreTypes
<1>3. CleanerTypes'
  BY DEF CleanerTypes, CleanerState, NotCleaning
<1>4. MemTypes'
  BY DEF MemTypes, NotCleaning
<1>5. SendsOnly'
  BY DEF SendsOnly, StreamPc
<1>6. BeforeRow'
  BY DEF BeforeRow, Requests, Ended
<1>7. RowStages'
  BY DEF RowStages, Requests, Cleaners, NotCleaning
<1>8. Installed'
  BY DEF Installed, Ended
<1>9. Detached'
  BY DEF Detached, NotCleaning
<1>10. ReadyMeansLoaded'
  BY DEF ReadyMeansLoaded
<1>11. HistoryFollowsSession'
  BY DEF HistoryFollowsSession, Ended
<1> QED
  BY <1>1, <1>2, <1>3, <1>4, <1>5, <1>6, <1>7, <1>8, <1>9, <1>10, <1>11

-----------------------------------------------------------------------------
LEMMA NextIInv == IInv /\ [Next]_vars => IInv'
<1> SUFFICES ASSUME IInv, [Next]_vars PROVE IInv'
  OBVIOUS
<1>1. ASSUME NEW r \in Requests, CallStep(r) PROVE IInv'
  BY <1>1, StartStep, StoreQuestionStep, CheckReadyStep, StoreAnswerStep,
       FailStep
     DEF CallStep
<1>2. ASSUME NEW r \in Requests, InitStep(r) PROVE IInv'
  BY <1>2, CreateSessionStep, StartInitStep, LoadSessionStep, LoadHistoryStep,
     LoadDatabaseStep, SetSessionStep, SetHistoryStep, CacheSessionStep,
     CacheLoadedStep, MarkReadyStep
     DEF InitStep
<1>3. ASSUME NEW r \in Requests, StreamStep(r) PROVE IInv'
  BY <1>3, StartStreamStep, ReadHistoryStep, StoreTitleStep, StoreSummaryStep,
     KeepSummaryStep, SetSummariesStep, CacheSummariesStep, AddQuestionStep,
     CacheQuestionStep, StreamChatStep, AppendAnswerStep, ReadBackStep,
     CacheAnswerStep
     DEF StreamStep
<1>4. ASSUME NEW c \in Cleaners, CleanStep(c) PROVE IInv'
  BY <1>4, CancelUserStep, ClearStateStep, InvalidateSessionStep, PublishStep
     DEF CleanStep
<1>5. CASE UNCHANGED vars
  <2> USE <1>5 DEF IInv, TypeOK, vars, dbVars, redisVars, memVars, clearVars
  <2>1. TypeOK'
    BY DEF RequestTypes, StoreTypes, CleanerTypes, MemTypes
  <2>2. (SendsOnly /\ BeforeRow /\ RowStages /\ Installed /\ Detached)'
    BY DEF SendsOnly, BeforeRow, RowStages, Installed, Detached
  <2>3. (ReadyMeansLoaded /\ HistoryFollowsSession)'
    BY DEF ReadyMeansLoaded, HistoryFollowsSession
  <2> QED
    BY <2>1, <2>2, <2>3
<1> QED
  BY <1>1, <1>2, <1>3, <1>4, <1>5, ResetUserStep, DeleteSessionStep, PurgeStep,
     DeliverStep, ExpireStep, RestartStep
     DEF Next

THEOREM Invariance == Spec => []IInv
<1>1. Init => IInv
  BY InitIInv
<1>2. IInv /\ [Next]_vars => IInv'
  BY NextIInv
<1> QED
  BY <1>1, <1>2, PTL DEF Spec

\* The variables keep their types, and a handler holds a userState exactly
\* while it uses one.
THEOREM TypeCorrect == Spec => []TypeOK
<1>1. IInv => TypeOK
  BY DEF IInv
<1> QED
  BY <1>1, Invariance, PTL

\* However resets, deletions, the listener, restarts and any number of requests
\* interleave with handleInit, a session that is ready in the memory in use is
\* loaded there.
THEOREM ReadyLoaded == Spec => []ReadyMeansLoaded
<1>1. IInv => ReadyMeansLoaded
  BY DEF IInv
<1> QED
  BY <1>1, Invariance, PTL

\* However handlers, cleaners, expiries, restarts and failing commands interleave,
\* Redis has a session without its history only between two SETs, or while its
\* last SET of the history failed or was never sent.
THEOREM HistoryWithSession == Spec => []HistoryFollowsSession
<1>1. IInv => HistoryFollowsSession
  BY DEF IInv
<1> QED
  BY <1>1, Invariance, PTL

-----------------------------------------------------------------------------
(* One thing at a time.  What follows is about behaviours in which no      *)
(* request or cleaner begins before the one at work has ended; keys expire *)
(* and the backend restarts at any point.                                  *)

OneAtATime ==
  /\ \A r, q \in Requests : InProgress(r) /\ InProgress(q) => r = q
  /\ \A c, d \in Cleaners : Cleaning(c) /\ Cleaning(d) => c = d
  /\ \A r \in Requests, c \in Cleaners : ~(InProgress(r) /\ Cleaning(c))

\* The steps of a request at which a summary of a file may be stored.
Summarized == {"summary", "kept", "cacheSummaries", "summarized", "cacheQuestion", "ask",
               "answer", "readBack", "cacheAnswer", "storeAnswer"}

\* The question at work and its summary are the last of the database.
Asked(r) ==
  \E i \in DOMAIN messages :
    messages[i] = Question(r) /\ \A k \in DOMAIN messages : i < k => messages[k] = Summary(r)

\* What the database has of each message.
Recorded ==
  /\ \A i, k \in DOMAIN messages : messages[i] = messages[k] => i = k
  /\ \A i \in DOMAIN messages :
       /\ rpc[messages[i].by] # "new"
       /\ messages[i].role = "assistant" => rpc[messages[i].by] \in Ended
       /\ messages[i].role = "system" => rpc[messages[i].by] \in Summarized \cup Ended
  /\ row # "live" => messages = <<>>
  /\ row = "live" =>
       /\ \A r \in AnsweredSends : \E i \in DOMAIN messages : messages[i] = Question(r)
       /\ \A r \in Sends : InProgress(r) => Asked(r)

InUse    == mem[current]
MemReady == current # 0 /\ InUse.ready

\* Without a gap the memory in use and Redis have every message that was answered,
\* and Redis has what memory has, but for the steps that write one after the
\* other and for a Redis that is behind.
CopiesCover ==
  /\ MemReady => InUse.session
  /\ MemReady /\ ~gap => Covers(InUse.history, messages, AnsweredSends)
  /\ rSession /\ ~behind /\ ~gap /\ (\A r \in Requests : rpc[r] # "cacheLoaded") =>
       Covers(rHistory, messages, AnsweredSends)
  /\ /\ rSession /\ ~behind /\ MemReady
     /\ \A r \in Requests :
          rpc[r] \notin {"kept", "cacheSummaries", "cacheQuestion", "readBack", "cacheAnswer"}
     => rHistory = InUse.history

Installing == {"setHistory", "cacheSession", "cacheLoaded", "markReady"}

\* What a handler knows at each of its steps: of the memory it holds, which is the
\* one in use, ...
Holding(r) ==
  /\ rpc[r] \in InitPc \cup StreamPc => at[r] = current
  /\ rpc[r] \in InitPc \cup {"initQueued"} => ~MemReady
  /\ rpc[r] \in StreamPc \cup {"streamQueued", "storeAnswer"} => MemReady
  /\ rpc[r] \in Installing => InUse.session

\* ... and of the history it has read or is about to write.
Knowing(r) ==
  /\ rpc[r] = "loadHistory" /\ ~behind /\ ~gap /\ rHistory # Absent =>
       Covers(rHistory, messages, AnsweredSends)
  /\ rpc[r] \in Installing \cup {"setSession"} /\ ~gap =>
       Covers(local[r], messages, AnsweredSends)
  /\ rpc[r] \in (Installing \ {"setHistory"}) \cup (StreamPc \ {"read", "readBack"}) =>
       local[r] = InUse.history
  /\ rpc[r] = "markReady" /\ rSession /\ ~behind => rHistory = local[r]
  /\ rpc[r] = "title" => ~HasUserMessage(local[r])
  /\ rpc[r] \in Summarized \ {"summary"} =>
       (Summary(r) \in ToSet(messages) => Summary(r) \in ToSet(InUse.history))
  /\ rpc[r] \in {"cacheQuestion", "ask", "answer"} =>
       \E h \in History : InUse.history = Append(h, Question(r))
  /\ rpc[r] \in {"readBack", "cacheAnswer", "storeAnswer"} =>
       \E h \in History : InUse.history = Append(Append(h, Question(r)), Answer(r))

Handling == \A r \in Requests : Holding(r) /\ Knowing(r)

Serial == Recorded /\ CopiesCover /\ Handling

\* What is in a history is in a longer one.
LEMMA Keeps ==
  ASSUME NEW h \in History, NEW e \in Entry
  PROVE  /\ e \in ToSet(Append(h, e))
         /\ \A x \in ToSet(h) : x \in ToSet(Append(h, e))
<1>1. /\ DOMAIN h = 1..Len(h) /\ DOMAIN Append(h, e) = 1..(Len(h) + 1) /\ Len(h) \in Nat
      /\ \A i \in DOMAIN h : Append(h, e)[i] = h[i]
      /\ Append(h, e)[Len(h) + 1] = e
  BY DEF History
<1> QED
  BY <1>1 DEF ToSet

LEMMA CoversMore ==
  ASSUME NEW h \in History, NEW log \in History, NEW S, NEW e \in Entry,
         Covers(h, log, S), e.by \notin S
  PROVE  Covers(Append(h, e), log, S)
<1> DEFINE g == Append(h, e)
           known == {i \in DOMAIN log : log[i].by \in S}
<1>1. /\ DOMAIN h = 1..Len(h) /\ DOMAIN g = 1..(Len(h) + 1) /\ Len(h) \in Nat
      /\ \A i \in DOMAIN h : g[i] = h[i]
      /\ g[Len(h) + 1] = e
  BY DEF History
<1>2. ASSUME NEW i \in known PROVE log[i] \in ToSet(g)
  <2>1. PICK j \in DOMAIN h : h[j] = log[i]
    BY <1>2 DEF Covers, ToSet
  <2>2. j \in DOMAIN g /\ g[j] = log[i]
    BY <1>1, <2>1
  <2> QED
    BY <2>2 DEF ToSet
<1>3. ASSUME NEW i \in known, NEW k \in known, i < k,
             log[i].role # "system", log[k].role # "system"
      PROVE  Follows(g, log[k], log[i])
  <2>1. PICK j \in DOMAIN h : h[j] = log[k] /\ \A m \in DOMAIN h : h[m] = log[i] => m < j
    BY <1>3 DEF Covers, Follows
  <2>2. log[i] # e
    OBVIOUS
  <2>3. j \in DOMAIN g /\ g[j] = log[k] /\ \A m \in DOMAIN g : g[m] = log[i] => m < j
    BY <1>1, <2>1, <2>2
  <2> QED
    BY <2>3 DEF Follows
<1> HIDE DEF g
<1> QED
  BY <1>2, <1>3 DEF Covers, g

\* The log may grow by what was not answered.
LEMMA CoversLonger ==
  ASSUME NEW h, NEW log \in History, NEW S, NEW e \in Entry, e.by \notin S
  PROVE  Covers(h, Append(log, e), S) <=> Covers(h, log, S)
<1>1. /\ DOMAIN log = 1..Len(log) /\ DOMAIN Append(log, e) = 1..(Len(log) + 1)
      /\ \A i \in DOMAIN log : Append(log, e)[i] = log[i]
      /\ Append(log, e)[Len(log) + 1] = e /\ Len(log) \in Nat
  BY DEF History
<1>2. {i \in DOMAIN Append(log, e) : Append(log, e)[i].by \in S} = {i \in DOMAIN log : log[i].by \in S}
  BY <1>1
<1> QED
  BY <1>1, <1>2 DEF Covers

LEMMA CoversNothing ==
  ASSUME NEW h, NEW S
  PROVE  Covers(h, <<>>, S)
BY DEF Covers

\* The database covers itself.
LEMMA CoversItself ==
  ASSUME NEW log \in History, NEW S,
         \A i, k \in DOMAIN log : log[i] = log[k] => i = k
  PROVE  Covers(log, log, S)
<1>1. \A i \in DOMAIN log : log[i] \in ToSet(log)
  BY DEF ToSet
<1>2. ASSUME NEW i \in DOMAIN log, NEW k \in DOMAIN log, i < k PROVE Follows(log, log[k], log[i])
  <2>1. \A m \in DOMAIN log : log[m] = log[i] => m < k
    BY <1>2
  <2> QED
    BY <2>1 DEF Follows
<1> QED
  BY <1>1, <1>2 DEF Covers

\* A question and its answer, at the end of a history; in the log, the summary of a
\* file may come between them.
LEMMA CoversAnswered ==
  ASSUME NEW h \in History, NEW log \in History, NEW S, NEW r \in Sends, r \notin S,
         \A i, k \in DOMAIN log : log[i] = log[k] => i = k,
         NEW q \in DOMAIN log, log[q] = Question(r),
         \A k \in DOMAIN log : q < k => log[k] = Summary(r),
         \A i \in DOMAIN log : log[i] # Answer(r),
         NEW g, g = Append(Append(h, Question(r)), Answer(r)),
         Summary(r) \in ToSet(log) => Summary(r) \in ToSet(g),
         Covers(g, log, S)
  PROVE  Covers(g, Append(log, Answer(r)), S \cup {r})
<1> DEFINE new == Append(log, Answer(r))
           n == Len(h)
           m == Len(log)
<1>0. /\ Question(r) \in Entry /\ Summary(r) \in Entry /\ Answer(r) \in Entry
      /\ Question(r) # Answer(r) /\ Question(r) # Summary(r) /\ Summary(r) # Answer(r)
      /\ Question(r).by = r /\ Summary(r).by = r /\ Answer(r).by = r
      /\ Summary(r).role = "system"
      /\ \A e \in Entry : e.by = r => e \in {Question(r), Summary(r), Answer(r)}
  BY DEF Entry, Question, Summary, Answer
<1>1. /\ n \in Nat /\ DOMAIN g = 1..(n + 2) /\ g[n + 1] = Question(r) /\ g[n + 2] = Answer(r)
  BY <1>0 DEF History
<1>2. /\ m \in Nat /\ DOMAIN log = 1..m /\ DOMAIN new = 1..(m + 1) /\ new[m + 1] = Answer(r)
      /\ \A i \in 1..m : new[i] = log[i] /\ log[i] \in Entry
  BY <1>0 DEF History
<1> HIDE DEF new, n, m
<1>3. \A i \in 1..m : log[i].by = r => log[i] = Summary(r) \/ i = q
  BY <1>0, <1>2
<1>4. ASSUME NEW i \in DOMAIN new, new[i].by \in S \cup {r} PROVE new[i] \in ToSet(g)
  <2>1. CASE i = m + 1
    BY <1>1, <1>2, <2>1 DEF ToSet
  <2>2. CASE i # m + 1 /\ new[i].by \in S
    <3>1. i \in DOMAIN log /\ log[i] = new[i]
      BY <1>2, <2>2
    <3> QED
      BY <2>2, <3>1 DEF Covers
  <2>3. CASE i # m + 1 /\ new[i].by = r
    <3>1. i \in DOMAIN log /\ log[i] = new[i]
      BY <1>2, <2>3
    <3>2. CASE log[i] = Summary(r)
      BY <3>1, <3>2 DEF ToSet
    <3>3. CASE i = q
      BY <1>1, <3>1, <3>3 DEF ToSet
    <3> QED
      BY <1>2, <1>3, <2>3, <3>1, <3>2, <3>3
  <2> QED
    BY <1>4, <2>1, <2>2, <2>3
<1>5. ASSUME NEW i \in DOMAIN new, NEW k \in DOMAIN new, i < k,
             new[i].by \in S \cup {r}, new[k].by \in S \cup {r},
             new[i].role # "system", new[k].role # "system"
      PROVE  Follows(g, new[k], new[i])
  <2>1. CASE k = m + 1
    <3>1. \A j \in DOMAIN g : g[j] = new[i] => j < n + 2
      BY <1>0, <1>1, <1>2, <1>5, <2>1
    <3> QED
      BY <1>1, <1>2, <2>1, <3>1 DEF Follows
  <2>2. CASE k < m + 1
    <3>1. /\ i \in 1..m /\ k \in 1..m /\ new[i] = log[i] /\ new[k] = log[k]
      BY <1>2, <1>5, <2>2
    <3>2. i # q
      BY <1>0, <1>2, <1>5, <3>1
    <3>3. new[i].by # r
      BY <1>0, <1>3, <1>5, <3>1, <3>2
    <3>4. CASE k = q
      <4>1. \A j \in DOMAIN g : g[j] = new[i] => j < n + 1
        BY <1>0, <1>1, <3>3
      <4> QED
        BY <1>1, <3>1, <3>4, <4>1 DEF Follows
    <3>5. CASE k # q
      <4>1. new[k].by # r
        BY <1>0, <1>3, <1>5, <3>1, <3>5
      <4> QED
        BY <1>2, <1>5, <3>1, <3>3, <4>1 DEF Covers
    <3> QED
      BY <3>4, <3>5
  <2> QED
    BY <1>2, <1>5, <2>1, <2>2
<1> QED
  BY <1>4, <1>5 DEF Covers, new

-----------------------------------------------------------------------------
LEMMA Stages ==
  /\ InitPc \cap Ended = {} /\ StreamPc \cap Ended = {} /\ "new" \notin InitPc \cup StreamPc \cup Ended
  /\ \A p \in InitPc \cup StreamPc \cup {"called", "initQueued", "streamQueued", "storeAnswer"} :
       p \notin Ended /\ p # "new"
BY DEF InitPc, StreamPc, Ended

\* Requests go forward: none of Sends begins or ends well.
GoesOn ==
  \A q \in Requests :
    \/ rpc'[q] = rpc[q]
    \/ /\ rpc[q] \notin Ended /\ rpc'[q] # "new"
       /\ q \in Sends => rpc[q] # "new" /\ rpc'[q] # "ok"
       /\ rpc[q] \in Summarized => rpc'[q] \in Summarized \cup Ended

LEMMA RecordedKept ==
  ASSUME Recorded, RequestTypes, StoreTypes, GoesOn, UNCHANGED <<row, messages>>
  PROVE  Recorded' /\ AnsweredSends' = AnsweredSends
<1>1. Sends \subseteq Requests
  BY DEF Requests
<1>2. \A q \in Sends : rpc'[q] = "ok" <=> rpc[q] = "ok"
  BY <1>1 DEF GoesOn, Ended
<1>3. AnsweredSends' = AnsweredSends
  BY <1>2 DEF AnsweredSends
<1>4. \A i \in DOMAIN messages : messages[i].by \in Sends
  <2>1. \A i \in DOMAIN messages : messages[i] \in Entry
    BY DEF StoreTypes, History
  <2> QED
    BY <2>1 DEF Entry
<1>5. \A q \in Sends : /\ rpc[q] # "new" => rpc'[q] # "new"
                       /\ rpc[q] \in Ended => rpc'[q] \in Ended
                       /\ rpc[q] \in Summarized => rpc'[q] \in Summarized \cup Ended
                       /\ InProgress(q)' => InProgress(q)
  BY <1>1 DEF GoesOn, InProgress
<1>6. \A q : Asked(q)' <=> Asked(q)
  BY DEF Asked
<1> QED
  BY <1>3, <1>4, <1>5, <1>6 DEF Recorded

\* A request at work goes from one step to another, alone.
LEMMA RequestAlone ==
  ASSUME RequestTypes, OneAtATime, OneAtATime', NEW r \in Requests, NEW from, NEW to,
         Goto(r, from, to), from \notin Ended, to # "new", from = "new" => to \notin Ended
  PROVE  /\ rpc[r] = from /\ rpc'[r] = to
         /\ \A q \in Requests : q # r =>
              rpc'[q] = rpc[q] /\ (rpc[q] \in Ended \cup {"new"})
<1>1. rpc[r] = from /\ rpc' = [rpc EXCEPT ![r] = to] /\ rpc \in [Requests -> Pc]
  BY DEF Goto, RequestTypes
<1>2. rpc'[r] = to /\ \A q \in Requests : q # r => rpc'[q] = rpc[q]
  BY <1>1
<1>3. ASSUME NEW q \in Requests, q # r PROVE ~InProgress(q)
  <2>1. CASE from = "new"
    <3>1. InProgress(r)'
      BY <1>2, <2>1 DEF InProgress
    <3>2. ~InProgress(q)'
      BY <1>3, <3>1 DEF OneAtATime
    <3> QED
      BY <1>2, <1>3, <3>2 DEF InProgress
  <2>2. CASE from # "new"
    <3>1. InProgress(r)
      BY <1>1, <2>2 DEF InProgress
    <3> QED
      BY <1>3, <3>1 DEF OneAtATime
  <2> QED
    BY <2>1, <2>2
<1> QED
  BY <1>1, <1>2, <1>3 DEF InProgress

\* Request r moves, and no other is at work.
Moved(r, from, to) ==
  /\ rpc[r] = from /\ rpc'[r] = to
  /\ \A q \in Requests : q # r => rpc'[q] = rpc[q] /\ rpc[q] \in Ended \cup {"new"}

\* What there is to show of a step of a request that leaves the database alone.
LEMMA SerialByRequest ==
  ASSUME IInv, Serial, OneAtATime, OneAtATime', NEW r \in Requests, NEW from, NEW to,
         Goto(r, from, to), from \notin Ended, to # "new", from = "new" => to \notin Ended,
         from \in Summarized => to \in Summarized \cup Ended,
         r \in Sends => from # "new" /\ to # "ok", UNCHANGED <<row, messages>>
  PROVE  /\ Moved(r, from, to) /\ UNCHANGED AnsweredSends
         /\ CopiesCover /\ Holding(r) /\ Knowing(r)
         /\ CopiesCover' /\ Holding(r)' /\ Knowing(r)' => Serial'
<1>1. /\ rpc[r] = from /\ rpc'[r] = to
      /\ \A q \in Requests : q # r => rpc'[q] = rpc[q] /\ rpc[q] \in Ended \cup {"new"}
  BY RequestAlone DEF IInv, TypeOK
<1>2. GoesOn
  BY <1>1 DEF GoesOn
<1>3. Recorded' /\ UNCHANGED AnsweredSends
  BY <1>2, RecordedKept DEF IInv, TypeOK, Serial
<1>4. \A q \in Requests : q # r => rpc'[q] \in Ended \cup {"new"}
  BY <1>1
<1>5. \A q \in Requests : q # r => Holding(q)' /\ Knowing(q)'
  BY <1>4, Stages DEF Holding, Knowing, Installing, InitPc, StreamPc, Ended, Summarized
<1>6. CopiesCover' /\ Holding(r)' /\ Knowing(r)' => Serial'
  <2>1. ASSUME Holding(r)', Knowing(r)' PROVE Handling'
    BY <1>5, <2>1 DEF Handling
  <2> QED
    BY <1>3, <2>1 DEF Serial
<1> QED
  BY <1>1, <1>3, <1>6 DEF Moved, Serial, Handling

\* A step of a cleaner, or one that begins when nothing is at work.
LEMMA SerialByCleaner ==
  ASSUME IInv, Serial, UNCHANGED <<rpc, row, messages>>,
         \A q \in Requests : rpc[q] \in Ended \cup {"new"},
         CopiesCover => CopiesCover'
  PROVE  Serial'
<1>1. GoesOn
  BY DEF GoesOn
<1>2. Recorded' /\ UNCHANGED AnsweredSends
  BY <1>1, RecordedKept DEF IInv, TypeOK, Serial
<1>3. \A q \in Requests : Holding(q)' /\ Knowing(q)'
  BY Stages DEF Holding, Knowing, Installing, InitPc, StreamPc, Ended, Summarized
<1> QED
  BY <1>2, <1>3 DEF Serial, Handling

-----------------------------------------------------------------------------
(* The steps of a request, one lemma per action. *)

LEMMA LoadSessionSerial ==
  ASSUME IInv, Serial, OneAtATime, OneAtATime', NEW r \in Requests, LoadSession(r)
  PROVE  Serial'
<1>1. PICK to \in {"loadHistory", "loadDatabase"} :
        /\ Goto(r, "loadSession", to)
        /\ to = "loadHistory" => rSession
  BY DEF LoadSession
<1>2. /\ Moved(r, "loadSession", to) /\ UNCHANGED <<row, messages, AnsweredSends>>
      /\ CopiesCover /\ Holding(r) /\ Knowing(r)
      /\ CopiesCover' /\ Holding(r)' /\ Knowing(r)' => Serial'
  <2>1. UNCHANGED <<row, messages>>
    BY DEF LoadSession, dbVars
  <2> QED
    BY <1>1, <2>1, SerialByRequest, SessionCacheAssumption
       DEF LoadSession, Ended, Summarized, Requests, IInv, SendsOnly, StreamPc
<1> SUFFICES CopiesCover' /\ Holding(r)' /\ Knowing(r)'
  BY <1>2
<1>3. UNCHANGED <<MemReady, InUse, rSession, rHistory, behind, gap, at, local, current>>
  BY <1>1, <1>2 DEF LoadSession, dbVars, redisVars, memVars, clearVars, MemReady, InUse
<1>4. CopiesCover'
  BY <1>1, <1>2, <1>3 DEF CopiesCover, Moved, Installing, InitPc, StreamPc, Ended
<1>5. Holding(r)'
  BY <1>1, <1>2, <1>3 DEF Holding, Moved, Installing, InitPc, StreamPc, Ended
<1>6. Knowing(r)'
  <2>1. \A q \in Requests : rpc[q] # "cacheLoaded"
    BY <1>1, <1>2 DEF Moved, Ended
  <2>2. to = "loadHistory" /\ ~behind /\ ~gap => Covers(rHistory, messages, AnsweredSends)
    BY <1>1, <1>2, <2>1 DEF CopiesCover
  <2> QED
    BY <1>1, <1>2, <1>3, <2>2 DEF Knowing, Moved, Installing, InitPc, StreamPc, Summarized
<1> QED
  BY <1>4, <1>5, <1>6

LEMMA LoadHistorySerial ==
  ASSUME IInv, Serial, OneAtATime, OneAtATime', NEW r \in Requests, LoadHistory(r)
  PROVE  Serial'
<1>1. Goto(r, "loadHistory", "setSession") /\ UNCHANGED <<row, messages>>
  BY DEF LoadHistory, dbVars, redisVars, memVars, clearVars
<1>2. /\ Moved(r, "loadHistory", "setSession") /\ UNCHANGED AnsweredSends
      /\ CopiesCover /\ Holding(r) /\ Knowing(r)
      /\ CopiesCover' /\ Holding(r)' /\ Knowing(r)' => Serial'
  BY <1>1, SerialByRequest, SessionCacheAssumption
     DEF LoadHistory, Ended, Summarized, Requests, IInv, SendsOnly, StreamPc
<1> SUFFICES CopiesCover' /\ Holding(r)' /\ Knowing(r)'
  BY <1>2
<1>3. /\ UNCHANGED <<MemReady, InUse, rSession, rHistory, behind, at, current>>
      /\ gap => gap'
      /\ ~gap' => ~behind /\ rHistory # Absent /\ local'[r] = rHistory
  BY <1>1, <1>2
     DEF LoadHistory, dbVars, redisVars, memVars, clearVars, MemReady, InUse, IInv, TypeOK,
         RequestTypes
<1>4. ~gap' => Covers(local'[r], messages, AnsweredSends)
  BY <1>2, <1>3 DEF Knowing, Moved
<1>5. CopiesCover'
  BY <1>1, <1>2, <1>3 DEF CopiesCover, Moved, Installing, InitPc, StreamPc, Ended
<1>6. Holding(r)'
  BY <1>1, <1>2, <1>3 DEF Holding, Moved, Installing, InitPc, StreamPc, Ended
<1>7. Knowing(r)'
  BY <1>1, <1>2, <1>3, <1>4  DEF Knowing, Moved, Installing, InitPc, StreamPc, Summarized, Ended
<1> QED
  BY <1>5, <1>6, <1>7

LEMMA LoadDatabaseSerial ==
  ASSUME IInv, Serial, OneAtATime, OneAtATime', NEW r \in Requests, LoadDatabase(r)
  PROVE  Serial'
<1>1. Goto(r, "loadDatabase", "setSession") /\ UNCHANGED <<row, messages>>
  BY DEF LoadDatabase, dbVars, redisVars, memVars, clearVars
<1>2. /\ Moved(r, "loadDatabase", "setSession") /\ UNCHANGED AnsweredSends
      /\ CopiesCover /\ Holding(r) /\ Knowing(r)
      /\ CopiesCover' /\ Holding(r)' /\ Knowing(r)' => Serial'
  BY <1>1, SerialByRequest, SessionCacheAssumption
     DEF LoadDatabase, Ended, Summarized, Requests, IInv, SendsOnly, StreamPc
<1> SUFFICES CopiesCover' /\ Holding(r)' /\ Knowing(r)'
  BY <1>2
<1>3. UNCHANGED <<MemReady, InUse, rSession, rHistory, behind, at, current>>
      /\ local'[r] = messages /\ (gap' <=> gap /\ rSession)
  BY <1>1, <1>2
     DEF LoadDatabase, dbVars, redisVars, memVars, clearVars, MemReady, InUse, IInv, TypeOK,
         RequestTypes
<1>4. Covers(messages, messages, AnsweredSends)
  BY CoversItself DEF Serial, Recorded, IInv, TypeOK, StoreTypes
<1>5. CopiesCover'
  BY <1>1, <1>2, <1>3 DEF CopiesCover, Holding, Moved, InitPc, Ended
<1>6. Holding(r)'
  BY <1>1, <1>2, <1>3 DEF Holding, Moved, Installing, InitPc, StreamPc, Ended
<1>7. Knowing(r)'
  BY <1>1, <1>2, <1>3, <1>4  DEF Knowing, Moved, Installing, InitPc, StreamPc, Summarized, Ended
<1> QED
  BY <1>5, <1>6, <1>7

LEMMA CacheSessionSerial ==
  ASSUME IInv, Serial, OneAtATime, OneAtATime', NEW r \in Requests, CacheSession(r)
  PROVE  Serial'
<1>1. Goto(r, "cacheSession", "cacheLoaded") /\ UNCHANGED <<row, messages>>
  BY DEF CacheSession, dbVars, redisVars, memVars, clearVars
<1>2. /\ Moved(r, "cacheSession", "cacheLoaded") /\ UNCHANGED AnsweredSends
      /\ CopiesCover /\ Holding(r) /\ Knowing(r)
      /\ CopiesCover' /\ Holding(r)' /\ Knowing(r)' => Serial'
  BY <1>1, SerialByRequest, SessionCacheAssumption
     DEF CacheSession, Ended, Summarized, Requests, IInv, SendsOnly, StreamPc
<1> SUFFICES CopiesCover' /\ Holding(r)' /\ Knowing(r)'
  BY <1>2
<1>3. UNCHANGED <<MemReady, InUse, rHistory, behind, gap, at, local, current>>
  BY <1>1, <1>2 DEF CacheSession, dbVars, redisVars, memVars, clearVars, MemReady, InUse
<1>4. CopiesCover'
  BY <1>1, <1>2, <1>3
     DEF CopiesCover, Holding, Knowing, Moved, Installing, InitPc, StreamPc, Ended
<1>5. Holding(r)'
  BY <1>1, <1>2, <1>3 DEF Holding, Moved, Installing, InitPc, StreamPc, Ended
<1>6. Knowing(r)'
  BY <1>1, <1>2, <1>3 DEF Knowing, Moved, Installing, InitPc, StreamPc, Summarized, Ended
<1> QED
  BY <1>4, <1>5, <1>6

LEMMA CacheLoadedSerial ==
  ASSUME IInv, Serial, OneAtATime, OneAtATime', NEW r \in Requests, CacheLoaded(r)
  PROVE  Serial'
<1>1. Goto(r, "cacheLoaded", "markReady") /\ UNCHANGED <<row, messages>>
  BY DEF CacheLoaded, dbVars, redisVars, memVars, clearVars
<1>2. /\ Moved(r, "cacheLoaded", "markReady") /\ UNCHANGED AnsweredSends
      /\ CopiesCover /\ Holding(r) /\ Knowing(r)
      /\ CopiesCover' /\ Holding(r)' /\ Knowing(r)' => Serial'
  BY <1>1, SerialByRequest, SessionCacheAssumption
     DEF CacheLoaded, Ended, Summarized, Requests, IInv, SendsOnly, StreamPc
<1> SUFFICES CopiesCover' /\ Holding(r)' /\ Knowing(r)'
  BY <1>2
<1>3. /\ UNCHANGED <<MemReady, InUse, rSession, gap, at, local, current>>
      /\ behind' \/ rHistory' = local[r]
  BY <1>1, <1>2, CacheHistoryFacts DEF CacheLoaded, dbVars, memVars, clearVars, MemReady, InUse
<1>4. CopiesCover'
  BY <1>1, <1>2, <1>3
     DEF CopiesCover, Holding, Knowing, Moved, Installing, InitPc, StreamPc, Ended
<1>5. Holding(r)'
  BY <1>1, <1>2, <1>3 DEF Holding, Moved, Installing, InitPc, StreamPc, Ended
<1>6. Knowing(r)'
  BY <1>1, <1>2, <1>3 DEF Knowing, Moved, Installing, InitPc, StreamPc, Summarized, Ended
<1> QED
  BY <1>4, <1>5, <1>6

LEMMA ReadHistorySerial ==
  ASSUME IInv, Serial, OneAtATime, OneAtATime', NEW r \in Requests, ReadHistory(r)
  PROVE  Serial'
<1>1. Goto(r, "read",
             IF HasUserMessage(mem[at[r]].history) THEN "question" ELSE "title")
      /\ UNCHANGED <<row, messages>>
  BY DEF ReadHistory, dbVars, redisVars, memVars, clearVars
<1>2. /\ Moved(r, "read",
               IF HasUserMessage(mem[at[r]].history) THEN "question" ELSE "title")
      /\ UNCHANGED AnsweredSends
      /\ CopiesCover /\ Holding(r) /\ Knowing(r)
      /\ CopiesCover' /\ Holding(r)' /\ Knowing(r)' => Serial'
  BY <1>1, SerialByRequest, SessionCacheAssumption
     DEF ReadHistory, Ended, Summarized, Requests, IInv, SendsOnly, StreamPc
<1> SUFFICES CopiesCover' /\ Holding(r)' /\ Knowing(r)'
  BY <1>2
<1>3. /\ UNCHANGED <<MemReady, InUse, rSession, rHistory, behind, gap, at, current>>
      /\ local'[r] = mem[at[r]].history
      /\ at[r] = current /\ InUse = mem[at[r]]
  BY <1>1, <1>2
     DEF ReadHistory, dbVars, redisVars, memVars, clearVars, MemReady, InUse, IInv, TypeOK,
         RequestTypes, Holding, Moved, StreamPc
<1>4. CopiesCover'
  BY <1>1, <1>2, <1>3 DEF CopiesCover, Moved, Installing, InitPc, StreamPc, Ended
<1>5. Holding(r)'
  BY <1>1, <1>2, <1>3 DEF Holding, Moved, Installing, InitPc, StreamPc, Ended
<1>6. Knowing(r)'
  BY <1>1, <1>2, <1>3 DEF Knowing, Moved, Installing, InitPc, StreamPc, Summarized, Ended
<1> QED
  BY <1>4, <1>5, <1>6

LEMMA StoreTitleSerial ==
  ASSUME IInv, Serial, OneAtATime, OneAtATime', NEW r \in Requests, StoreTitle(r)
  PROVE  Serial'
<1>1. Goto(r, "title", "question") /\ UNCHANGED <<row, messages>>
  BY DEF StoreTitle, dbVars, redisVars, memVars, clearVars
<1>2. /\ Moved(r, "title", "question") /\ UNCHANGED AnsweredSends
      /\ CopiesCover /\ Holding(r) /\ Knowing(r)
      /\ CopiesCover' /\ Holding(r)' /\ Knowing(r)' => Serial'
  BY <1>1, SerialByRequest, SessionCacheAssumption
     DEF StoreTitle, Ended, Summarized, Requests, IInv, SendsOnly, StreamPc
<1> SUFFICES CopiesCover' /\ Holding(r)' /\ Knowing(r)'
  BY <1>2
<1>3. UNCHANGED <<MemReady, InUse, rSession, rHistory, behind, gap, at, local, current>>
  BY <1>1, <1>2 DEF StoreTitle, dbVars, redisVars, memVars, clearVars, MemReady, InUse
<1>4. CopiesCover'
  BY <1>1, <1>2, <1>3 DEF CopiesCover, Moved, Installing, InitPc, StreamPc, Ended
<1>5. Holding(r)'
  BY <1>1, <1>2, <1>3 DEF Holding, Moved, Installing, InitPc, StreamPc, Ended
<1>6. Knowing(r)'
  BY <1>1, <1>2, <1>3 DEF Knowing, Moved, Installing, InitPc, StreamPc, Summarized, Ended
<1> QED
  BY <1>4, <1>5, <1>6

LEMMA CacheQuestionSerial ==
  ASSUME IInv, Serial, OneAtATime, OneAtATime', NEW r \in Requests, CacheQuestion(r)
  PROVE  Serial'
<1>1. Goto(r, "cacheQuestion", "ask") /\ UNCHANGED <<row, messages>>
  BY DEF CacheQuestion, dbVars, redisVars, memVars, clearVars
<1>2. /\ Moved(r, "cacheQuestion", "ask") /\ UNCHANGED AnsweredSends
      /\ CopiesCover /\ Holding(r) /\ Knowing(r)
      /\ CopiesCover' /\ Holding(r)' /\ Knowing(r)' => Serial'
  BY <1>1, SerialByRequest, SessionCacheAssumption
     DEF CacheQuestion, Ended, Summarized, Requests, IInv, SendsOnly, StreamPc
<1> SUFFICES CopiesCover' /\ Holding(r)' /\ Knowing(r)'
  BY <1>2
<1>3. /\ UNCHANGED <<MemReady, InUse, rSession, gap, at, local, current>>
      /\ behind' \/ rHistory' = local[r]
  BY <1>1, <1>2, CacheHistoryFacts DEF CacheQuestion, dbVars, memVars, clearVars, MemReady, InUse
<1>4. CopiesCover'
  BY <1>1, <1>2, <1>3
     DEF CopiesCover, Holding, Knowing, Moved, Installing, InitPc, StreamPc, Ended
<1>5. Holding(r)'
  BY <1>1, <1>2, <1>3 DEF Holding, Moved, Installing, InitPc, StreamPc, Ended
<1>6. Knowing(r)'
  BY <1>1, <1>2, <1>3 DEF Knowing, Moved, Installing, InitPc, StreamPc, Summarized, Ended
<1> QED
  BY <1>4, <1>5, <1>6

LEMMA StreamChatSerial ==
  ASSUME IInv, Serial, OneAtATime, OneAtATime', NEW r \in Requests, StreamChat(r)
  PROVE  Serial'
<1>1. Goto(r, "ask", "answer") /\ UNCHANGED <<row, messages>>
  BY DEF StreamChat, dbVars, redisVars, memVars, clearVars
<1>2. /\ Moved(r, "ask", "answer") /\ UNCHANGED AnsweredSends
      /\ CopiesCover /\ Holding(r) /\ Knowing(r)
      /\ CopiesCover' /\ Holding(r)' /\ Knowing(r)' => Serial'
  BY <1>1, SerialByRequest, SessionCacheAssumption
     DEF StreamChat, Ended, Summarized, Requests, IInv, SendsOnly, StreamPc
<1> SUFFICES CopiesCover' /\ Holding(r)' /\ Knowing(r)'
  BY <1>2
<1>3. UNCHANGED <<MemReady, InUse, rSession, rHistory, behind, gap, at, local, current>>
  BY <1>1, <1>2 DEF StreamChat, dbVars, redisVars, memVars, clearVars, MemReady, InUse
<1>4. CopiesCover'
  BY <1>1, <1>2, <1>3 DEF CopiesCover, Moved, Installing, InitPc, StreamPc, Ended
<1>5. Holding(r)'
  BY <1>1, <1>2, <1>3 DEF Holding, Moved, Installing, InitPc, StreamPc, Ended
<1>6. Knowing(r)'
  BY <1>1, <1>2, <1>3 DEF Knowing, Moved, Installing, InitPc, StreamPc, Summarized, Ended
<1> QED
  BY <1>4, <1>5, <1>6

LEMMA ReadBackSerial ==
  ASSUME IInv, Serial, OneAtATime, OneAtATime', NEW r \in Requests, ReadBack(r)
  PROVE  Serial'
<1>1. Goto(r, "readBack", "cacheAnswer") /\ UNCHANGED <<row, messages>>
  BY DEF ReadBack, dbVars, redisVars, memVars, clearVars
<1>2. /\ Moved(r, "readBack", "cacheAnswer") /\ UNCHANGED AnsweredSends
      /\ CopiesCover /\ Holding(r) /\ Knowing(r)
      /\ CopiesCover' /\ Holding(r)' /\ Knowing(r)' => Serial'
  BY <1>1, SerialByRequest, SessionCacheAssumption
     DEF ReadBack, Ended, Summarized, Requests, IInv, SendsOnly, StreamPc
<1> SUFFICES CopiesCover' /\ Holding(r)' /\ Knowing(r)'
  BY <1>2
<1>3. /\ UNCHANGED <<MemReady, InUse, rSession, rHistory, behind, gap, at, current>>
      /\ local'[r] = mem[at[r]].history
      /\ at[r] = current /\ InUse = mem[at[r]]
  BY <1>1, <1>2
     DEF ReadBack, dbVars, redisVars, memVars, clearVars, MemReady, InUse, IInv, TypeOK,
         RequestTypes, Holding, Moved, StreamPc
<1>4. CopiesCover'
  BY <1>1, <1>2, <1>3 DEF CopiesCover, Moved, Installing, InitPc, StreamPc, Ended
<1>5. Holding(r)'
  BY <1>1, <1>2, <1>3 DEF Holding, Moved, Installing, InitPc, StreamPc, Ended
<1>6. Knowing(r)'
  BY <1>1, <1>2, <1>3 DEF Knowing, Moved, Installing, InitPc, StreamPc, Summarized, Ended
<1> QED
  BY <1>4, <1>5, <1>6

LEMMA CacheAnswerSerial ==
  ASSUME IInv, Serial, OneAtATime, OneAtATime', NEW r \in Requests, CacheAnswer(r)
  PROVE  Serial'
<1>1. Goto(r, "cacheAnswer", "storeAnswer") /\ UNCHANGED <<row, messages>>
  BY DEF CacheAnswer, dbVars, redisVars, memVars, clearVars
<1>2. /\ Moved(r, "cacheAnswer", "storeAnswer") /\ UNCHANGED AnsweredSends
      /\ CopiesCover /\ Holding(r) /\ Knowing(r)
      /\ CopiesCover' /\ Holding(r)' /\ Knowing(r)' => Serial'
  BY <1>1, SerialByRequest, SessionCacheAssumption
     DEF CacheAnswer, Ended, Summarized, Requests, IInv, SendsOnly, StreamPc
<1> SUFFICES CopiesCover' /\ Holding(r)' /\ Knowing(r)'
  BY <1>2
<1>3. /\ UNCHANGED <<MemReady, InUse, rSession, gap, current>>
      /\ behind' \/ rHistory' = local[r]
  BY <1>1, <1>2, CacheHistoryFacts DEF CacheAnswer, dbVars, memVars, clearVars, MemReady, InUse
<1>4. CopiesCover'
  BY <1>1, <1>2, <1>3
     DEF CopiesCover, Holding, Knowing, Moved, Installing, InitPc, StreamPc, Ended
<1>5. Holding(r)'
  BY <1>1, <1>2, <1>3 DEF Holding, Moved, Installing, InitPc, StreamPc, Ended
<1>6. Knowing(r)'
  BY <1>1, <1>2, <1>3 DEF Knowing, Moved, Installing, InitPc, StreamPc, Summarized, Ended
<1> QED
  BY <1>4, <1>5, <1>6

LEMMA SetSessionSerial ==
  ASSUME IInv, Serial, OneAtATime, OneAtATime', NEW r \in Requests, SetSession(r)
  PROVE  Serial'
<1>1. Goto(r, "setSession", "setHistory") /\ UNCHANGED <<row, messages>>
  BY DEF SetSession, dbVars, redisVars, memVars, clearVars
<1>2. /\ Moved(r, "setSession", "setHistory") /\ UNCHANGED AnsweredSends
      /\ CopiesCover /\ Holding(r) /\ Knowing(r)
      /\ CopiesCover' /\ Holding(r)' /\ Knowing(r)' => Serial'
  BY <1>1, SerialByRequest, SessionCacheAssumption
     DEF SetSession, Ended, Summarized, Requests, IInv, SendsOnly, StreamPc
<1> SUFFICES CopiesCover' /\ Holding(r)' /\ Knowing(r)'
  BY <1>2
<1>3. /\ at[r] = current /\ current \in DOMAIN mem /\ InUse \in UserState
  <2>1. at[r] = current
    BY <1>2 DEF Holding, Moved, InitPc, StreamPc
  <2>2. rpc[r] \in InitPc \cup StreamPc
    BY <1>2 DEF Moved, InitPc, StreamPc
  <2> QED
    BY <2>1, <2>2, HeldState DEF InUse, IInv, TypeOK, MemTypes
<1>4. /\ UNCHANGED <<rSession, rHistory, behind, gap, at, local, current>>
      /\ InUse'.session /\ InUse'.history = InUse.history /\ InUse'.ready = InUse.ready
      /\ MemReady' = MemReady
  <2>1. UNCHANGED <<rSession, rHistory, behind, gap, at, local, current>>
    BY <1>1, <1>2 DEF SetSession, dbVars, redisVars, memVars, clearVars
  <2>2. current # 0
    BY <1>3 DEF IInv, TypeOK, MemTypes
  <2>3. local \in [Requests -> History]
    BY DEF IInv, TypeOK, RequestTypes
  <2> QED
    BY <1>2, <1>3, <2>1, <2>2, <2>3 DEF SetSession, InUse, UserState, MemReady
<1>5. CopiesCover'
  BY <1>1, <1>2, <1>4 DEF CopiesCover, Moved, Installing, InitPc, StreamPc, Ended
<1>6. Holding(r)'
  BY <1>1, <1>2, <1>4 DEF Holding, Moved, Installing, InitPc, StreamPc, Ended
<1>7. Knowing(r)'
  BY <1>1, <1>2, <1>4 DEF Knowing, Moved, Installing, InitPc, StreamPc, Summarized, Ended
<1> QED
  BY <1>5, <1>6, <1>7

LEMMA SetHistorySerial ==
  ASSUME IInv, Serial, OneAtATime, OneAtATime', NEW r \in Requests, SetHistory(r)
  PROVE  Serial'
<1>1. Goto(r, "setHistory", "cacheSession") /\ UNCHANGED <<row, messages>>
  BY DEF SetHistory, dbVars, redisVars, memVars, clearVars
<1>2. /\ Moved(r, "setHistory", "cacheSession") /\ UNCHANGED AnsweredSends
      /\ CopiesCover /\ Holding(r) /\ Knowing(r)
      /\ CopiesCover' /\ Holding(r)' /\ Knowing(r)' => Serial'
  BY <1>1, SerialByRequest, SessionCacheAssumption
     DEF SetHistory, Ended, Summarized, Requests, IInv, SendsOnly, StreamPc
<1> SUFFICES CopiesCover' /\ Holding(r)' /\ Knowing(r)'
  BY <1>2
<1>3. /\ at[r] = current /\ current \in DOMAIN mem /\ InUse \in UserState
  <2>1. at[r] = current
    BY <1>2 DEF Holding, Moved, InitPc, StreamPc
  <2>2. rpc[r] \in InitPc \cup StreamPc
    BY <1>2 DEF Moved, InitPc, StreamPc
  <2> QED
    BY <2>1, <2>2, HeldState DEF InUse, IInv, TypeOK, MemTypes
<1>4. /\ UNCHANGED <<rSession, rHistory, behind, gap, at, local, current>>
      /\ InUse'.session = InUse.session /\ InUse'.history = local[r] /\ InUse'.ready = InUse.ready
      /\ MemReady' = MemReady
  <2>1. UNCHANGED <<rSession, rHistory, behind, gap, at, local, current>>
    BY <1>1, <1>2 DEF SetHistory, dbVars, redisVars, memVars, clearVars
  <2>2. current # 0
    BY <1>3 DEF IInv, TypeOK, MemTypes
  <2>3. local \in [Requests -> History]
    BY DEF IInv, TypeOK, RequestTypes
  <2> QED
    BY <1>2, <1>3, <2>1, <2>2, <2>3 DEF SetHistory, InUse, UserState, MemReady
<1>5. CopiesCover'
  BY <1>1, <1>2, <1>4 DEF CopiesCover, Holding, Moved, Installing, InitPc, StreamPc, Ended
<1>6. Holding(r)'
  BY <1>1, <1>2, <1>4 DEF Holding, Moved, Installing, InitPc, StreamPc, Ended
<1>7. Knowing(r)'
  BY <1>1, <1>2, <1>4 DEF Knowing, Moved, Installing, InitPc, StreamPc, Summarized, Ended
<1> QED
  BY <1>5, <1>6, <1>7

LEMMA MarkReadySerial ==
  ASSUME IInv, Serial, OneAtATime, OneAtATime', NEW r \in Requests, MarkReady(r)
  PROVE  Serial'
<1>1. Goto(r, "markReady",
             IF r \in Sends THEN "streamQueued" ELSE "ok")
      /\ UNCHANGED <<row, messages>>
  BY DEF MarkReady, dbVars, redisVars, memVars, clearVars
<1>2. /\ Moved(r, "markReady",
               IF r \in Sends THEN "streamQueued" ELSE "ok")
      /\ UNCHANGED AnsweredSends
      /\ CopiesCover /\ Holding(r) /\ Knowing(r)
      /\ CopiesCover' /\ Holding(r)' /\ Knowing(r)' => Serial'
  BY <1>1, SerialByRequest, SessionCacheAssumption
     DEF MarkReady, Ended, Summarized, Requests, IInv, SendsOnly, StreamPc
<1> SUFFICES CopiesCover' /\ Holding(r)' /\ Knowing(r)'
  BY <1>2
<1>3. /\ at[r] = current /\ current \in DOMAIN mem /\ InUse \in UserState
  <2>1. at[r] = current
    BY <1>2 DEF Holding, Moved, InitPc, StreamPc
  <2>2. rpc[r] \in InitPc \cup StreamPc
    BY <1>2 DEF Moved, InitPc, StreamPc
  <2> QED
    BY <2>1, <2>2, HeldState DEF InUse, IInv, TypeOK, MemTypes
<1>4. /\ UNCHANGED <<rSession, rHistory, behind, gap, current>>
      /\ InUse'.session = InUse.session /\ InUse'.history = InUse.history /\ MemReady'
  <2>1. UNCHANGED <<rSession, rHistory, behind, gap, current>>
    BY <1>1, <1>2 DEF MarkReady, dbVars, redisVars, memVars, clearVars
  <2>2. current # 0
    BY <1>3 DEF IInv, TypeOK, MemTypes
  <2>3. local \in [Requests -> History]
    BY DEF IInv, TypeOK, RequestTypes
  <2> QED
    BY <1>2, <1>3, <2>1, <2>2, <2>3 DEF MarkReady, InUse, UserState, MemReady
<1>5. CopiesCover'
  BY <1>1, <1>2, <1>4
     DEF CopiesCover, Holding, Knowing, Moved, Installing, InitPc, StreamPc, Ended
<1>6. Holding(r)'
  BY <1>1, <1>2, <1>4 DEF Holding, Moved, Installing, InitPc, StreamPc, Ended
<1>7. Knowing(r)'
  BY <1>1, <1>2, <1>4 DEF Knowing, Moved, Installing, InitPc, StreamPc, Summarized, Ended
<1> QED
  BY <1>5, <1>6, <1>7

\* Before its summary is stored the database has none of it.
LEMMA NotSummarized ==
  ASSUME Recorded, NEW r \in Sends, rpc[r] \notin Summarized \cup Ended
  PROVE  Summary(r) \notin ToSet(messages)
BY DEF Recorded, ToSet, Summary

LEMMA KeepSummarySerial ==
  ASSUME IInv, Serial, OneAtATime, OneAtATime', NEW r \in Requests, KeepSummary(r)
  PROVE  Serial'
<1>1. Goto(r, "summary", "kept") /\ UNCHANGED <<row, messages>>
  BY DEF KeepSummary, dbVars, redisVars, memVars, clearVars
<1>2. /\ Moved(r, "summary", "kept") /\ UNCHANGED AnsweredSends
      /\ CopiesCover /\ Holding(r) /\ Knowing(r)
      /\ CopiesCover' /\ Holding(r)' /\ Knowing(r)' => Serial'
  BY <1>1, SerialByRequest, SessionCacheAssumption
     DEF KeepSummary, Ended, Summarized, Requests, IInv, SendsOnly, StreamPc
<1> SUFFICES CopiesCover' /\ Holding(r)' /\ Knowing(r)'
  BY <1>2
<1>3. /\ at[r] = current /\ current \in DOMAIN mem /\ InUse \in UserState
  <2>1. at[r] = current
    BY <1>2 DEF Holding, Moved, InitPc, StreamPc
  <2>2. rpc[r] \in InitPc \cup StreamPc
    BY <1>2 DEF Moved, InitPc, StreamPc
  <2> QED
    BY <2>1, <2>2, HeldState DEF InUse, IInv, TypeOK, MemTypes
<1>4. /\ UNCHANGED <<rSession, rHistory, behind, gap, at, current>>
      /\ local'[r] = Append(local[r], Summary(r))
      /\ InUse'.session = InUse.session /\ InUse'.ready = InUse.ready
      /\ MemReady' = MemReady /\ InUse'.history = Append(InUse.history, Summary(r))
  <2>1. UNCHANGED <<rSession, rHistory, behind, gap, at, current>>
    BY <1>1, <1>2 DEF KeepSummary, dbVars, redisVars, memVars, clearVars
  <2>2. current # 0
    BY <1>3 DEF IInv, TypeOK, MemTypes
  <2>3. local \in [Requests -> History]
    BY DEF IInv, TypeOK, RequestTypes
  <2> QED
    BY <1>2, <1>3, <2>1, <2>2, <2>3 DEF KeepSummary, InUse, UserState, MemReady
<1>5. /\ InUse.history \in History
      /\ ~gap => Covers(Append(InUse.history, Summary(r)), messages, AnsweredSends)
      /\ Summary(r) \in ToSet(Append(InUse.history, Summary(r)))
  <2>1. InUse.history \in History
    BY <1>3 DEF UserState, IInv, TypeOK, RequestTypes
  <2>2. r \in Sends /\ r \notin AnsweredSends
    BY <1>2 DEF KeepSummary, Moved, AnsweredSends, IInv, SendsOnly, StreamPc
  <2>3. ~gap => Covers(InUse.history, messages, AnsweredSends)
    BY <1>2 DEF CopiesCover, Holding, Moved, StreamPc
  <2>4. Summary(r) \in Entry /\ Summary(r).by = r
    BY <2>2 DEF Entry, Summary
  <2> QED
    BY <2>1, <2>2, <2>3, <2>4, CoversMore, Keeps DEF IInv, TypeOK, StoreTypes
<1>6. CopiesCover'
  BY <1>1, <1>2, <1>4, <1>5
     DEF CopiesCover, Holding, Knowing, Moved, Installing, InitPc, StreamPc, Ended
<1>7. Holding(r)'
  BY <1>1, <1>2, <1>4 DEF Holding, Moved, Installing, InitPc, StreamPc, Ended
<1>8. Knowing(r)'
  BY <1>1, <1>2, <1>4, <1>5 DEF Knowing, Moved, Installing, InitPc, StreamPc, Summarized, Ended
<1> QED
  BY <1>6, <1>7, <1>8

LEMMA SetSummariesSerial ==
  ASSUME IInv, Serial, OneAtATime, OneAtATime', NEW r \in Requests, SetSummaries(r)
  PROVE  Serial'
<1>1. PICK from \in {"question", "kept"} :
        Goto(r, from, "cacheSummaries") /\ UNCHANGED <<row, messages>>
  BY DEF SetSummaries, dbVars, redisVars, memVars, clearVars
<1>2. /\ Moved(r, from, "cacheSummaries") /\ UNCHANGED AnsweredSends
      /\ CopiesCover /\ Holding(r) /\ Knowing(r)
      /\ CopiesCover' /\ Holding(r)' /\ Knowing(r)' => Serial'
  BY <1>1, SerialByRequest, SessionCacheAssumption
     DEF SetSummaries, Ended, Summarized, Requests, IInv, SendsOnly, StreamPc
<1> SUFFICES CopiesCover' /\ Holding(r)' /\ Knowing(r)'
  BY <1>2
<1>3. /\ at[r] = current /\ current \in DOMAIN mem /\ InUse \in UserState
  <2>1. at[r] = current
    BY <1>2 DEF Holding, Moved, InitPc, StreamPc
  <2>2. rpc[r] \in InitPc \cup StreamPc
    BY <1>2 DEF Moved, InitPc, StreamPc
  <2> QED
    BY <2>1, <2>2, HeldState DEF InUse, IInv, TypeOK, MemTypes
<1>4. /\ UNCHANGED <<rSession, rHistory, behind, gap, at, local, current>>
      /\ InUse'.session = InUse.session /\ InUse'.history = local[r] /\ local[r] = InUse.history /\ InUse'.ready = InUse.ready
      /\ MemReady' = MemReady
  <2>1. UNCHANGED <<rSession, rHistory, behind, gap, at, local, current>>
    BY <1>1, <1>2 DEF SetSummaries, dbVars, redisVars, memVars, clearVars
  <2>2. current # 0
    BY <1>3 DEF IInv, TypeOK, MemTypes
  <2>3. local \in [Requests -> History]
    BY DEF IInv, TypeOK, RequestTypes
  <2>4. local[r] = InUse.history
    BY <1>2 DEF Knowing, Moved, StreamPc
  <2> QED
    BY <1>2, <1>3, <2>1, <2>2, <2>3, <2>4 DEF SetSummaries, InUse, UserState, MemReady
<1>5. CopiesCover'
  BY <1>1, <1>2, <1>4 DEF CopiesCover, Holding, Moved, Installing, InitPc, StreamPc, Ended
<1>6. Holding(r)'
  BY <1>1, <1>2, <1>4 DEF Holding, Moved, Installing, InitPc, StreamPc, Ended
<1>7. Summary(r) \in ToSet(messages) => Summary(r) \in ToSet(InUse.history)
  <2>1. r \in Sends
    BY <1>2 DEF Moved, IInv, SendsOnly, StreamPc
  <2>2. CASE from = "question"
    BY <1>2, <2>1, <2>2, NotSummarized DEF Serial, Moved, Summarized, Ended
  <2>3. CASE from = "kept"
    BY <1>2, <2>3 DEF Knowing, Moved, Summarized
  <2> QED
    BY <2>2, <2>3
<1>8. Knowing(r)'
  BY <1>1, <1>2, <1>4, <1>7 DEF Knowing, Moved, Installing, InitPc, StreamPc, Summarized, Ended
<1> QED
  BY <1>5, <1>6, <1>8

LEMMA CacheSummariesSerial ==
  ASSUME IInv, Serial, OneAtATime, OneAtATime', NEW r \in Requests, CacheSummaries(r)
  PROVE  Serial'
<1>1. Goto(r, "cacheSummaries", "summarized") /\ UNCHANGED <<row, messages>>
  BY DEF CacheSummaries, dbVars, redisVars, memVars, clearVars
<1>2. /\ Moved(r, "cacheSummaries", "summarized") /\ UNCHANGED AnsweredSends
      /\ CopiesCover /\ Holding(r) /\ Knowing(r)
      /\ CopiesCover' /\ Holding(r)' /\ Knowing(r)' => Serial'
  BY <1>1, SerialByRequest, SessionCacheAssumption
     DEF CacheSummaries, Ended, Summarized, Requests, IInv, SendsOnly, StreamPc
<1> SUFFICES CopiesCover' /\ Holding(r)' /\ Knowing(r)'
  BY <1>2
<1>3. /\ UNCHANGED <<MemReady, InUse, rSession, gap, at, local, current>>
      /\ behind' \/ rHistory' = local[r]
  BY <1>1, <1>2, CacheHistoryFacts DEF CacheSummaries, dbVars, memVars, clearVars, MemReady, InUse
<1>4. CopiesCover'
  BY <1>1, <1>2, <1>3
     DEF CopiesCover, Holding, Knowing, Moved, Installing, InitPc, StreamPc, Ended
<1>5. Holding(r)'
  BY <1>1, <1>2, <1>3 DEF Holding, Moved, Installing, InitPc, StreamPc, Ended
<1>6. Knowing(r)'
  BY <1>1, <1>2, <1>3 DEF Knowing, Moved, Installing, InitPc, StreamPc, Summarized, Ended
<1> QED
  BY <1>4, <1>5, <1>6

LEMMA AddQuestionSerial ==
  ASSUME IInv, Serial, OneAtATime, OneAtATime', NEW r \in Requests, AddQuestion(r)
  PROVE  Serial'
<1>1. PICK from \in {"question", "summarized"} :
        Goto(r, from, "cacheQuestion") /\ UNCHANGED <<row, messages>>
  BY DEF AddQuestion, dbVars, redisVars, memVars, clearVars
<1>2. /\ Moved(r, from, "cacheQuestion") /\ UNCHANGED AnsweredSends
      /\ CopiesCover /\ Holding(r) /\ Knowing(r)
      /\ CopiesCover' /\ Holding(r)' /\ Knowing(r)' => Serial'
  BY <1>1, SerialByRequest, SessionCacheAssumption
     DEF AddQuestion, Ended, Summarized, Requests, IInv, SendsOnly, StreamPc
<1> SUFFICES CopiesCover' /\ Holding(r)' /\ Knowing(r)'
  BY <1>2
<1>3. /\ at[r] = current /\ current \in DOMAIN mem /\ InUse \in UserState
  <2>1. at[r] = current
    BY <1>2 DEF Holding, Moved, InitPc, StreamPc
  <2>2. rpc[r] \in InitPc \cup StreamPc
    BY <1>2 DEF Moved, InitPc, StreamPc
  <2> QED
    BY <2>1, <2>2, HeldState DEF InUse, IInv, TypeOK, MemTypes
<1>4. /\ UNCHANGED <<rSession, rHistory, behind, gap, at, current>>
      /\ InUse'.session = InUse.session /\ InUse'.ready = InUse.ready
      /\ MemReady' = MemReady /\ InUse'.history = Append(local[r], Question(r))
      /\ local'[r] = InUse'.history
  <2>1. UNCHANGED <<rSession, rHistory, behind, gap, at, current>>
    BY <1>1, <1>2 DEF AddQuestion, dbVars, redisVars, memVars, clearVars
  <2>2. current # 0
    BY <1>3 DEF IInv, TypeOK, MemTypes
  <2>3. local \in [Requests -> History]
    BY DEF IInv, TypeOK, RequestTypes
  <2> QED
    BY <1>2, <1>3, <2>1, <2>2, <2>3 DEF AddQuestion, InUse, UserState, MemReady
<1>5. /\ local[r] \in History
      /\ ~gap => Covers(Append(InUse.history, Question(r)), messages, AnsweredSends)
      /\ Summary(r) \in ToSet(messages) => Summary(r) \in ToSet(Append(InUse.history, Question(r)))
  <2>1. local[r] \in History /\ InUse.history \in History
    BY <1>3 DEF UserState, IInv, TypeOK, RequestTypes
  <2>2. r \in Sends /\ r \notin AnsweredSends
    BY <1>2 DEF AddQuestion, Moved, AnsweredSends, IInv, SendsOnly, StreamPc
  <2>3. ~gap => Covers(InUse.history, messages, AnsweredSends)
    BY <1>2 DEF CopiesCover, Holding, Moved, StreamPc
  <2>4. Question(r) \in Entry /\ Answer(r) \in Entry /\ Question(r).by = r /\ Answer(r).by = r
    BY <2>2 DEF Entry, Question, Answer
  <2>5. Summary(r) \in ToSet(messages) => Summary(r) \in ToSet(InUse.history)
    <3>1. CASE from = "question"
      BY <1>2, <2>2, <3>1, NotSummarized DEF Serial, Moved, Summarized, Ended
    <3>2. CASE from = "summarized"
      BY <1>2, <3>2 DEF Knowing, Moved, Summarized
    <3> QED
      BY <3>1, <3>2
  <2> QED
    BY <2>1, <2>2, <2>3, <2>4, <2>5, CoversMore, Keeps DEF IInv, TypeOK, StoreTypes
<1>6. CopiesCover'
  BY <1>1, <1>2, <1>4, <1>5
     DEF CopiesCover, Holding, Knowing, Moved, Installing, InitPc, StreamPc, Ended
<1>7. Holding(r)'
  BY <1>1, <1>2, <1>4 DEF Holding, Moved, Installing, InitPc, StreamPc, Ended
<1>8. Knowing(r)'
  BY <1>1, <1>2, <1>4, <1>5 DEF Knowing, Moved, Installing, InitPc, StreamPc, Summarized, Ended
<1> QED
  BY <1>6, <1>7, <1>8

LEMMA AppendAnswerSerial ==
  ASSUME IInv, Serial, OneAtATime, OneAtATime', NEW r \in Requests, AppendAnswer(r)
  PROVE  Serial'
<1>1. Goto(r, "answer", "readBack") /\ UNCHANGED <<row, messages>>
  BY DEF AppendAnswer, dbVars, redisVars, memVars, clearVars
<1>2. /\ Moved(r, "answer", "readBack") /\ UNCHANGED AnsweredSends
      /\ CopiesCover /\ Holding(r) /\ Knowing(r)
      /\ CopiesCover' /\ Holding(r)' /\ Knowing(r)' => Serial'
  BY <1>1, SerialByRequest, SessionCacheAssumption
     DEF AppendAnswer, Ended, Summarized, Requests, IInv, SendsOnly, StreamPc
<1> SUFFICES CopiesCover' /\ Holding(r)' /\ Knowing(r)'
  BY <1>2
<1>3. /\ at[r] = current /\ current \in DOMAIN mem /\ InUse \in UserState
  <2>1. at[r] = current
    BY <1>2 DEF Holding, Moved, InitPc, StreamPc
  <2>2. rpc[r] \in InitPc \cup StreamPc
    BY <1>2 DEF Moved, InitPc, StreamPc
  <2> QED
    BY <2>1, <2>2, HeldState DEF InUse, IInv, TypeOK, MemTypes
<1>4. /\ UNCHANGED <<rSession, rHistory, behind, gap, at, local, current>>
      /\ InUse'.session = InUse.session /\ InUse'.ready = InUse.ready
      /\ MemReady' = MemReady /\ InUse'.history = Append(InUse.history, Answer(r))
  <2>1. UNCHANGED <<rSession, rHistory, behind, gap, at, local, current>>
    BY <1>1, <1>2 DEF AppendAnswer, dbVars, redisVars, memVars, clearVars
  <2>2. current # 0
    BY <1>3 DEF IInv, TypeOK, MemTypes
  <2>3. local \in [Requests -> History]
    BY DEF IInv, TypeOK, RequestTypes
  <2> QED
    BY <1>2, <1>3, <2>1, <2>2, <2>3 DEF AppendAnswer, InUse, UserState, MemReady
<1>5. /\ InUse.history \in History
      /\ ~gap => Covers(Append(InUse.history, Answer(r)), messages, AnsweredSends)
      /\ Summary(r) \in ToSet(messages) => Summary(r) \in ToSet(Append(InUse.history, Answer(r)))
  <2>1. InUse.history \in History
    BY <1>3 DEF UserState, IInv, TypeOK, RequestTypes
  <2>2. r \in Sends /\ r \notin AnsweredSends
    BY <1>2 DEF AppendAnswer, Moved, AnsweredSends, IInv, SendsOnly, StreamPc
  <2>3. ~gap => Covers(InUse.history, messages, AnsweredSends)
    BY <1>2 DEF CopiesCover, Holding, Moved, StreamPc
  <2>4. Question(r) \in Entry /\ Answer(r) \in Entry /\ Question(r).by = r /\ Answer(r).by = r
    BY <2>2 DEF Entry, Question, Answer
  <2>5. Summary(r) \in ToSet(messages) => Summary(r) \in ToSet(InUse.history)
    BY <1>2 DEF Knowing, Moved, Summarized
  <2> QED
    BY <2>1, <2>2, <2>3, <2>4, <2>5, CoversMore, Keeps DEF IInv, TypeOK, StoreTypes
<1>6. CopiesCover'
  BY <1>1, <1>2, <1>4, <1>5
     DEF CopiesCover, Holding, Knowing, Moved, Installing, InitPc, StreamPc, Ended
<1>7. Holding(r)'
  BY <1>1, <1>2, <1>4 DEF Holding, Moved, Installing, InitPc, StreamPc, Ended
<1>8. Knowing(r)'
  BY <1>1, <1>2, <1>4, <1>5 DEF Knowing, Moved, Installing, InitPc, StreamPc, Summarized, Ended
<1> QED
  BY <1>6, <1>7, <1>8

LEMMA StartSerial ==
  ASSUME IInv, Serial, OneAtATime, OneAtATime', NEW r \in Requests, Start(r)
  PROVE  Serial'
<1>1. Goto(r, "new", "called") /\ UNCHANGED <<row, messages>>
  BY DEF Start, dbVars, redisVars, memVars, clearVars
<1>2. /\ Moved(r, "new", "called") /\ UNCHANGED AnsweredSends
      /\ CopiesCover /\ Holding(r) /\ Knowing(r)
      /\ CopiesCover' /\ Holding(r)' /\ Knowing(r)' => Serial'
  BY <1>1, SerialByRequest, SessionCacheAssumption
     DEF Start, Ended, Summarized, Requests, IInv, SendsOnly, StreamPc
<1> SUFFICES CopiesCover' /\ Holding(r)' /\ Knowing(r)'
  BY <1>2
<1>3. UNCHANGED <<MemReady, InUse, rSession, rHistory, behind, gap, at, local, current>>
  BY <1>1, <1>2 DEF Start, dbVars, redisVars, memVars, clearVars, MemReady, InUse
<1>4. CopiesCover'
  BY <1>1, <1>2, <1>3 DEF CopiesCover, Moved, Installing, InitPc, StreamPc, Ended
<1>5. Holding(r)'
  BY <1>1, <1>2, <1>3 DEF Holding, Moved, Installing, InitPc, StreamPc, Ended
<1>6. Knowing(r)'
  BY <1>1, <1>2, <1>3 DEF Knowing, Moved, Installing, InitPc, StreamPc, Summarized, Ended
<1> QED
  BY <1>4, <1>5, <1>6

\* getState changes nothing in a memory that is in use, and a new one is not ready.
LEMMA GetStateKeeps ==
  ASSUME IInv, GetState
  PROVE  current' # 0 /\ (MemReady' <=> MemReady) /\ (MemReady => UNCHANGED InUse)
<1>1. MemTypes
  BY DEF IInv, TypeOK
<1>2. CASE current # 0
  BY <1>2 DEF GetState, memVars, MemReady, InUse
<1>3. CASE current = 0
  BY <1>1, <1>3, GetStateFacts DEF MemReady, InUse, NewState
<1> QED
  BY <1>2, <1>3

LEMMA StartInitSerial ==
  ASSUME IInv, Serial, OneAtATime, OneAtATime', NEW r \in Requests, StartInit(r)
  PROVE  Serial'
<1>1. Goto(r, "initQueued", "loadSession") /\ UNCHANGED <<row, messages>>
  BY DEF StartInit, dbVars, redisVars, memVars, clearVars
<1>2. /\ Moved(r, "initQueued", "loadSession") /\ UNCHANGED AnsweredSends
      /\ CopiesCover /\ Holding(r) /\ Knowing(r)
      /\ CopiesCover' /\ Holding(r)' /\ Knowing(r)' => Serial'
  BY <1>1, SerialByRequest, SessionCacheAssumption
     DEF StartInit, Ended, Summarized, Requests, IInv, SendsOnly, StreamPc
<1> SUFFICES CopiesCover' /\ Holding(r)' /\ Knowing(r)'
  BY <1>2
<1>3. /\ current' # 0 /\ (MemReady' <=> MemReady) /\ (MemReady => UNCHANGED InUse)
      /\ UNCHANGED <<rSession, rHistory, behind, gap, local>> /\ at'[r] = current'
  BY <1>1, <1>2, GetStateKeeps
     DEF StartInit, GetStateOf, dbVars, redisVars, memVars, clearVars, IInv, TypeOK,
         RequestTypes
<1>4. CopiesCover'
  BY <1>1, <1>2, <1>3 DEF CopiesCover, Moved, Installing, InitPc, StreamPc, Ended
<1>5. Holding(r)'
  BY <1>1, <1>2, <1>3 DEF Holding, Moved, Installing, InitPc, StreamPc, Ended
<1>6. Knowing(r)'
  BY <1>1, <1>2, <1>3 DEF Knowing, Moved, Installing, InitPc, StreamPc, Summarized, Ended
<1> QED
  BY <1>4, <1>5, <1>6

LEMMA StartStreamSerial ==
  ASSUME IInv, Serial, OneAtATime, OneAtATime', NEW r \in Requests, StartStream(r)
  PROVE  Serial'
<1>1. Goto(r, "streamQueued", "read") /\ UNCHANGED <<row, messages>>
  BY DEF StartStream, dbVars, redisVars, memVars, clearVars
<1>2. /\ Moved(r, "streamQueued", "read") /\ UNCHANGED AnsweredSends
      /\ CopiesCover /\ Holding(r) /\ Knowing(r)
      /\ CopiesCover' /\ Holding(r)' /\ Knowing(r)' => Serial'
  BY <1>1, SerialByRequest, SessionCacheAssumption
     DEF StartStream, Ended, Summarized, Requests, IInv, SendsOnly, StreamPc
<1> SUFFICES CopiesCover' /\ Holding(r)' /\ Knowing(r)'
  BY <1>2
<1>3. /\ current' # 0 /\ (MemReady' <=> MemReady) /\ (MemReady => UNCHANGED InUse)
      /\ UNCHANGED <<rSession, rHistory, behind, gap, local>> /\ at'[r] = current'
  BY <1>1, <1>2, GetStateKeeps
     DEF StartStream, GetStateOf, dbVars, redisVars, memVars, clearVars, IInv, TypeOK,
         RequestTypes
<1>4. CopiesCover'
  BY <1>1, <1>2, <1>3 DEF CopiesCover, Moved, Installing, InitPc, StreamPc, Ended
<1>5. Holding(r)'
  BY <1>1, <1>2, <1>3 DEF Holding, Moved, Installing, InitPc, StreamPc, Ended
<1>6. Knowing(r)'
  BY <1>1, <1>2, <1>3 DEF Knowing, Moved, Installing, InitPc, StreamPc, Summarized, Ended
<1> QED
  BY <1>4, <1>5, <1>6

LEMMA CheckReadySerial ==
  ASSUME IInv, Serial, OneAtATime, OneAtATime', NEW r \in Requests, CheckReady(r)
  PROVE  Serial'
<1>1. GetState /\ UNCHANGED <<row, messages, rSession, rHistory, behind, gap, local, at>>
  BY DEF CheckReady, dbVars, redisVars
<1>2. PICK to \in {"initQueued", "streamQueued", "ok"} :
        /\ Goto(r, "called", to)
        /\ to = "ok" => r \notin Sends
        /\ to = "streamQueued" => MemReady
        /\ to = "initQueued" => r = Creator \/ ~MemReady \/ ~InUse.session
  BY DEF CheckReady, MemReady, InUse
<1>3. /\ Moved(r, "called", to) /\ UNCHANGED AnsweredSends
      /\ CopiesCover /\ Holding(r) /\ Knowing(r)
      /\ CopiesCover' /\ Holding(r)' /\ Knowing(r)' => Serial'
  BY <1>1, <1>2, SerialByRequest DEF Ended, Summarized
<1> SUFFICES CopiesCover' /\ Holding(r)' /\ Knowing(r)'
  BY <1>3
<1>4. (MemReady' <=> MemReady) /\ (MemReady => UNCHANGED InUse)
  BY <1>1, GetStateKeeps
<1>5. to = "initQueued" => ~MemReady
  <2>1. r = Creator => ~MemReady
    <3>1. r = Creator => row = "none"
      BY <1>3 DEF Moved, IInv, RowStages
    <3>2. current # 0 => current \in DOMAIN mem
      BY DEF IInv, TypeOK, MemTypes
    <3> QED
      BY <3>1, <3>2 DEF MemReady, InUse, IInv, BeforeRow
  <2> QED
    BY <1>2, <1>3, <2>1 DEF CopiesCover
<1>6. CopiesCover'
  BY <1>1, <1>2, <1>3, <1>4 DEF CopiesCover, Moved, Ended
<1>7. Holding(r)'
  BY <1>1, <1>2, <1>3, <1>4, <1>5 DEF Holding, Moved, Installing, InitPc, StreamPc
<1>8. Knowing(r)'
  BY <1>1, <1>2, <1>3 DEF Knowing, Moved, Installing, InitPc, StreamPc, Summarized
<1> QED
  BY <1>6, <1>7, <1>8

LEMMA FailSerial ==
  ASSUME IInv, Serial, OneAtATime, OneAtATime', NEW r \in Requests, Fail(r)
  PROVE  Serial'
<1>1. UNCHANGED <<row, messages, rSession, rHistory, gap, mem, current>>
  BY DEF Fail, dbVars, memVars
<1>2. PICK from \in {"called", "initQueued", "loadDatabase", "setSession", "streamQueued",
                     "read", "title", "question", "summary", "kept", "ask", "storeAnswer"} :
        Goto(r, from, "failed") /\ behind' = (behind \/ from = "kept")
  BY DEF Fail, Goto
<1>3. /\ Moved(r, from, "failed") /\ UNCHANGED AnsweredSends
      /\ CopiesCover /\ Holding(r) /\ Knowing(r)
      /\ CopiesCover' /\ Holding(r)' /\ Knowing(r)' => Serial'
  BY <1>1, <1>2, SerialByRequest DEF Ended, Summarized
<1> SUFFICES CopiesCover' /\ Holding(r)' /\ Knowing(r)'
  BY <1>3
<1>4. UNCHANGED <<MemReady, InUse>>
  BY <1>1 DEF MemReady, InUse
<1>5. CopiesCover'
  BY <1>1, <1>2, <1>3, <1>4 DEF CopiesCover, Moved, Ended
<1>6. Holding(r)' /\ Knowing(r)'
  BY <1>3 DEF Holding, Knowing, Moved, Installing, InitPc, StreamPc, Summarized
<1> QED
  BY <1>5, <1>6

\* captureInput stores a question nobody has answered.
LEMMA StoreQuestionSerial ==
  ASSUME IInv, Serial, OneAtATime, OneAtATime', NEW r \in Requests, StoreQuestion(r)
  PROVE  Serial'
<1>1. /\ r \in Sends /\ row = "live" /\ row' = "live" /\ Goto(r, "new", "called")
      /\ messages' = Append(messages, Question(r))
      /\ UNCHANGED <<at, local, rSession, rHistory, behind, gap, mem, current>>
  BY DEF StoreQuestion, redisVars, memVars
<1>2. /\ rpc[r] = "new" /\ rpc'[r] = "called"
      /\ \A q \in Requests : q # r => rpc'[q] = rpc[q] /\ rpc[q] \in Ended \cup {"new"}
  BY <1>1, RequestAlone DEF Ended, IInv, TypeOK
<1>3. Sends \subseteq Requests
  BY DEF Requests
<1>4. UNCHANGED AnsweredSends /\ r \notin AnsweredSends
  BY <1>2, <1>3 DEF AnsweredSends
<1>5. /\ Question(r) \in Entry /\ Question(r).by = r /\ Question(r).role = "user"
      /\ messages \in History
  BY <1>1 DEF Entry, Question, IInv, TypeOK, StoreTypes
<1>6. /\ Len(messages) \in Nat /\ DOMAIN messages = 1..Len(messages)
      /\ DOMAIN messages' = 1..(Len(messages) + 1) /\ Len(messages') = Len(messages) + 1
      /\ messages'[Len(messages) + 1] = Question(r)
      /\ \A i \in DOMAIN messages : messages'[i] = messages[i] /\ messages[i].by \in Sends
  <2>1. \A i \in DOMAIN messages : messages[i] \in Entry
    BY <1>5 DEF History
  <2> QED
    BY <1>1, <1>5, <2>1 DEF History, Entry
<1>7. Recorded'
  <2>1. \A i \in DOMAIN messages : messages[i] # Question(r)
    BY <1>2, <1>5 DEF Serial, Recorded
  <2>2. \A i, k \in DOMAIN messages' : messages'[i] = messages'[k] => i = k
    BY <1>6, <2>1 DEF Serial, Recorded
  <2>3. \A i \in DOMAIN messages' :
          /\ rpc'[messages'[i].by] # "new"
          /\ messages'[i].role = "assistant" => rpc'[messages'[i].by] \in Ended
          /\ messages'[i].role = "system" => rpc'[messages'[i].by] \in Summarized \cup Ended
    BY <1>2, <1>3, <1>5, <1>6 DEF Serial, Recorded, Summarized
  <2>4. \A q \in AnsweredSends' : \E i \in DOMAIN messages' : messages'[i] = Question(q)
    BY <1>1, <1>4, <1>6 DEF Serial, Recorded
  <2>5. \A q \in Sends : InProgress(q)' => Asked(q)'
    <3>1. Asked(r)'
      BY <1>6 DEF Asked
    <3> QED
      BY <1>2, <1>3, <3>1 DEF InProgress
  <2> QED
    BY <1>1, <2>2, <2>3, <2>4, <2>5 DEF Recorded
<1> SUFFICES CopiesCover' /\ Handling'
  BY <1>7 DEF Serial
<1>8. CopiesCover
  BY <1>2 DEF Serial
<1>9. \A h : Covers(h, messages', AnsweredSends') <=> Covers(h, messages, AnsweredSends)
  BY <1>1, <1>4, <1>5, CoversLonger
<1>10. UNCHANGED <<MemReady, InUse>>
  BY <1>1 DEF MemReady, InUse
<1>11. CopiesCover'
  <2>1. \A q \in Requests : rpc[q] \notin {"cacheLoaded", "kept", "cacheSummaries", "cacheQuestion", "readBack",
                                         "cacheAnswer"}
    BY <1>2 DEF Ended
  <2> QED
    BY <1>1, <1>8, <1>9, <1>10, <2>1 DEF CopiesCover
<1>12. \A q \in Requests : rpc'[q] \in Ended \cup {"new", "called"}
  BY <1>2
<1>13. Handling'
  BY <1>12 DEF Handling, Holding, Knowing, Installing, InitPc, StreamPc, Ended,
         Summarized
<1> QED
  BY <1>11, <1>13

\* The summary of a file follows its question.
LEMMA StoreSummarySerial ==
  ASSUME IInv, Serial, OneAtATime, OneAtATime', NEW r \in Requests, StoreSummary(r)
  PROVE  Serial'
<1>1. /\ row = "live" /\ row' = "live" /\ Goto(r, "question", "summary")
      /\ messages' = Append(messages, Summary(r))
      /\ UNCHANGED <<at, local, rSession, rHistory, behind, gap, mem, current>>
  BY DEF StoreSummary, redisVars, memVars
<1>2. /\ rpc[r] = "question" /\ rpc'[r] = "summary"
      /\ \A q \in Requests : q # r => rpc'[q] = rpc[q] /\ rpc[q] \in Ended \cup {"new"}
  BY <1>1, RequestAlone DEF Ended, IInv, TypeOK
<1>3. Sends \subseteq Requests /\ r \in Sends
  BY <1>2 DEF Requests, IInv, SendsOnly, StreamPc
<1>4. UNCHANGED AnsweredSends /\ r \notin AnsweredSends
  BY <1>2, <1>3 DEF AnsweredSends
<1>5. /\ Summary(r) \in Entry /\ Summary(r).by = r /\ Summary(r).role = "system"
      /\ messages \in History
  BY <1>3 DEF Entry, Summary, IInv, TypeOK, StoreTypes
<1>6. /\ Len(messages) \in Nat /\ DOMAIN messages = 1..Len(messages)
      /\ DOMAIN messages' = 1..(Len(messages) + 1)
      /\ messages'[Len(messages) + 1] = Summary(r)
      /\ \A i \in DOMAIN messages : messages'[i] = messages[i] /\ messages[i].by \in Sends
  <2>1. \A i \in DOMAIN messages : messages[i] \in Entry
    BY <1>5 DEF History
  <2> QED
    BY <1>1, <1>5, <2>1 DEF History, Entry
<1>7. Recorded'
  <2>1. \A i \in DOMAIN messages : messages[i] # Summary(r)
    <3>1. Summary(r) \notin ToSet(messages)
      BY <1>2, <1>3, NotSummarized DEF Serial, Summarized, Ended
    <3> QED
      BY <3>1 DEF ToSet
  <2>2. \A i, k \in DOMAIN messages' : messages'[i] = messages'[k] => i = k
    BY <1>6, <2>1 DEF Serial, Recorded
  <2>3. \A i \in DOMAIN messages' :
          /\ rpc'[messages'[i].by] # "new"
          /\ messages'[i].role = "assistant" => rpc'[messages'[i].by] \in Ended
          /\ messages'[i].role = "system" => rpc'[messages'[i].by] \in Summarized \cup Ended
    <3>1. "summary" \in Summarized /\ "summary" # "new" /\ rpc[r] \notin Ended
      BY <1>2 DEF Summarized, Ended
    <3> QED
      BY <1>2, <1>3, <1>5, <1>6, <3>1 DEF Serial, Recorded
  <2>4. \A q \in AnsweredSends' : \E i \in DOMAIN messages' : messages'[i] = Question(q)
    BY <1>1, <1>4, <1>6 DEF Serial, Recorded
  <2>5. \A q \in Sends : InProgress(q)' => Asked(q)'
    <3>1. Asked(r)
      BY <1>1, <1>2, <1>3 DEF Serial, Recorded, InProgress, Ended
    <3>2. Asked(r)'
      BY <1>6, <3>1 DEF Asked
    <3> QED
      BY <1>2, <1>3, <3>2 DEF InProgress
  <2> QED
    BY <1>1, <2>2, <2>3, <2>4, <2>5 DEF Recorded
<1>8. CopiesCover /\ Holding(r) /\ Knowing(r)
  BY DEF Serial, Handling
<1>9. \A h : Covers(h, messages', AnsweredSends') <=> Covers(h, messages, AnsweredSends)
  BY <1>1, <1>4, <1>5, CoversLonger
<1>10. UNCHANGED <<MemReady, InUse>>
  BY <1>1 DEF MemReady, InUse
<1>11. CopiesCover'
  <2>1. \A q \in Requests : rpc[q] \notin {"cacheLoaded", "kept", "cacheSummaries", "cacheQuestion",
                                         "readBack", "cacheAnswer"}
    BY <1>2 DEF Ended
  <2> QED
    BY <1>1, <1>8, <1>9, <1>10, <2>1 DEF CopiesCover
<1>12. Holding(r)' /\ Knowing(r)'
  BY <1>1, <1>2, <1>8, <1>10
     DEF Holding, Knowing, Installing, InitPc, StreamPc, Summarized
<1>13. ASSUME NEW q \in Requests, q # r PROVE Holding(q)' /\ Knowing(q)'
  <2>1. rpc'[q] \in Ended \cup {"new"}
    BY <1>2, <1>13
  <2> QED
    BY <2>1 DEF Holding, Knowing, Installing, InitPc, StreamPc, Summarized, Ended
<1> QED
  BY <1>7, <1>11, <1>12, <1>13 DEF Serial, Handling

\* captureInput stores the answer: the request is over, and what memory and Redis
\* have of it is at the end.
LEMMA StoreAnswerSerial ==
  ASSUME IInv, Serial, OneAtATime, OneAtATime', NEW r \in Requests, StoreAnswer(r)
  PROVE  Serial'
<1>1. /\ row = "live" /\ row' = "live" /\ messages' = Append(messages, Answer(r))
      /\ UNCHANGED <<at, local, rSession, rHistory, behind, gap, mem, current>>
  BY DEF StoreAnswer, redisVars, memVars
<1>2. PICK end \in {"ok", "failed"} : Goto(r, "storeAnswer", end)
  BY DEF StoreAnswer
<1>3. /\ rpc[r] = "storeAnswer" /\ rpc'[r] = end
      /\ \A q \in Requests : q # r => rpc'[q] = rpc[q] /\ rpc[q] \in Ended \cup {"new"}
  BY <1>2, RequestAlone DEF Ended, IInv, TypeOK
<1>4. Sends \subseteq Requests /\ r \in Sends
  BY <1>3 DEF Requests, IInv, SendsOnly
<1>5. r \notin AnsweredSends /\ AnsweredSends' = IF end = "ok" THEN AnsweredSends \cup {r} ELSE AnsweredSends
  BY <1>3, <1>4 DEF AnsweredSends
<1>6. /\ Answer(r) \in Entry /\ Answer(r).by = r /\ Answer(r).role = "assistant"
      /\ messages \in History
  BY <1>4 DEF Entry, Answer, IInv, TypeOK, StoreTypes
<1>7. /\ Len(messages) \in Nat /\ DOMAIN messages = 1..Len(messages)
      /\ DOMAIN messages' = 1..(Len(messages) + 1) /\ Len(messages') = Len(messages) + 1
      /\ messages'[Len(messages) + 1] = Answer(r)
      /\ \A i \in DOMAIN messages : messages'[i] = messages[i] /\ messages[i].by \in Sends
  <2>1. \A i \in DOMAIN messages : messages[i] \in Entry
    BY <1>6 DEF History
  <2> QED
    BY <1>1, <1>6, <2>1 DEF History, Entry
<1>8. PICK a \in DOMAIN messages :
        messages[a] = Question(r) /\ \A k \in DOMAIN messages : a < k => messages[k] = Summary(r)
  BY <1>1, <1>3, <1>4 DEF Serial, Recorded, Asked, InProgress, Ended
<1>9. /\ \A i \in DOMAIN messages : messages[i] # Answer(r)
      /\ \A i, k \in DOMAIN messages : messages[i] = messages[k] => i = k
  <2>1. rpc[r] \notin Ended
    BY <1>3 DEF Ended
  <2> QED
    BY <1>6, <2>1 DEF Serial, Recorded
<1>10. Recorded'
  <2>1. \A i, k \in DOMAIN messages' : messages'[i] = messages'[k] => i = k
    BY <1>7, <1>9
  <2>2. end # "new" /\ end \in Ended
    BY DEF Ended
  <2>3. \A i \in DOMAIN messages' :
          /\ rpc'[messages'[i].by] # "new"
          /\ messages'[i].role = "assistant" => rpc'[messages'[i].by] \in Ended
          /\ messages'[i].role = "system" => rpc'[messages'[i].by] \in Summarized \cup Ended
    BY <1>3, <1>4, <1>6, <1>7, <2>2 DEF Serial, Recorded
  <2>4. \A q \in AnsweredSends' : \E i \in DOMAIN messages' : messages'[i] = Question(q)
    <3>1. \A q \in AnsweredSends : \E i \in DOMAIN messages : messages[i] = Question(q)
      BY <1>1 DEF Serial, Recorded
    <3> QED
      BY <1>5, <1>7, <1>8, <3>1
  <2>5. \A q \in Sends : ~InProgress(q)'
    BY <1>3, <1>4, <2>2 DEF InProgress
  <2> QED
    BY <1>1, <2>1, <2>3, <2>4, <2>5 DEF Recorded
<1> SUFFICES CopiesCover' /\ Handling'
  BY <1>10 DEF Serial
<1>11. CopiesCover /\ Holding(r) /\ Knowing(r)
  BY <1>3 DEF Serial, Handling
<1>12. /\ MemReady /\ ~gap => Covers(InUse.history, messages, AnsweredSends)
       /\ MemReady /\ (Summary(r) \in ToSet(messages) => Summary(r) \in ToSet(InUse.history))
  BY <1>3, <1>11 DEF CopiesCover, Holding, Knowing, Summarized
<1>13. PICK h \in History : InUse.history = Append(Append(h, Question(r)), Answer(r))
  BY <1>3, <1>11 DEF Knowing
<1>14. ASSUME ~gap PROVE Covers(InUse.history, messages', AnsweredSends')
  <2>1. CASE end = "ok"
    BY <1>1, <1>4, <1>5, <1>6, <1>8, <1>9, <1>12, <1>13, <1>14, <2>1, CoversAnswered
  <2>2. CASE end # "ok"
    BY <1>1, <1>5, <1>6, <1>12, <1>14, <2>2, CoversLonger
  <2> QED
    BY <2>1, <2>2
<1>15. UNCHANGED <<MemReady, InUse>>
  BY <1>1 DEF MemReady, InUse
<1>16. rSession /\ ~behind => rHistory = InUse.history
  <2>1. \A q \in Requests :
          rpc[q] \notin {"kept", "cacheSummaries", "cacheQuestion", "readBack", "cacheAnswer"}
    BY <1>3 DEF Ended
  <2> QED
    BY <1>11, <1>12, <2>1 DEF CopiesCover
<1>17. CopiesCover'
  BY <1>1, <1>11, <1>12, <1>14, <1>15, <1>16 DEF CopiesCover
<1>18. \A q \in Requests : rpc'[q] \in Ended \cup {"new"}
  BY <1>3 DEF Ended
<1>19. Handling'
  BY <1>18 DEF Handling, Holding, Knowing, Installing, InitPc, StreamPc, Ended,
         Summarized
<1> QED
  BY <1>17, <1>19

\* The row is made: nothing was stored before.
LEMMA CreateSessionSerial ==
  ASSUME IInv, Serial, OneAtATime, OneAtATime', NEW r \in Requests, CreateSession(r)
  PROVE  Serial'
<1>1. /\ r = Creator /\ Goto(r, "initQueued", "setSession") /\ GetState /\ at' = [at EXCEPT ![r] = current']
      /\ row' = "live" /\ UNCHANGED <<local, messages, rSession, rHistory, behind, gap>>
  BY DEF CreateSession, GetStateOf, redisVars
<1>2. /\ rpc[r] = "initQueued" /\ rpc'[r] = "setSession"
      /\ \A q \in Requests : q # r => rpc'[q] = rpc[q] /\ rpc[q] \in Ended \cup {"new"}
  BY <1>1, RequestAlone DEF Ended, IInv, TypeOK
<1>3. row = "none"
  BY <1>1, <1>2 DEF IInv, RowStages
<1>4. messages = <<>> /\ messages' = <<>>
  BY <1>1, <1>3 DEF Serial, Recorded
<1>5. \A q \in Sends : q \in Requests /\ q # Creator /\ rpc[q] = "new" /\ rpc'[q] = "new"
  BY <1>1, <1>2, <1>3, SessionCacheAssumption DEF IInv, BeforeRow, Requests
<1>6. AnsweredSends' = {} /\ \A q \in Sends : ~InProgress(q)'
  BY <1>5 DEF AnsweredSends, InProgress
<1>7. Recorded'
  BY <1>1, <1>4, <1>6 DEF Recorded
<1> SUFFICES CopiesCover' /\ Handling'
  BY <1>7 DEF Serial
<1>8. \A h : Covers(h, messages', AnsweredSends')
  BY <1>4, CoversNothing
<1>9. ~MemReady' /\ at'[r] = current'
  <2>1. ~MemReady
    <3>1. current # 0 => current \in DOMAIN mem
      BY DEF IInv, TypeOK, MemTypes
    <3> QED
      BY <1>3, <3>1 DEF MemReady, InUse, IInv, BeforeRow
  <2> QED
    BY <1>1, <2>1, GetStateKeeps DEF IInv, TypeOK, RequestTypes
<1>10. CopiesCover'
  BY <1>8, <1>9 DEF CopiesCover
<1>11. Holding(r)' /\ Knowing(r)'
  BY <1>2, <1>8, <1>9 DEF Holding, Knowing, Installing, InitPc, StreamPc, Summarized
<1>12. ASSUME NEW q \in Requests, q # r PROVE Holding(q)' /\ Knowing(q)'
  <2>1. rpc'[q] \in Ended \cup {"new"}
    BY <1>2, <1>12
  <2> QED
    BY <2>1 DEF Holding, Knowing, Installing, InitPc, StreamPc, Summarized, Ended
<1> QED
  BY <1>10, <1>11, <1>12 DEF Handling

-----------------------------------------------------------------------------
\* While a cleaner is at work no request is.
LEMMA CleanersAlone ==
  ASSUME NEW c \in Cleaners,
         \/ Cleaning(c) /\ OneAtATime
         \/ Cleaning(c)' /\ OneAtATime' /\ UNCHANGED rpc
  PROVE  \A q \in Requests : rpc[q] \in Ended \cup {"new"}
BY DEF OneAtATime, InProgress, Cleaning

\* What a cleaner does to a memory in use: it leaves it alone or empties it.
LEMMA ResetUserSerial ==
  ASSUME IInv, Serial, OneAtATime, OneAtATime', ResetUser
  PROVE  Serial'
<1>1. UNCHANGED <<rpc, row, messages, rSession, rHistory, behind, gap>> /\ current' = 0
  BY DEF ResetUser, Detach, dbVars, redisVars
<1>2. cleaner'["reset"].pc = "cancel" /\ "reset" \in Cleaners
  BY DEF ResetUser, Detach, Cleaners, IInv, TypeOK, CleanerTypes
<1>3. \A q \in Requests : rpc[q] \in Ended \cup {"new"}
  BY <1>1, <1>2, CleanersAlone DEF Cleaning
<1>4. UNCHANGED AnsweredSends
  BY <1>1 DEF AnsweredSends
<1>5. CopiesCover => CopiesCover'
  BY <1>1, <1>4 DEF CopiesCover, MemReady
<1> QED
  BY <1>1, <1>3, <1>5, SerialByCleaner

\* An emptied userState is not ready.
LEMMA PurgedIsNotReady ==
  ASSUME IInv, mem' = PurgedMem, UNCHANGED current
  PROVE  ~MemReady'
<1>1. CASE current = 0
  BY <1>1 DEF MemReady
<1>2. CASE current # 0
  <2>1. mem' = [mem EXCEPT ![current] = NewState] /\ current \in DOMAIN mem
    BY <1>2 DEF PurgedMem, IInv, TypeOK, MemTypes
  <2> QED
    BY <2>1 DEF MemReady, InUse, NewState
<1> QED
  BY <1>1, <1>2

LEMMA PurgeSerial ==
  ASSUME IInv, Serial, OneAtATime, OneAtATime', Purge
  PROVE  Serial'
<1>1. /\ UNCHANGED <<rpc, row, messages, rSession, rHistory, behind, gap, current>> /\ mem' = PurgedMem
      /\ Cleaning("delete") /\ "delete" \in Cleaners
  BY DEF Purge, Clean, Cleaning, Cleaners, dbVars, redisVars
<1>2. \A q \in Requests : rpc[q] \in Ended \cup {"new"}
  BY <1>1, CleanersAlone
<1>3. UNCHANGED AnsweredSends /\ ~MemReady'
  BY <1>1, PurgedIsNotReady DEF AnsweredSends
<1>4. CopiesCover => CopiesCover'
  BY <1>1, <1>3 DEF CopiesCover
<1> QED
  BY <1>1, <1>2, <1>4, SerialByCleaner

LEMMA DeliverSerial ==
  ASSUME IInv, Serial, OneAtATime, OneAtATime', Deliver
  PROVE  Serial'
<1>1. UNCHANGED <<rpc, row, messages, rSession, rHistory, behind, gap>> /\ "listener" \in Cleaners
  BY DEF Deliver, dbVars, redisVars, Cleaners
<1>2. Cleaning("listener")'
  <2>1. \/ cleaner'["listener"] = [pc |-> "cancel", state |-> current]
        \/ cleaner'["listener"].pc = "del"
    BY <1>1 DEF Deliver, Detach, Clean, IInv, TypeOK, CleanerTypes, CleanerState
  <2> QED
    BY <2>1 DEF Cleaning
<1>3. \A q \in Requests : rpc[q] \in Ended \cup {"new"}
  BY <1>1, <1>2, CleanersAlone
<1>4. ~MemReady'
  <2>1. CASE current' = 0
    BY <2>1 DEF MemReady
  <2>2. CASE current' # 0
    <3>1. mem' = PurgedMem /\ UNCHANGED current
      BY <2>2 DEF Deliver, Detach
    <3> QED
      BY <3>1, PurgedIsNotReady
  <2> QED
    BY <2>1, <2>2
<1>5. UNCHANGED AnsweredSends
  BY <1>1 DEF AnsweredSends
<1>6. CopiesCover => CopiesCover'
  BY <1>1, <1>4, <1>5 DEF CopiesCover
<1> QED
  BY <1>1, <1>3, <1>6, SerialByCleaner

\* The later steps of a cleaner: no job is queued while one is at work, what
\* ClearState empties has left the map, and Redis loses both keys or none.
LEMMA CleanStepSerial ==
  ASSUME IInv, Serial, OneAtATime, OneAtATime', NEW c \in Cleaners, CleanStep(c)
  PROVE  Serial'
<1>1. UNCHANGED <<row, messages, current>> /\ Cleaning(c)
  BY DEF CleanStep, CancelUser, ClearState, InvalidateSession, Publish, Clean, Cleaning,
         dbVars, memVars
<1>2. \A q \in Requests : rpc[q] \in Ended \cup {"new"}
  BY <1>1, CleanersAlone
<1>3. UNCHANGED rpc
  <2>1. ASSUME NEW r \in Requests, NEW q \in {"initQueued", "streamQueued"}, Goto(r, q, "lost")
        PROVE  FALSE
    BY <1>2, <2>1 DEF Goto, Ended
  <2> QED
    BY <2>1 DEF CleanStep, CancelUser, ClearState, InvalidateSession, Publish
<1>4. UNCHANGED AnsweredSends
  BY <1>3 DEF AnsweredSends
<1>5. UNCHANGED <<MemReady, InUse>> \/ current = 0
  <2>1. CASE ClearState(c)
    <3> DEFINE s == cleaner[c].state
    <3>1. mem' = [mem EXCEPT ![s] = NewState] /\ cleaner[c].pc = "clear"
      BY <2>1 DEF ClearState
    <3>2. s # 0 /\ s # current
      BY <3>1 DEF IInv, TypeOK, CleanerTypes, Detached
    <3>3. current # 0 => current \in DOMAIN mem
      BY DEF IInv, TypeOK, MemTypes
    <3> QED
      BY <1>1, <3>1, <3>2, <3>3 DEF MemReady, InUse
  <2>2. CASE ~ClearState(c)
    BY <1>1, <2>2
       DEF CleanStep, CancelUser, InvalidateSession, Publish, memVars, MemReady, InUse
  <2> QED
    BY <2>1, <2>2
<1>6. UNCHANGED <<behind, gap>> /\ (rSession' => UNCHANGED <<rSession, rHistory>>)
  BY DEF CleanStep, CancelUser, ClearState, InvalidateSession, Publish, redisVars
<1>7. CopiesCover => CopiesCover'
  <2>1. current = 0 => ~MemReady /\ ~MemReady'
    BY <1>1 DEF MemReady
  <2> QED
    BY <1>1, <1>3, <1>4, <1>5, <1>6, <2>1 DEF CopiesCover
<1> QED
  BY <1>1, <1>2, <1>3, <1>7, SerialByCleaner

\* Without a row there is nothing to cover.
LEMMA DeleteSessionSerial ==
  ASSUME IInv, Serial, OneAtATime, OneAtATime', DeleteSession
  PROVE  Serial'
<1>1. /\ UNCHANGED <<rpc, rSession, rHistory, behind, gap, mem, current>> /\ messages' = <<>> /\ row' = "deleted"
      /\ "delete" \in Cleaners
  BY DEF DeleteSession, redisVars, memVars, Cleaners
<1>2. Cleaning("delete")'
  BY <1>1 DEF DeleteSession, Clean, Cleaning, IInv, TypeOK, CleanerTypes
<1>3. \A q \in Requests : rpc[q] \in Ended \cup {"new"}
  BY <1>1, <1>2, CleanersAlone
<1>4. Recorded'
  BY <1>1 DEF Recorded
<1>5. UNCHANGED <<MemReady, InUse>>
  BY <1>1 DEF MemReady, InUse
<1>6. \A h : Covers(h, messages', AnsweredSends')
  BY <1>1, CoversNothing
<1>7. CopiesCover => CopiesCover'
  BY <1>1, <1>5, <1>6 DEF CopiesCover
<1>8. \A q \in Requests : rpc'[q] \in Ended \cup {"new"}
  BY <1>1, <1>3
<1>9. Handling'
  BY <1>8 DEF Handling, Holding, Knowing, Installing, InitPc, StreamPc, Ended,
         Summarized
<1> QED
  BY <1>4, <1>5, <1>7, <1>9 DEF Serial

\* A key ends at any time: Redis then has no session, or a history that was behind
\* is gone.
LEMMA ExpireSerial ==
  ASSUME IInv, Serial, Expire
  PROVE  Serial'
<1>1. /\ UNCHANGED <<rpc, at, local, row, messages, mem, current, behind, gap>>
      /\ rSession' => rSession /\ behind
      /\ rHistory' = rHistory \/ rHistory' = Absent
  BY DEF Expire, dbVars, memVars, IInv, TypeOK, StoreTypes
<1>2. GoesOn
  BY <1>1 DEF GoesOn
<1>3. Recorded' /\ UNCHANGED AnsweredSends
  BY <1>1, <1>2, RecordedKept DEF IInv, TypeOK, Serial
<1>4. UNCHANGED <<MemReady, InUse>>
  BY <1>1 DEF MemReady, InUse
<1>5. CopiesCover => CopiesCover'
  BY <1>1, <1>3, <1>4 DEF CopiesCover
<1>6. ASSUME NEW q \in Requests, Holding(q) /\ Knowing(q) PROVE Holding(q)' /\ Knowing(q)'
  <2>1. Holding(q)'
    BY <1>1, <1>4, <1>6 DEF Holding
  <2>2. Knowing(q)'
    BY <1>1, <1>3, <1>4, <1>6 DEF Knowing
  <2> QED
    BY <2>1, <2>2
<1> QED
  BY <1>3, <1>4, <1>5, <1>6 DEF Serial, Handling

\* A restart loses memory; Redis covers what was answered, or was not told.
LEMMA RestartSerial ==
  ASSUME IInv, Serial, Restart
  PROVE  Serial'
<1>1. /\ UNCHANGED <<row, messages, rSession, rHistory, gap>> /\ current' = 0
      /\ behind' = (behind \/ \E r \in Requests : rpc[r] = "cacheLoaded")
      /\ rpc' = [r \in Requests |-> IF InProgress(r) THEN "crashed" ELSE rpc[r]]
  BY DEF Restart, dbVars
<1>2. GoesOn
  BY <1>1 DEF GoesOn, InProgress, Ended
<1>3. Recorded' /\ UNCHANGED AnsweredSends
  BY <1>1, <1>2, RecordedKept DEF IInv, TypeOK, Serial
<1>4. CopiesCover'
  BY <1>1, <1>3 DEF Serial, CopiesCover, MemReady
<1>5. \A q \in Requests : rpc'[q] \in Ended \cup {"new"}
  BY <1>1 DEF InProgress, Ended
<1>6. Handling'
  BY <1>5 DEF Handling, Holding, Knowing, Installing, InitPc, StreamPc, Summarized, Ended
<1> QED
  BY <1>3, <1>4, <1>6 DEF Serial

-----------------------------------------------------------------------------
LEMMA SerialInit == Init => Serial
<1> SUFFICES ASSUME Init PROVE Serial
  OBVIOUS
<1>1. \A r \in Requests : rpc[r] = "new"
  BY DEF Init
<1>2. messages = <<>> /\ row = "none" /\ ~rSession /\ ~MemReady
  BY DEF Init, MemReady
<1>3. Recorded
  BY <1>2 DEF Recorded
<1>4. CopiesCover
  BY <1>2 DEF CopiesCover
<1>5. Handling
  BY <1>1 DEF Handling, Holding, Knowing, Installing, InitPc, StreamPc, Summarized
<1> QED
  BY <1>3, <1>4, <1>5 DEF Serial

LEMMA SerialNext == IInv /\ Serial /\ OneAtATime /\ OneAtATime' /\ [Next]_vars => Serial'
<1> SUFFICES ASSUME IInv, Serial, OneAtATime, OneAtATime', [Next]_vars PROVE Serial'
  OBVIOUS
<1>1. ASSUME NEW r \in Requests, CallStep(r) PROVE Serial'
  BY <1>1, StartSerial, StoreQuestionSerial, CheckReadySerial, StoreAnswerSerial, FailSerial
     DEF CallStep
<1>2. ASSUME NEW r \in Requests, InitStep(r) PROVE Serial'
  BY <1>2, CreateSessionSerial, StartInitSerial, LoadSessionSerial, LoadHistorySerial,
     LoadDatabaseSerial, SetSessionSerial, SetHistorySerial, CacheSessionSerial,
     CacheLoadedSerial, MarkReadySerial
     DEF InitStep
<1>3. ASSUME NEW r \in Requests, StreamStep(r) PROVE Serial'
  BY <1>3, StartStreamSerial, ReadHistorySerial, StoreTitleSerial, StoreSummarySerial,
     KeepSummarySerial, SetSummariesSerial, CacheSummariesSerial, AddQuestionSerial,
     CacheQuestionSerial, StreamChatSerial, AppendAnswerSerial, ReadBackSerial,
     CacheAnswerSerial
     DEF StreamStep
<1>4. CASE UNCHANGED vars
  <2>1. GoesOn /\ UNCHANGED <<row, messages>>
    BY <1>4 DEF vars, dbVars, GoesOn
  <2>2. Recorded' /\ UNCHANGED AnsweredSends
    BY <2>1, RecordedKept DEF IInv, TypeOK, Serial
  <2>3. UNCHANGED <<rpc, at, local, rSession, rHistory, behind, gap, MemReady, InUse>>
    BY <1>4 DEF vars, redisVars, memVars, MemReady, InUse
  <2>4. CopiesCover => CopiesCover'
    BY <2>1, <2>2, <2>3 DEF CopiesCover
  <2>5. ASSUME NEW q \in Requests, Holding(q) /\ Knowing(q) PROVE Holding(q)' /\ Knowing(q)'
    <3>1. Holding(q)'
      BY <1>4, <2>3, <2>5 DEF Holding, vars, memVars
    <3>2. Knowing(q)'
      BY <2>1, <2>2, <2>3, <2>5 DEF Knowing
    <3> QED
      BY <3>1, <3>2
  <2> QED
    BY <2>2, <2>3, <2>4, <2>5 DEF Serial, Handling
<1> QED
  BY <1>1, <1>2, <1>3, <1>4, ResetUserSerial, DeleteSessionSerial, PurgeSerial,
     DeliverSerial, CleanStepSerial, ExpireSerial, RestartSerial
     DEF Next

\* With nothing counted as active there is nothing at work.
LEMMA ActiveNone ==
  ASSUME OneAtATime, Active = 0 \/ Active < 1
  PROVE  /\ \A r \in Requests : ~InProgress(r)
         /\ \A c \in Cleaners : ~Cleaning(c)
<1> DEFINE R == {r \in Requests : InProgress(r)}
           C == {c \in Cleaners : Cleaning(c)}
<1>1. ASSUME NEW S, \A a, b \in S : a = b
      PROVE  IsFiniteSet(S) /\ Cardinality(S) \in Nat /\ (Cardinality(S) = 0 <=> S = {})
  <2>1. CASE S = {}
    BY <2>1, FS_EmptySet
  <2>2. ASSUME NEW a \in S PROVE IsFiniteSet(S)
    <3>1. S = {a}
      BY <1>1
    <3> QED
      BY <3>1, FS_Singleton
  <2>3. IsFiniteSet(S)
    BY <2>1, <2>2
  <2> QED
    BY <2>3, FS_CardinalityType, FS_EmptySet
<1>2. (\A a, b \in R : a = b) /\ (\A a, b \in C : a = b)
  BY DEF OneAtATime
<1>3. Cardinality(R) \in Nat /\ (Cardinality(R) = 0 => R = {})
  BY <1>1, <1>2
<1>4. Cardinality(C) \in Nat /\ (Cardinality(C) = 0 => C = {})
  BY <1>1, <1>2
<1>5. Active = Cardinality(R) + Cardinality(C)
  BY DEF Active
<1> HIDE DEF R, C
<1>6. R = {} /\ C = {}
  BY <1>3, <1>4, <1>5
<1> QED
  BY <1>6 DEF R, C

\* No step but those guarded by Begin puts anything to work.
LEMMA OneAtATimeNext ==
  ASSUME MaxActive = 1, IInv, OneAtATime, [Next]_vars
  PROVE  OneAtATime'
<1> DEFINE Fewer == /\ \A q \in Requests : InProgress(q)' => InProgress(q)
                    /\ \A c \in Cleaners : Cleaning(c)' => Cleaning(c)
<1>1. Fewer => OneAtATime'
  BY DEF OneAtATime
<1>2. Begin => /\ \A r \in Requests : ~InProgress(r)
               /\ \A c \in Cleaners : ~Cleaning(c)
  BY ActiveNone DEF Begin
<1>3. ASSUME NEW r \in Requests, NEW from, NEW to, Goto(r, from, to), UNCHANGED cleaner,
             from \notin Ended \cup {"new"} \/ Begin
      PROVE  OneAtATime'
  <2>1. /\ rpc[r] = from /\ \A q \in Requests : q # r => rpc'[q] = rpc[q]
        /\ \A c \in Cleaners : Cleaning(c)' <=> Cleaning(c)
    BY <1>3 DEF Goto, Cleaning, IInv, TypeOK, RequestTypes
  <2>2. CASE from \notin Ended \cup {"new"}
    <3>1. InProgress(r)
      BY <2>1, <2>2 DEF InProgress
    <3> QED
      BY <1>1, <2>1, <3>1 DEF InProgress
  <2>3. CASE Begin
    BY <1>2, <2>1, <2>3 DEF OneAtATime, InProgress
  <2> QED
    BY <1>3, <2>2, <2>3
<1>4. ASSUME NEW c \in Cleaners, Begin, UNCHANGED rpc,
             \A d \in Cleaners : d # c => cleaner'[d] = cleaner[d]
      PROVE  OneAtATime'
  BY <1>2, <1>4 DEF OneAtATime, InProgress, Cleaning
<1>5. ASSUME NEW r \in Requests, CallStep(r) PROVE OneAtATime'
  <2>1. UNCHANGED cleaner
    BY <1>5 DEF CallStep, Start, StoreQuestion, CheckReady, StoreAnswer, Fail, clearVars
  <2>2. CASE Start(r) \/ StoreQuestion(r)
    BY <1>3, <2>1, <2>2 DEF Start, StoreQuestion
  <2>3. CASE CheckReady(r)
    BY <1>3, <2>1, <2>3 DEF CheckReady, Ended
  <2>4. CASE StoreAnswer(r)
    BY <1>3, <2>1, <2>4 DEF StoreAnswer, Ended
  <2>5. CASE Fail(r)
    <3>1. Goto(r, rpc[r], "failed") /\ rpc[r] \notin Ended \cup {"new"}
      BY <2>5 DEF Fail, Goto, Ended
    <3> QED
      BY <1>3, <2>1, <3>1
  <2> QED
    BY <1>5, <2>2, <2>3, <2>4, <2>5 DEF CallStep
<1>6. ASSUME NEW r \in Requests, InitStep(r) \/ StreamStep(r) PROVE OneAtATime'
  <2>1. UNCHANGED cleaner
    BY <1>6 DEF InitStep, CreateSession, StartInit, LoadSession, LoadHistory, LoadDatabase,
         SetSession, SetHistory, CacheSession, CacheLoaded, MarkReady, StreamStep, StartStream,
         ReadHistory, StoreTitle, StoreSummary, KeepSummary, SetSummaries, CacheSummaries,
         AddQuestion, CacheQuestion, StreamChat, AppendAnswer, ReadBack, CacheAnswer, clearVars
  <2>2. \E from \in InitPc \cup StreamPc \cup {"initQueued", "streamQueued"} : \E to : Goto(r, from, to)
    BY <1>6 DEF InitStep, CreateSession, StartInit, LoadSession, LoadHistory, LoadDatabase,
         SetSession, SetHistory, CacheSession, CacheLoaded, MarkReady, StreamStep, StartStream,
         ReadHistory, StoreTitle, StoreSummary, KeepSummary, SetSummaries, CacheSummaries,
         AddQuestion, CacheQuestion, StreamChat, AppendAnswer, ReadBack, CacheAnswer, InitPc, StreamPc
  <2>3. PICK from \in InitPc \cup StreamPc \cup {"initQueued", "streamQueued"} : \E to : Goto(r, from, to)
    BY <2>2
  <2>4. PICK to : Goto(r, from, to)
    BY <2>3
  <2>5. from \notin Ended \cup {"new"}
    BY <2>3, Stages
  <2> QED
    BY <1>3, <2>1, <2>4, <2>5
<1>7. CASE ResetUser
  <2>1. "reset" \in Cleaners /\ Begin /\ UNCHANGED rpc
        /\ \A d \in Cleaners : d # "reset" => cleaner'[d] = cleaner[d]
    BY <1>7 DEF ResetUser, Detach, Cleaners, IInv, TypeOK, CleanerTypes
  <2> QED
    BY <1>4, <2>1
<1>8. CASE DeleteSession
  <2>1. "delete" \in Cleaners /\ Begin /\ UNCHANGED rpc
        /\ \A d \in Cleaners : d # "delete" => cleaner'[d] = cleaner[d]
    BY <1>8 DEF DeleteSession, Clean, Cleaners, IInv, TypeOK, CleanerTypes
  <2> QED
    BY <1>4, <2>1
<1>9. CASE Deliver
  <2>1. "listener" \in Cleaners /\ Begin /\ UNCHANGED rpc
        /\ \A d \in Cleaners : d # "listener" => cleaner'[d] = cleaner[d]
    BY <1>9 DEF Deliver, Detach, Clean, Cleaners, IInv, TypeOK, CleanerTypes
  <2> QED
    BY <1>4, <2>1
<1>10. CASE Purge
  <2>1. /\ UNCHANGED rpc /\ Cleaning("delete") /\ "delete" \in Cleaners
        /\ \A d \in Cleaners : d # "delete" => cleaner'[d] = cleaner[d]
    BY <1>10 DEF Purge, Clean, Cleaning, Cleaners, IInv, TypeOK, CleanerTypes
  <2> QED
    BY <1>1, <2>1 DEF Cleaning, InProgress
<1>11. ASSUME NEW c \in Cleaners, CleanStep(c) PROVE OneAtATime'
  <2>1. /\ Cleaning(c)
        /\ \A d \in Cleaners : d # c => cleaner'[d] = cleaner[d]
    BY <1>11 DEF CleanStep, CancelUser, ClearState, InvalidateSession, Publish, Clean, Cleaning,
         IInv, TypeOK, CleanerTypes
  <2>2. \A q \in Requests : rpc'[q] = rpc[q] \/ rpc'[q] = "lost"
    BY <1>11 DEF CleanStep, CancelUser, ClearState, InvalidateSession, Publish, Goto, IInv,
         TypeOK, RequestTypes
  <2> QED
    BY <1>1, <2>1, <2>2 DEF Cleaning, InProgress, Ended
<1>12. CASE Expire
  BY <1>1, <1>12 DEF Expire, clearVars, Cleaning, InProgress
<1>13. CASE Restart
  BY <1>1, <1>13 DEF Restart, Cleaning, InProgress, NotCleaning, Ended
<1>14. CASE UNCHANGED vars
  BY <1>1, <1>14 DEF vars, clearVars, Cleaning, InProgress
<1> QED
  BY <1>5, <1>6, <1>7, <1>8, <1>9, <1>10, <1>11, <1>12, <1>13, <1>14 DEF Next

\* The bound that the run sets makes everything happen one at a time.
THEOREM BoundOfOne == ASSUME MaxActive = 1 PROVE Spec => []OneAtATime
<1>1. Init => OneAtATime
  BY DEF Init, OneAtATime, InProgress, Cleaning, NotCleaning
<1>2. IInv /\ OneAtATime /\ [Next]_vars => OneAtATime'
  BY OneAtATimeNext
<1> QED
  BY <1>1, <1>2, Invariance, PTL DEF Spec

\* While things happen one at a time, whatever the bounds, every copy of the
\* conversation covers what was answered, unless it has a gap or is behind.
THEOREM SerialInvariance == Spec /\ []OneAtATime => []Serial
<1>1. Init => Serial
  BY SerialInit
<1>2. IInv /\ Serial /\ OneAtATime /\ OneAtATime' /\ [Next]_vars => Serial'
  BY SerialNext
<1> QED
  BY <1>1, <1>2, Invariance, PTL DEF Spec

\* One thing at a time, the model is asked with every question answered before
\* and its answer, in order, whichever copies were lost and whichever commands
\* failed in between, unless memory has a gap.
THEOREM ContextKept == ASSUME MaxActive = 1 PROVE Spec => []AnsweredInContext
<1>1. Serial => AnsweredInContext
  <2> SUFFICES ASSUME Serial, NEW r \in Sends, rpc[r] = "ask", ~gap
               PROVE  Covers(local[r], messages, AnsweredSends)
    BY DEF AnsweredInContext
  <2>1. r \in Requests
    BY DEF Requests
  <2>2. MemReady /\ local[r] = InUse.history
    BY <2>1 DEF Serial, Handling, Holding, Knowing, StreamPc
  <2> QED
    BY <2>2 DEF Serial, CopiesCover
<1> QED
  BY <1>1, BoundOfOne, SerialInvariance, PTL

\* One thing at a time, Redis has the history that memory has whenever nothing is
\* going on, unless it is behind: one SET that succeeds makes up for those that
\* failed.
THEOREM CachesStayAgreed == ASSUME MaxActive = 1 PROVE Spec => []CachesAgree
<1>1. Serial /\ OneAtATime => CachesAgree
  <2> SUFFICES ASSUME Serial, OneAtATime, Active = 0, ~behind, rSession, current # 0,
                      mem[current].ready
               PROVE  rHistory = mem[current].history
    BY DEF CachesAgree
  <2>1. \A q \in Requests :
          rpc[q] \notin {"kept", "cacheSummaries", "cacheQuestion", "readBack", "cacheAnswer"}
    BY ActiveNone DEF InProgress, Ended
  <2> QED
    BY <2>1 DEF Serial, CopiesCover, MemReady, InUse
<1> QED
  BY <1>1, BoundOfOne, SerialInvariance, PTL

\* A history that covers an answered question has a question.
LEMMA TitleStep ==
  ASSUME IInv, Serial, [Next]_vars, AnsweredSends # {}, ~gap
  PROVE  title' = title
<1>1. ASSUME NEW r \in Requests, StoreTitle(r) PROVE FALSE
  <2>1. rpc[r] = "title" /\ row = "live"
    BY <1>1 DEF StoreTitle, Goto
  <2>2. /\ MemReady /\ local[r] = InUse.history /\ ~HasUserMessage(local[r])
    BY <2>1 DEF Serial, Handling, Holding, Knowing, StreamPc
  <2>3. Covers(local[r], messages, AnsweredSends)
    BY <2>2 DEF Serial, CopiesCover
  <2>4. PICK a \in AnsweredSends : TRUE
    OBVIOUS
  <2>5. PICK i \in DOMAIN messages : messages[i] = Question(a)
    BY <2>1, <2>4 DEF Serial, Recorded
  <2>6. Question(a) \in ToSet(local[r])
    BY <2>3, <2>4, <2>5 DEF Covers, Question
  <2> QED
    BY <2>2, <2>6 DEF ToSet, HasUserMessage, Question
<1>2. ASSUME NEW r \in Requests, CallStep(r) PROVE title' = title
  BY <1>2 DEF CallStep, Start, StoreQuestion, CheckReady, StoreAnswer, Fail, dbVars
<1>3. ASSUME NEW r \in Requests, InitStep(r) PROVE title' = title
  BY <1>3 DEF InitStep, CreateSession, StartInit, LoadSession, LoadHistory, LoadDatabase,
       SetSession, SetHistory, CacheSession, CacheLoaded, MarkReady, dbVars
<1>4. ASSUME NEW r \in Requests, StreamStep(r) PROVE title' = title
  BY <1>1, <1>4 DEF StreamStep, StartStream, ReadHistory, StoreSummary, KeepSummary,
       SetSummaries, CacheSummaries, AddQuestion, CacheQuestion, StreamChat, AppendAnswer, ReadBack, CacheAnswer, dbVars
<1>5. ASSUME NEW c \in Cleaners, CleanStep(c) PROVE title' = title
  BY <1>5 DEF CleanStep, CancelUser, ClearState, InvalidateSession, Publish, dbVars
<1> QED
  BY <1>2, <1>3, <1>4, <1>5
     DEF Next, ResetUser, DeleteSession, Purge, Deliver, Expire, Restart, vars, dbVars

\* One thing at a time, a title stays once a question was answered, unless memory
\* has a gap.
THEOREM TitlesKept == ASSUME MaxActive = 1 PROVE Spec => TitleKept
<1>1. IInv /\ Serial /\ [Next]_vars =>
        [AnsweredSends # {} /\ title # NoTitle /\ ~gap => title' = title]_title
  BY TitleStep
<1> QED
  BY <1>1, Invariance, BoundOfOne, SerialInvariance, PTL DEF Spec, TitleKept
=============================================================================
