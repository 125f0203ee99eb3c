--------------------------- MODULE ChatStoreProofs ---------------------------
(***************************************************************************)
(* Proofs about ChatStore, for any number of sessions, files, clicks,      *)
(* questions and stream events.  The types and what each async function    *)
(* holds at its awaits come first (Base); the lists, the files and the     *)
(* agreement with the database each have an invariant of their own.        *)
(***************************************************************************)
EXTENDS ChatStore, SequenceLemmas

\* The session is or was in the database.
Known(s) == s \in Sessions /\ status[s] # "new"

\* Sessions come and go, each once.
Onward ==
  \A s \in Sessions :
    /\ status[s] # "new" => status'[s] # "new"
    /\ status[s] = "gone" => status'[s] = "gone"

TaskRecord ==
  [op : {"none", "list", "create", "resume", "remove", "send", "upload"},
   pc : {"none", "list", "listed", "start", "started", "load", "loaded", "delete",
         "deleted", "tokens", "upload", "uploaded", "lost"},
   s : Sessions \cup {None},
   got : Seq(Sessions) \cup Seq(Notes) \cup Seq(Files),
   copy : SUBSET Files,
   new : SUBSET Files]

\* What an async function holds at each of its awaits.
Fits(p, t) ==
  /\ t.op = "none" <=> t.pc = "none"
  /\ p = "send" => t.op \in {"none", "send"}
  /\ p = "upload" => t.op \in {"none", "upload"}
  /\ t.op = "send" => p = "send" /\ t.pc \in {"start", "lost", "started", "load", "loaded"}
  /\ t.op = "upload" => t.pc \in {"start", "lost", "started", "load", "loaded", "upload", "uploaded"}
  /\ t.pc \in {"upload", "uploaded"} => p = "upload"
  /\ t.s = None \/ Known(t.s)
  /\ t.pc \in {"started", "load", "loaded", "delete", "deleted", "upload", "uploaded"} => t.s # None
  /\ t.pc = "deleted" => status[t.s] = "gone"
  /\ t.pc = "listed" => /\ t.got \in Seq(Sessions) /\ Distinct(t.got)
                        /\ \A s \in ToSet(t.got) : Known(s)
  /\ t.pc = "loaded" => t.got \in Seq(Notes)
  /\ t.pc = "upload" => t.got = <<>>
  /\ t.pc = "uploaded" => \E f \in Files : t.got = <<f>>
  /\ t.pc \notin {"upload", "uploaded"} => t.copy = {} /\ t.new = {}

TaskTypes ==
  /\ task \in [Tasks -> TaskRecord]
  /\ \A p \in Tasks : Fits(p, task[p])

ServedRecord ==
  [pc : {"none", "asked", "acked", "over", "lost"}, s : Sessions \cup {None}, chunks : Nat]

BackendTypes ==
  /\ status \in [Sessions -> {"new", "here", "gone"}]
  /\ stored \in [Sessions -> Seq(Notes)]
  /\ served \in [Turns -> ServedRecord]
  /\ home \in [Files -> Sessions \cup {None}]
  /\ \A n \in Turns : served[n].pc # "none" => Known(served[n].s)
  /\ \A f \in Files : home[f] # None => Known(home[f])

BarTypes ==
  /\ sessions \in Seq(Sessions)
  /\ Distinct(sessions)
  /\ \A s \in ToSet(sessions) : Known(s)
  /\ current = None \/ Known(current)

ShownTypes ==
  /\ shown \in [Sessions -> Seq(Notes) \cup {None}]
  /\ \A s \in Sessions : shown[s] # None => Known(s)

PageTypes ==
  /\ files \in [Sessions -> SUBSET Files]
  /\ sending \in BOOLEAN
  /\ astray \in SUBSET Sessions
  /\ spent \in SUBSET Files
  /\ dropped \in SUBSET Files
  /\ crossed \in SUBSET Files
  /\ stuck \in BOOLEAN

Events == {"ack", "stream", "done", "titled", "error", "end"}

TurnRecord ==
  [n : 0..MaxTurns, s : Sessions \cup {None}, held : BOOLEAN, temp : Nat,
   out : SUBSET Files, events : Seq(Events)]

TurnTypes ==
  /\ turn \in TurnRecord
  /\ ~Open => turn = NoTurn
  /\ Open => Known(turn.s) /\ served[turn.n].pc # "none" /\ served[turn.n].s = turn.s

\* The list a send holds is there, and long enough for its draft.
HeldTypes == turn.held => shown[turn.s] # None /\ turn.temp <= Len(shown[turn.s])

\* A send is at work before streamConversation or in it, never both.
SendingLocks ==
  /\ Open => sending /\ Free("send")
  /\ ~Free("send") => sending

Base ==
  /\ TaskTypes
  /\ BackendTypes
  /\ BarTypes
  /\ ShownTypes
  /\ PageTypes
  /\ TurnTypes
  /\ HeldTypes
  /\ SendingLocks

-----------------------------------------------------------------------------
(* Facts about the operators of the page. *)

LEMMA TasksAre == /\ "send" \in Tasks /\ "upload" \in Tasks /\ Clicks \subseteq Tasks
                  /\ \A c \in Clicks : c # "send" /\ c # "upload"
BY ChatStoreAssumption DEF Tasks

LEMMA NoneIsNot == None \notin Sessions /\ \A l \in Seq(Notes) : l # None
BY ChatStoreAssumption

LEMMA NotesAre ==
  ASSUME NEW n \in Turns, NEW r \in Roles
  PROVE  <<n, r>> \in Notes /\ n \in 0..MaxTurns /\ n # 0
BY ChatStoreAssumption DEF Notes, Turns

\* The task of one function.
LEMMA TaskFacts ==
  ASSUME TaskTypes, NEW p \in Tasks
  PROVE  task[p] \in TaskRecord /\ Fits(p, task[p])
BY DEF TaskTypes

LEMMA HomeOfTask ==
  ASSUME TaskTypes, NEW p \in Tasks, task[p].s # None
  PROVE  Known(task[p].s) /\ task[p].s \in Sessions
BY TaskFacts DEF Fits, Known

\* One function goes on, and the others stay where they are.
LEMMA TaskMoves ==
  ASSUME TaskTypes, Onward, NEW p \in Tasks, task' \in [Tasks -> TaskRecord],
         \A q \in Tasks : q # p => task'[q] = task[q],
         Fits(p, task[p])'
  PROVE  TaskTypes'
<1>1. ASSUME NEW q \in Tasks, q # p PROVE Fits(q, task[q])'
  <2>1. Fits(q, task[q])
    BY DEF TaskTypes
  <2>2. \A s : Known(s) => Known(s)'
    BY DEF Known, Onward
  <2>3. task[q].pc = "deleted" => task[q].s \in Sessions
    BY <2>1 DEF Fits, Known
  <2>4. task'[q] = task[q]
    BY <1>1
  <2> QED
    BY <2>1, <2>2, <2>3, <2>4 DEF Fits, Onward
<1> QED
  BY <1>1 DEF TaskTypes

\* One question goes on.
LEMMA ServedMoves ==
  ASSUME BackendTypes, NEW n \in Turns, NEW r \in ServedRecord, Known(r.s),
         served' = [served EXCEPT ![n] = r],
         UNCHANGED <<status, home>>, stored' \in [Sessions -> Seq(Notes)]
  PROVE  BackendTypes'
<1>1. served' \in [Turns -> ServedRecord]
  BY DEF BackendTypes
<1>2. ASSUME NEW m \in Turns, served'[m].pc # "none" PROVE Known(served'[m].s)
  <2>1. CASE m = n
    BY <2>1 DEF BackendTypes
  <2>2. CASE m # n
    BY <1>2, <2>2 DEF BackendTypes
  <2> QED
    BY <2>1, <2>2
<1> QED
  BY <1>1, <1>2 DEF BackendTypes, Known

\* The backend appends a message.
LEMMA StoredGrows ==
  ASSUME BackendTypes, NEW n \in Turns, NEW s \in Sessions, NEW r \in Roles,
         stored' = [stored EXCEPT ![s] = Append(@, <<n, r>>)]
  PROVE  stored' \in [Sessions -> Seq(Notes)]
<1>1. stored \in [Sessions -> Seq(Notes)] /\ stored[s] \in Seq(Notes)
  BY DEF BackendTypes
<1>2. Append(stored[s], <<n, r>>) \in Seq(Notes)
  BY <1>1, NotesAre
<1> QED
  BY <1>1, <1>2

\* No session comes back.
LEMMA StatusStep ==
  ASSUME BackendTypes, [Next]_vars
  PROVE  Onward
<1>1. CASE UNCHANGED status
  BY <1>1 DEF Onward
<1>2. ASSUME NEW p \in Tasks, ServeStart(p)
     PROVE  Onward
  BY <1>2 DEF ServeStart, Here, Onward, BackendTypes
<1>3. ASSUME NEW p \in Tasks, ServeDelete(p)
     PROVE  Onward
  BY <1>3 DEF ServeDelete, Here, Onward, BackendTypes
<1>4. ASSUME NEW p \in Tasks, StartLost(p) \/ ServeList(p) \/ ServeLoad(p) \/ ServeUpload(p) \/
                              Started(p) \/ Listed(p) \/ Deleted(p) \/ Loaded(p) \/
                              TokensFetched(p) \/ CallFails(p)
     PROVE  Onward
  BY <1>4, <1>1 DEF StartLost, ServeList, ServeLoad, ServeUpload, Started, Listed, Deleted, Loaded,
                    TokensFetched, CallFails, backend, history
<1>5. ASSUME NEW n \in Turns, ServeAck(n) \/ ServeChunk(n) \/ ServeDone(n) \/ ServeError(n) \/ ServeLost(n)
     PROVE  Onward
  BY <1>5, <1>1 DEF ServeAck, ServeChunk, ServeDone, ServeError, ServeLost, backend, history
<1>6. ASSUME NEW p \in Clicks, CreateSession(p)
     PROVE  Onward
  BY <1>6, <1>1 DEF CreateSession, backend, history
<1>7. ASSUME NEW p \in Clicks, NEW s \in Sessions, ResumeSession(p, s) \/
                                                   RemoveSession(p, s)
     PROVE  Onward
  BY <1>7, <1>1 DEF ResumeSession, RemoveSession, backend, history
<1>8. ASSUME SendMessage \/ SendLoaded \/ OnAck \/ OnStream \/ OnDone \/ OnError \/
             StreamEnd \/ StreamBreaks \/ UploadFiles \/ UploadLoaded \/ Uploaded
     PROVE  Onward
  BY <1>8, <1>1 DEF SendMessage, SendLoaded, OnAck, OnStream, OnDone, OnError, StreamEnd,
                    StreamBreaks, UploadFiles, UploadLoaded, Uploaded, Throws, backend,
                    history
<1>9. ASSUME NEW f \in Files, RemoveAttachment(f)
     PROVE  Onward
  BY <1>9, <1>1 DEF RemoveAttachment, backend, history
<1>10. CASE UNCHANGED vars
  BY <1>10, <1>1 DEF vars, backend, history
<1> QED
  BY <1>1, <1>2, <1>3, <1>4, <1>5, <1>6, <1>7, <1>8, <1>9, <1>10
     DEF Next, Answer, ServeQuestion, ReadStream

\* The types of the backend.
LEMMA BackendStep ==
  ASSUME TaskTypes, BackendTypes, BarTypes, Onward, [Next]_vars
  PROVE  BackendTypes'
<1>1. CASE UNCHANGED <<status, stored, served, home>>
  BY <1>1 DEF BackendTypes, Known
<1>2. ASSUME NEW p \in Tasks, ServeStart(p)
     PROVE  BackendTypes'
  BY <1>2 DEF ServeStart, BackendTypes, Known, Onward
<1>3. ASSUME NEW p \in Tasks, ServeDelete(p)
     PROVE  BackendTypes'
  BY <1>3 DEF ServeDelete, BackendTypes, Known, Onward
<1>4. ASSUME NEW p \in Tasks, ServeUpload(p)
     PROVE  BackendTypes'
  BY <1>4, HomeOfTask DEF ServeUpload, Here, BackendTypes, Known
<1>5. ASSUME NEW n \in Turns, ServeAck(n)
     PROVE  BackendTypes'
  <2>1. served[n] \in ServedRecord /\ served[n].pc # "none" /\ Known(served[n].s)
    BY <1>5 DEF ServeAck, BackendTypes
  <2>2. [served[n] EXCEPT !.pc = "acked"] \in ServedRecord
    BY <2>1 DEF ServedRecord
  <2>3. stored' \in [Sessions -> Seq(Notes)]
    BY <1>5, <2>1, StoredGrows DEF ServeAck, Roles, Known
  <2> QED
    BY <1>5, <2>1, <2>2, <2>3, ServedMoves DEF ServeAck, ServedRecord
<1>6. ASSUME NEW n \in Turns, ServeChunk(n)
     PROVE  BackendTypes'
  <2>1. served[n] \in ServedRecord /\ Known(served[n].s)
    BY <1>6 DEF ServeChunk, BackendTypes
  <2>2. [served[n] EXCEPT !.chunks = @ + 1] \in ServedRecord
        /\ [served[n] EXCEPT !.chunks = @ + 1].s = served[n].s
    BY <2>1 DEF ServedRecord
  <2> QED
    BY <1>6, <2>1, <2>2, ServedMoves DEF ServeChunk, BackendTypes
<1>7. ASSUME NEW n \in Turns, ServeDone(n)
     PROVE  BackendTypes'
  <2>1. served[n] \in ServedRecord /\ served[n].pc # "none" /\ Known(served[n].s)
    BY <1>7 DEF ServeDone, BackendTypes
  <2>2. [served[n] EXCEPT !.pc = "over", !.chunks = 0] \in ServedRecord
    BY <2>1 DEF ServedRecord
  <2>3. stored' \in [Sessions -> Seq(Notes)]
    BY <1>7, <2>1, StoredGrows DEF ServeDone, Roles, Known
  <2> QED
    BY <1>7, <2>1, <2>2, <2>3, ServedMoves DEF ServeDone, ServedRecord
<1>8. ASSUME NEW n \in Turns, ServeError(n)
     PROVE  BackendTypes'
  BY <1>8 DEF ServeError, BackendTypes, ServedRecord, Known
<1>9. ASSUME SendMessage
     PROVE  BackendTypes'
  <2>1. CASE current = None
    BY <1>9, <1>1, <2>1 DEF SendMessage
  <2>2. CASE current # None
    <3>1. PICK n \in Turns : /\ served[n].pc = "none"
                           /\ served' = [served EXCEPT ![n] = [@ EXCEPT !.pc = "asked", !.s = current]]
      BY <1>9, <2>2 DEF SendMessage, BeginStream, Unasked
    <3>2. Known(current) /\ current \in Sessions
      BY <2>2 DEF BarTypes, Known
    <3>3. served[n] \in ServedRecord
      BY DEF BackendTypes
    <3>4. [served[n] EXCEPT !.pc = "asked", !.s = current] \in ServedRecord
          /\ [served[n] EXCEPT !.pc = "asked", !.s = current].s = current
      BY <3>2, <3>3 DEF ServedRecord
    <3> QED
      BY <1>9, <3>1, <3>2, <3>4, ServedMoves DEF SendMessage, BackendTypes
  <2> QED
    BY <2>1, <2>2
<1>10. ASSUME SendLoaded
     PROVE  BackendTypes'
  <2>1. Known(task["send"].s)
    BY <1>10, TasksAre, TaskFacts DEF SendLoaded, At, Fits
  <2>2. PICK n \in Turns : served' = [served EXCEPT ![n] = [@ EXCEPT !.pc = "asked", !.s = task["send"].s]]
    BY <1>10 DEF SendLoaded, BeginStream
  <2>3. served[n] \in ServedRecord
    BY DEF BackendTypes
  <2>4. [served[n] EXCEPT !.pc = "asked", !.s = task["send"].s] \in ServedRecord
        /\ [served[n] EXCEPT !.pc = "asked", !.s = task["send"].s].s = task["send"].s
    BY <2>1, <2>3 DEF ServedRecord, Known
  <2> QED
    BY <1>10, <2>1, <2>2, <2>4, ServedMoves DEF SendLoaded, BackendTypes
<1>11. ASSUME NEW p \in Tasks, StartLost(p) \/ ServeList(p) \/ ServeLoad(p) \/ Started(p) \/ Listed(p) \/
                               Deleted(p) \/ Loaded(p) \/ TokensFetched(p) \/ CallFails(p)
     PROVE  BackendTypes'
  BY <1>11, <1>1 DEF StartLost, ServeList, ServeLoad, Started, Listed, Deleted, Loaded, TokensFetched,
                     CallFails, backend, history
<1>12. ASSUME NEW p \in Clicks, CreateSession(p)
     PROVE  BackendTypes'
  BY <1>12, <1>1 DEF CreateSession, backend, history
<1>13. ASSUME NEW p \in Clicks, NEW s \in Sessions, ResumeSession(p, s) \/
                                                    RemoveSession(p, s)
     PROVE  BackendTypes'
  BY <1>13, <1>1 DEF ResumeSession, RemoveSession, backend, history
<1>14. ASSUME OnAck \/ OnStream \/ OnDone \/ OnError \/ StreamEnd \/ StreamBreaks \/
              UploadFiles \/ UploadLoaded \/ Uploaded
     PROVE  BackendTypes'
  BY <1>14, <1>1 DEF OnAck, OnStream, OnDone, OnError, StreamEnd, StreamBreaks, UploadFiles,
                     UploadLoaded, Uploaded, Throws, backend, history
<1>15. ASSUME NEW f \in Files, RemoveAttachment(f)
     PROVE  BackendTypes'
  BY <1>15, <1>1 DEF RemoveAttachment, backend, history
<1>16. CASE UNCHANGED vars
  BY <1>16, <1>1 DEF vars, backend, history
<1>lost. ASSUME NEW n \in Turns, ServeLost(n)
     PROVE  BackendTypes'
  BY <1>lost DEF ServeLost, BackendTypes, ServedRecord, Known
<1> QED
  BY <1>lost, <1>1, <1>2, <1>3, <1>4, <1>5, <1>6, <1>7, <1>8, <1>9, <1>10, <1>11, <1>12, <1>13,
     <1>14, <1>15, <1>16 DEF Next, Answer, ServeQuestion, ReadStream

\* upsertSession keeps the list free of repetitions.
LEMMA Upserted ==
  ASSUME BarTypes, Onward, NEW s, Known(s), UpsertSession(s),
         current' \in {current, s}
  PROVE  BarTypes'
<1>1. CASE Contains(sessions, s)
  BY <1>1 DEF UpsertSession, BarTypes, Known, Onward
<1>2. CASE ~Contains(sessions, s)
  <2>1. sessions' = <<s>> \o sessions /\ sessions \in Seq(Sessions) /\ s \in Sessions
    BY <1>2 DEF UpsertSession, BarTypes, Known
  <2>2. /\ sessions' \in Seq(Sessions) /\ DOMAIN sessions' = 1..(Len(sessions) + 1)
        /\ sessions'[1] = s
        /\ \A i \in 2..(Len(sessions) + 1) : sessions'[i] = sessions[i - 1] /\ i - 1 \in DOMAIN sessions
    BY <2>1
  <2>3. Len(sessions) \in Nat /\ DOMAIN sessions = 1..Len(sessions)
    BY <2>1
  <2>4. \A i \in 1..Len(sessions) : sessions[i] # s
    BY <1>2 DEF Contains
  <2>5. Distinct(sessions')
    <3>1. \A i, k \in 1..Len(sessions) : sessions[i] = sessions[k] => i = k
      BY <2>3 DEF BarTypes, Distinct
    <3> QED
      BY <2>2, <2>3, <2>4, <3>1 DEF Distinct
  <2>6. \A t \in ToSet(sessions') : t = s \/ t \in ToSet(sessions)
    BY <2>2, <2>3 DEF ToSet
  <2> QED
    BY <2>2, <2>5, <2>6 DEF BarTypes, Known, Onward
<1> QED
  BY <1>1, <1>2

\* The types of the side bar.
LEMMA BarStep ==
  ASSUME TaskTypes, BackendTypes, BarTypes, TurnTypes, Onward, [Next]_vars
  PROVE  BarTypes'
<1>1. CASE UNCHANGED <<sessions, current>>
  BY <1>1 DEF BarTypes, Known, Onward
<1>2. ASSUME NEW p \in Tasks, Started(p)
     PROVE  BarTypes'
  <2>1. Known(task[p].s)
    BY <1>2, TaskFacts DEF Started, At, Fits
  <2> QED
    BY <1>2, <2>1, Upserted DEF Started
<1>3. ASSUME NEW p \in Tasks, Listed(p)
     PROVE  BarTypes'
  <2>1. /\ sessions' = task[p].got /\ task[p].got \in Seq(Sessions) /\ Distinct(task[p].got)
       /\ \A s \in ToSet(task[p].got) : Known(s)
    BY <1>3, TaskFacts DEF Listed, At, Fits
  <2>2. current' = current \/ current' \in ToSet(task[p].got)
    BY <1>3, <2>1, ToSetTail DEF Listed
  <2> QED
    BY <2>1, <2>2 DEF BarTypes, Known, Onward
<1>4. ASSUME NEW p \in Tasks, Deleted(p)
     PROVE  BarTypes'
  <2> DEFINE I == {i \in DOMAIN sessions : sessions[i] # task[p].s}
             remaining == Sublist(sessions, I)
  <2>1. /\ remaining \in Seq(Sessions) /\ Distinct(remaining)
        /\ ToSet(remaining) \subseteq ToSet(sessions)
    <3>1. I \in SUBSET DOMAIN sessions /\ sessions \in Seq(Sessions) /\ Distinct(sessions)
      BY DEF BarTypes
    <3>2. /\ remaining \in Seq(Sessions) /\ Distinct(remaining)
          /\ ToSet(remaining) = {sessions[i] : i \in I}
      BY <3>1, SublistFacts
    <3> QED
      BY <3>1, <3>2 DEF ToSet
  <2>2. sessions' = remaining /\ (current' = None \/ (remaining # <<>> /\ current' = Head(remaining)))
    BY <1>4 DEF Deleted
  <2> HIDE DEF remaining, I
  <2>3. current' = None \/ current' \in ToSet(remaining)
    BY <2>1, <2>2, ToSetTail
  <2>4. \A t \in ToSet(remaining) : Known(t)
    BY <2>1 DEF BarTypes
  <2> QED
    BY <2>1, <2>2, <2>3, <2>4 DEF BarTypes, Known, Onward
<1>5. ASSUME NEW p \in Tasks, CallFails(p)
     PROVE  BarTypes'
  <2>1. current' = current
    BY <1>5 DEF CallFails
  <2>2. CASE sessions' = sessions
    BY <2>1, <2>2 DEF BarTypes, Known, Onward
  <2>3. CASE sessions' = <<>>
    <3>1. sessions' \in Seq(Sessions) /\ Distinct(sessions') /\ ToSet(sessions') = {}
      BY <2>3, EmptyFacts
    <3> QED
      BY <2>1, <3>1 DEF BarTypes, Known, Onward
  <2> QED
    BY <1>5, <2>2, <2>3 DEF CallFails
<1>6. ASSUME OnDone
     PROVE  BarTypes'
  <2>1. CASE Reads("titled")
    <3>1. Known(turn.s)
      BY <2>1 DEF Reads, TurnTypes
    <3> QED
      BY <1>6, <2>1, <3>1, Upserted DEF OnDone, Reads
  <2>2. CASE UNCHANGED <<sessions, current>>
    BY <1>1, <2>2
  <2> QED
    BY <1>6, <2>1, <2>2 DEF OnDone
<1>7. ASSUME NEW p \in Tasks, StartLost(p) \/ ServeList(p) \/ ServeStart(p) \/ ServeLoad(p) \/
                              ServeDelete(p) \/ ServeUpload(p) \/ Loaded(p) \/
                              TokensFetched(p)
     PROVE  BarTypes'
  BY <1>7, <1>1 DEF StartLost, ServeList, ServeStart, ServeLoad, ServeDelete, ServeUpload, Loaded,
                    TokensFetched, backend, history
<1>8. ASSUME NEW n \in Turns, ServeAck(n) \/ ServeChunk(n) \/ ServeDone(n) \/ ServeError(n) \/ ServeLost(n)
     PROVE  BarTypes'
  BY <1>8, <1>1 DEF ServeAck, ServeChunk, ServeDone, ServeError, ServeLost, backend, history
<1>9. ASSUME NEW p \in Clicks, CreateSession(p)
     PROVE  BarTypes'
  BY <1>9, <1>1 DEF CreateSession, backend, history
<1>10. ASSUME NEW p \in Clicks, NEW s \in Sessions, ResumeSession(p, s) \/
                                                    RemoveSession(p, s)
     PROVE  BarTypes'
  BY <1>10, <1>1 DEF ResumeSession, RemoveSession, backend, history
<1>11. ASSUME SendMessage \/ SendLoaded \/ OnAck \/ OnStream \/ OnError \/ StreamEnd \/
              StreamBreaks \/ UploadFiles \/ UploadLoaded \/ Uploaded
     PROVE  BarTypes'
  BY <1>11, <1>1 DEF SendMessage, SendLoaded, OnAck, OnStream, OnError, StreamEnd,
                     StreamBreaks, UploadFiles, UploadLoaded, Uploaded, Throws, backend,
                     history
<1>12. ASSUME NEW f \in Files, RemoveAttachment(f)
     PROVE  BarTypes'
  BY <1>12, <1>1 DEF RemoveAttachment, backend, history
<1>13. CASE UNCHANGED vars
  BY <1>13, <1>1 DEF vars, backend, history
<1> QED
  BY <1>1, <1>2, <1>3, <1>4, <1>5, <1>6, <1>7, <1>8, <1>9, <1>10, <1>11, <1>12, <1>13
     DEF Next, Answer, ServeQuestion, ReadStream

-----------------------------------------------------------------------------
(* The lists shown, and the list a send holds. *)

LEMMA ShownMoves ==
  ASSUME ShownTypes, Onward, NEW s \in Sessions, NEW l \in Seq(Notes) \cup {None},
         l # None => Known(s), shown' = [shown EXCEPT ![s] = l]
  PROVE  ShownTypes'
<1>1. shown' \in [Sessions -> Seq(Notes) \cup {None}]
  BY DEF ShownTypes
<1>2. ASSUME NEW t \in Sessions, shown'[t] # None PROVE t \in Sessions /\ status'[t] # "new"
  <2>1. CASE t = s
    BY <1>2, <2>1 DEF ShownTypes, Known, Onward
  <2>2. CASE t # s
    BY <1>2, <2>2 DEF ShownTypes, Known, Onward
  <2> QED
    BY <2>1, <2>2
<1> QED
  BY <1>1, <1>2 DEF ShownTypes, Known

\* The session of the open question, and the list its callbacks write to.
LEMMA OpenFacts ==
  ASSUME TurnTypes, Open
  PROVE  Known(turn.s) /\ turn.s \in Sessions /\ turn.n \in Turns /\ turn.n # 0
BY ChatStoreAssumption DEF TurnTypes, TurnRecord, Open, Known, Turns

LEMMA HeldFacts ==
  ASSUME TurnTypes, ShownTypes, HeldTypes, turn.held
  PROVE  Open /\ turn.s \in Sessions /\ shown[turn.s] \in Seq(Notes) /\ Messages = shown[turn.s]
<1>1. Open
  BY DEF TurnTypes, NoTurn
<1> QED
  BY <1>1, OpenFacts DEF ShownTypes, HeldTypes, Messages

LEMMA MessagesType ==
  ASSUME TurnTypes, ShownTypes, HeldTypes
  PROVE  Messages \in Seq(Notes)
<1>1. CASE turn.held
  BY <1>1, HeldFacts
<1>2. CASE ~turn.held
  BY <1>2 DEF Messages
<1> QED
  BY <1>1, <1>2

\* What the callbacks make of it.
LEMMA AppendNote ==
  ASSUME NEW list \in Seq(Notes), NEW n \in Turns, NEW r \in Roles
  PROVE  /\ Append(list, <<n, r>>) \in Seq(Notes)
         /\ Len(Append(list, <<n, r>>)) = Len(list) + 1
         /\ DOMAIN Append(list, <<n, r>>) = 1..(Len(list) + 1)
         /\ Append(list, <<n, r>>)[Len(list) + 1] = <<n, r>>
         /\ \A i \in DOMAIN list : Append(list, <<n, r>>)[i] = list[i]
<1>1. <<n, r>> \in Notes
  BY NotesAre
<1> QED
  BY <1>1

Replaced(list, k, m) == [i \in DOMAIN list |-> IF i = k THEN m ELSE list[i]]

LEMMA ReplaceNote ==
  ASSUME NEW list \in Seq(Notes), NEW k, NEW n \in Turns, NEW r \in Roles
  PROVE  /\ Replaced(list, k, <<n, r>>) \in Seq(Notes)
         /\ Len(Replaced(list, k, <<n, r>>)) = Len(list)
<1>1. <<n, r>> \in Notes /\ DOMAIN list = 1..Len(list) /\ Len(list) \in Nat
      /\ \A i \in DOMAIN list : list[i] \in Notes
  BY NotesAre
<1>2. \A i \in 1..Len(list) : (IF i = k THEN <<n, r>> ELSE list[i]) \in Notes
  BY <1>1
<1> QED
  BY <1>1, <1>2 DEF Replaced

\* A callback writes to the list its send holds.
LEMMA UpdateShown ==
  ASSUME TurnTypes, ShownTypes, HeldTypes, Onward, NEW list \in Seq(Notes),
         shown' = IF turn.held THEN [shown EXCEPT ![turn.s] = list] ELSE shown
  PROVE  ShownTypes'
<1>1. CASE turn.held
  BY <1>1, HeldFacts, OpenFacts, ShownMoves
<1>2. CASE ~turn.held
  BY <1>2 DEF ShownTypes, Known, Onward
<1> QED
  BY <1>1, <1>2

LEMMA EnsuredList ==
  ASSUME ShownTypes, NEW s \in Sessions
  PROVE  EnsureMessageList(s) \in Seq(Notes)
BY DEF ShownTypes, EnsureMessageList

\* The types of the lists shown.
LEMMA ShownStep ==
  ASSUME TaskTypes, BarTypes, ShownTypes, TurnTypes, HeldTypes, Onward, [Next]_vars
  PROVE  ShownTypes'
<1>1. CASE UNCHANGED <<shown>>
  BY <1>1 DEF ShownTypes, Known, Onward
<1>2. ASSUME NEW p \in Tasks, Deleted(p)
     PROVE  ShownTypes'
  <2>1. Known(task[p].s) /\ task[p].s \in Sessions
    BY <1>2, TaskFacts DEF Deleted, At, Fits, Known
  <2> QED
    BY <1>2, <2>1, ShownMoves DEF Deleted
<1>3. ASSUME NEW p \in Tasks, Loaded(p)
     PROVE  ShownTypes'
  <2>1. Known(task[p].s) /\ task[p].s \in Sessions /\ task[p].got \in Seq(Notes)
    BY <1>3, TaskFacts DEF Loaded, At, Fits, Known
  <2> QED
    BY <1>3, <2>1, ShownMoves DEF Loaded
<1>4. ASSUME SendMessage
     PROVE  ShownTypes'
  <2>1. CASE current = None
    BY <1>4, <1>1, <2>1 DEF SendMessage
  <2>2. CASE current # None
    <3>1. Known(current) /\ current \in Sessions
      BY <2>2 DEF BarTypes, Known
    <3> QED
      BY <1>4, <2>2, <3>1, EnsuredList, ShownMoves DEF SendMessage, BeginStream
  <2> QED
    BY <2>1, <2>2
<1>5. ASSUME SendLoaded
     PROVE  ShownTypes'
  <2>1. Known(task["send"].s) /\ task["send"].s \in Sessions /\ task["send"].got \in Seq(Notes)
    BY <1>5, TasksAre, TaskFacts DEF SendLoaded, At, Fits, Known
  <2> QED
    BY <1>5, <2>1, ShownMoves DEF SendLoaded, BeginStream
<1>6. ASSUME OnAck
     PROVE  ShownTypes'
  <2> DEFINE list == Append(Messages, <<turn.n, "user">>)
  <2>1. list \in Seq(Notes)
    BY <1>6, MessagesType, OpenFacts, AppendNote DEF OnAck, Reads, Roles
  <2>2. shown' = IF turn.held THEN [shown EXCEPT ![turn.s] = list] ELSE shown
    BY <1>6 DEF OnAck, Update
  <2> HIDE DEF list
  <2> QED
    BY <2>1, <2>2, UpdateShown
<1>7. ASSUME OnStream
     PROVE  ShownTypes'
  <2>0. Open /\ turn.n \in Turns
    BY <1>7, OpenFacts DEF OnStream, Reads
  <2> DEFINE list == IF turn.temp = 0 THEN Append(Messages, <<turn.n, "temp">>) ELSE Messages
  <2>1. list \in Seq(Notes)
    BY <2>0, MessagesType, AppendNote DEF Roles
  <2>2. shown' = IF turn.held THEN [shown EXCEPT ![turn.s] = list] ELSE shown
    BY <1>7 DEF OnStream, Update
  <2> HIDE DEF list
  <2> QED
    BY <2>1, <2>2, UpdateShown
<1>8. ASSUME OnDone
     PROVE  ShownTypes'
  <2>0. Open /\ turn.n \in Turns
    BY <1>8, OpenFacts DEF OnDone, Reads
  <2> DEFINE list == IF turn.temp = 0 THEN Append(Messages, <<turn.n, "ai">>)
                 ELSE Replaced(Messages, turn.temp, <<turn.n, "ai">>)
  <2>1. list \in Seq(Notes)
    BY <2>0, MessagesType, AppendNote, ReplaceNote DEF Roles
  <2>2. shown' = IF turn.held THEN [shown EXCEPT ![turn.s] = list] ELSE shown
    BY <1>8 DEF OnDone, Update, Replaced
  <2> HIDE DEF list
  <2> QED
    BY <2>1, <2>2, UpdateShown
<1>9. ASSUME UploadFiles
     PROVE  ShownTypes'
  <2>1. CASE UNCHANGED shown
    BY <1>1, <2>1
  <2>2. CASE current # None /\ shown' = [shown EXCEPT ![current] = EnsureMessageList(current)]
    <3>1. Known(current) /\ current \in Sessions
      BY <2>2 DEF BarTypes, Known
    <3> QED
      BY <2>2, <3>1, EnsuredList, ShownMoves
  <2> QED
    BY <1>9, <2>1, <2>2 DEF UploadFiles
<1>10. ASSUME UploadLoaded
     PROVE  ShownTypes'
  <2>1. Known(task["upload"].s) /\ task["upload"].s \in Sessions /\ task["upload"].got \in Seq(Notes)
    BY <1>10, TasksAre, TaskFacts DEF UploadLoaded, At, Fits, Known
  <2> QED
    BY <1>10, <2>1, ShownMoves DEF UploadLoaded
<1>11. ASSUME NEW p \in Tasks, StartLost(p) \/ ServeList(p) \/ ServeStart(p) \/ ServeLoad(p) \/
                               ServeDelete(p) \/ ServeUpload(p) \/ Started(p) \/
                               Listed(p) \/ TokensFetched(p) \/ CallFails(p)
     PROVE  ShownTypes'
  BY <1>11, <1>1 DEF StartLost, ServeList, ServeStart, ServeLoad, ServeDelete, ServeUpload, Started,
                     Listed, TokensFetched, CallFails, backend, history
<1>12. ASSUME NEW n \in Turns, ServeAck(n) \/ ServeChunk(n) \/ ServeDone(n) \/ ServeError(n) \/ ServeLost(n)
     PROVE  ShownTypes'
  BY <1>12, <1>1 DEF ServeAck, ServeChunk, ServeDone, ServeError, ServeLost, backend, history
<1>13. ASSUME NEW p \in Clicks, CreateSession(p)
     PROVE  ShownTypes'
  BY <1>13, <1>1 DEF CreateSession, backend, history
<1>14. ASSUME NEW p \in Clicks, NEW s \in Sessions, ResumeSession(p, s) \/
                                                    RemoveSession(p, s)
     PROVE  ShownTypes'
  BY <1>14, <1>1 DEF ResumeSession, RemoveSession, backend, history
<1>15. ASSUME OnError \/ StreamEnd \/ StreamBreaks \/ Uploaded
     PROVE  ShownTypes'
  BY <1>15, <1>1 DEF OnError, StreamEnd, StreamBreaks, Uploaded, Throws, backend, history
<1>16. ASSUME NEW f \in Files, RemoveAttachment(f)
     PROVE  ShownTypes'
  BY <1>16, <1>1 DEF RemoveAttachment, backend, history
<1>17. CASE UNCHANGED vars
  BY <1>17, <1>1 DEF vars, backend, history
<1> QED
  BY <1>1, <1>2, <1>3, <1>4, <1>5, <1>6, <1>7, <1>8, <1>9, <1>10, <1>11, <1>12, <1>13,
     <1>14, <1>15, <1>16, <1>17 DEF Next, Answer, ServeQuestion, ReadStream

LEMMA RangeOne ==
  ASSUME NEW f
  PROVE  Range(<<f>>) = {f}
BY DEF Range

LEMMA EmptyRange == Range(<<>>) = {}
BY DEF Range

\* The file the backend has just stored.
LEMMA UploadedFile ==
  ASSUME TaskTypes, At("upload", "uploaded")
  PROVE  \E f \in Files : task["upload"].got = <<f>> /\ Range(task["upload"].got) = {f}
<1>1. PICK f \in Files : task["upload"].got = <<f>>
  BY TasksAre, TaskFacts DEF At, Fits
<1>2. Range(task["upload"].got) = {f}
  BY <1>1, RangeOne
<1> QED
  BY <1>1, <1>2

\* The types of the attachments, the lock and the history.
LEMMA PageStep ==
  ASSUME TaskTypes, BarTypes, PageTypes, TurnTypes, [Next]_vars
  PROVE  PageTypes'
<1>1. CASE UNCHANGED <<files, sending, astray, spent, dropped, crossed, stuck>>
  BY <1>1 DEF PageTypes
<1>2. ASSUME NEW p \in Tasks, Started(p)
     PROVE  PageTypes'
  <2>1. task[p].s \in Sessions
    BY <1>2, TaskFacts DEF Started, At, Fits, Known
  <2> QED
    BY <1>2, <2>1 DEF Started, LoadMessages, PageTypes
<1>3. ASSUME NEW p \in Tasks, Listed(p)
     PROVE  PageTypes'
  <2>1. task[p].got \in Seq(Sessions)
    BY <1>3, TaskFacts DEF Listed, At, Fits
  <2>2. task[p].got # <<>> => Head(task[p].got) \in Sessions
    BY <2>1
  <2> QED
    BY <1>3, <2>2 DEF Listed, LoadMessages, PageTypes
<1>4. ASSUME NEW p \in Tasks, Deleted(p)
     PROVE  PageTypes'
  <2> DEFINE remaining == Sublist(sessions, {i \in DOMAIN sessions : sessions[i] # task[p].s})
  <2>1. remaining \in Seq(Sessions)
    BY SublistFacts DEF BarTypes
  <2>2. astray' = astray \/ (remaining # <<>> /\ LoadMessages(p, Head(remaining)))
    BY <1>4 DEF Deleted
  <2> HIDE DEF remaining
  <2>3. remaining # <<>> => Head(remaining) \in Sessions
    BY <2>1
  <2>4. astray' \in SUBSET Sessions
    BY <2>2, <2>3 DEF LoadMessages, PageTypes
  <2>5. task[p].s \in Sessions
    BY <1>4, TaskFacts DEF Deleted, At, Fits, Known
  <2>6. /\ files' = [files EXCEPT ![task[p].s] = {}]
        /\ dropped' = dropped \cup files[task[p].s]
        /\ UNCHANGED <<sending, spent, crossed, stuck>>
    BY <1>4 DEF Deleted
  <2> QED
    BY <2>4, <2>5, <2>6 DEF PageTypes
<1>5. ASSUME NEW p \in Tasks, CallFails(p)
     PROVE  PageTypes'
  <2>1. task[p] \in TaskRecord /\ Fits(p, task[p])
    BY TaskFacts
  <2>2. task[p].pc \in {"load", "loaded"} => task[p].s \in Sessions
    BY <2>1 DEF Fits, Known
  <2>3. astray' \in SUBSET Sessions
    BY <1>5, <2>2 DEF CallFails, PageTypes
  <2>4. task[p].pc \in {"upload", "uploaded"} => Range(task[p].got) \in SUBSET Files
    <3>1. CASE task[p].pc = "upload"
      BY <2>1, <3>1, EmptyRange DEF Fits
    <3>2. CASE task[p].pc = "uploaded"
      BY <2>1, <3>2, UploadedFile DEF Fits, At
    <3> QED
      BY <3>1, <3>2
  <2>5. dropped' \in SUBSET Files
    BY <1>5, <2>1, <2>4 DEF CallFails, PageTypes, TaskRecord
  <2>6. stuck' \in BOOLEAN
    BY <1>5 DEF CallFails
  <2> QED
    BY <1>5, <2>3, <2>5, <2>6 DEF CallFails, PageTypes
<1>6. ASSUME SendMessage
     PROVE  PageTypes'
  <2>1. CASE current = None
    BY <1>6, <2>1 DEF SendMessage, PageTypes, history
  <2>2. CASE current # None
    <3>1. current \in Sessions /\ task["upload"].copy \in SUBSET Files
      BY <2>2, TasksAre, TaskFacts DEF BarTypes, Known, TaskRecord
    <3> QED
      BY <1>6, <2>2, <3>1 DEF SendMessage, BeginStream, PageTypes
  <2> QED
    BY <2>1, <2>2
<1>7. ASSUME SendLoaded
     PROVE  PageTypes'
  <2>1. task["send"].s \in Sessions /\ task["upload"].copy \in SUBSET Files
    BY <1>7, TasksAre, TaskFacts DEF SendLoaded, At, Fits, Known, TaskRecord
  <2> QED
    BY <1>7, <2>1 DEF SendLoaded, BeginStream, PageTypes
<1>8. ASSUME OnDone
     PROVE  PageTypes'
  BY <1>8 DEF OnDone, PageTypes, history
<1>9. ASSUME OnError
     PROVE  PageTypes'
  <2>1. turn.s \in Sessions
    BY <1>9, OpenFacts DEF OnError, Reads
  <2> QED
    BY <1>9, <2>1 DEF OnError, Throws, Finally, PageTypes
<1>10. ASSUME StreamEnd
     PROVE  PageTypes'
  BY <1>10 DEF StreamEnd, Finally, PageTypes, history
<1>11. ASSUME StreamBreaks
     PROVE  PageTypes'
  <2>1. turn.s \in Sessions
    BY <1>11, OpenFacts DEF StreamBreaks, Reads
  <2> QED
    BY <1>11, <2>1 DEF StreamBreaks, Throws, Finally, PageTypes
<1>12. ASSUME Uploaded
     PROVE  PageTypes'
  <2>1. Range(task["upload"].got) \in SUBSET Files /\ task["upload"].copy \in SUBSET Files
    BY <1>12, UploadedFile, TasksAre, TaskFacts DEF Uploaded, TaskRecord
  <2> QED
    BY <1>12, <2>1 DEF Uploaded, PageTypes
<1>13. ASSUME NEW f \in Files, RemoveAttachment(f)
     PROVE  PageTypes'
  BY <1>13 DEF RemoveAttachment, PageTypes
<1>14. ASSUME NEW p \in Tasks, StartLost(p) \/ ServeList(p) \/ ServeStart(p) \/ ServeLoad(p) \/
                               ServeDelete(p) \/ ServeUpload(p) \/ Loaded(p) \/
                               TokensFetched(p)
     PROVE  PageTypes'
  BY <1>14, <1>1 DEF StartLost, ServeList, ServeStart, ServeLoad, ServeDelete, ServeUpload, Loaded,
                     TokensFetched, backend, history
<1>15. ASSUME NEW n \in Turns, ServeAck(n) \/ ServeChunk(n) \/ ServeDone(n) \/ ServeError(n) \/ ServeLost(n)
     PROVE  PageTypes'
  BY <1>15, <1>1 DEF ServeAck, ServeChunk, ServeDone, ServeError, ServeLost, backend, history
<1>16. ASSUME NEW p \in Clicks, CreateSession(p)
     PROVE  PageTypes'
  BY <1>16, <1>1 DEF CreateSession, backend, history
<1>17. ASSUME NEW p \in Clicks, NEW s \in Sessions, ResumeSession(p, s) \/
                                                    RemoveSession(p, s)
     PROVE  PageTypes'
  BY <1>17, <1>1 DEF ResumeSession, RemoveSession, backend, history
<1>18. ASSUME OnAck \/ OnStream \/ UploadFiles \/ UploadLoaded
     PROVE  PageTypes'
  BY <1>18, <1>1 DEF OnAck, OnStream, UploadFiles, UploadLoaded, backend, history
<1>19. CASE UNCHANGED vars
  BY <1>19, <1>1 DEF vars, backend, history
<1> QED
  BY <1>1, <1>2, <1>3, <1>4, <1>5, <1>6, <1>7, <1>8, <1>9, <1>10, <1>11, <1>12, <1>13,
     <1>14, <1>15, <1>16, <1>17, <1>18, <1>19 DEF Next, Answer, ServeQuestion, ReadStream

-----------------------------------------------------------------------------
(* What the async functions hold. *)

LEMMA TaskSet ==
  ASSUME TaskTypes, NEW p \in Tasks, NEW t \in TaskRecord, task' = [task EXCEPT ![p] = t]
  PROVE  /\ task' \in [Tasks -> TaskRecord]
         /\ task'[p] = t
         /\ \A q \in Tasks : q # p => task'[q] = task[q]
BY DEF TaskTypes

LEMMA NoTaskType == NoTask \in TaskRecord
BY DEF NoTask, TaskRecord

\* A function starts with a request, ends, or goes on to load the messages of s.
LEMMA RunFits ==
  ASSUME TaskTypes, Onward, NEW p \in Tasks, NEW op, NEW pc, NEW s, Run(p, op, pc, s),
         \/ op \in {"create", "resume"} /\ pc = "start" /\ p \in Clicks
         \/ op = "remove" /\ pc = "delete" /\ p \in Clicks /\ s # None
         \/ op = p /\ p \in {"send", "upload"} /\ pc = "start",
         s = None \/ Known(s)
  PROVE  TaskTypes'
<1> DEFINE t == [NoTask EXCEPT !.op = op, !.pc = pc, !.s = s]
<1>1. NoTask \in TaskRecord /\ NoTask.copy = {} /\ NoTask.new = {}
  BY NoTaskType DEF NoTask
<1>2. /\ t \in TaskRecord /\ t.op = op /\ t.pc = pc /\ t.s = s
      /\ t.copy = {} /\ t.new = {}
  BY <1>1 DEF TaskRecord, Known
<1>3. task' = [task EXCEPT ![p] = t]
  BY DEF Run
<1> HIDE DEF t
<1>4. task' \in [Tasks -> TaskRecord] /\ task'[p] = t /\ \A q \in Tasks : q # p => task'[q] = task[q]
  BY <1>2, <1>3, TaskSet
<1>5. Fits(p, task[p])'
  BY <1>2, <1>4, TasksAre DEF Fits, Known, Onward
<1> QED
  BY <1>4, <1>5, TaskMoves

LEMMA EndFits ==
  ASSUME TaskTypes, Onward, NEW p \in Tasks, End(p)
  PROVE  TaskTypes'
<1>1. task' \in [Tasks -> TaskRecord] /\ task'[p] = NoTask /\ \A q \in Tasks : q # p => task'[q] = task[q]
  BY NoTaskType, TaskSet DEF End
<1>2. Fits(p, task[p])'
  BY <1>1 DEF Fits, NoTask
<1> QED
  BY <1>1, <1>2, TaskMoves

LEMMA LoadFits ==
  ASSUME TaskTypes, Onward, NEW p \in Tasks, NEW s, Known(s), LoadMessages(p, s),
         task[p].pc \in {"started", "listed", "deleted"}
  PROVE  TaskTypes'
<1> DEFINE t == [task[p] EXCEPT !.pc = "load", !.s = s]
<1>1. task[p] \in TaskRecord /\ Fits(p, task[p])
  BY TaskFacts
<1>2. /\ t \in TaskRecord /\ t.pc = "load" /\ t.s = s /\ t.op = task[p].op
      /\ t.copy = task[p].copy /\ t.new = task[p].new
  BY <1>1 DEF TaskRecord, Known
<1>3. task' = [task EXCEPT ![p] = t]
  BY DEF LoadMessages
<1> HIDE DEF t
<1>4. task' \in [Tasks -> TaskRecord] /\ task'[p] = t /\ \A q \in Tasks : q # p => task'[q] = task[q]
  BY <1>2, <1>3, TaskSet
<1>5. Fits(p, task[p])'
  BY <1>1, <1>2, <1>4, NoneIsNot DEF Fits, Known, Onward
<1> QED
  BY <1>4, <1>5, TaskMoves

\* The list the backend answers with.
LEMMA ListOfAll ==
  ASSUME BackendTypes, NEW list \in SetToSeqs({s \in Sessions : Here(s)})
  PROVE  list \in Seq(Sessions) /\ Distinct(list) /\ \A s \in ToSet(list) : Known(s)
<1> DEFINE H == {s \in Sessions : Here(s)}
<1>1. H \in SUBSET Sessions /\ IsFiniteSet(Sessions)
  BY ChatStoreAssumption
<1>2. Cardinality(H) \in Nat
  BY <1>1, FS_Subset, FS_CardinalityType
<1>3. /\ list \in [1..Cardinality(H) -> H]
      /\ \A i, j \in 1..Cardinality(H) : i # j => list[i] # list[j]
  BY DEF SetToSeqs
<1>4. \A s \in H : s \in Sessions /\ Known(s)
  BY DEF Here, Known
<1> HIDE DEF H
<1>5. list \in Seq(H) /\ DOMAIN list = 1..Cardinality(H)
  BY <1>2, <1>3
<1>6. list \in Seq(Sessions)
  BY <1>1, <1>5
<1>7. Distinct(list)
  BY <1>3, <1>5 DEF Distinct
<1> QED
  BY <1>3, <1>4, <1>5, <1>6, <1>7 DEF ToSet

\* What removeSession leaves of the side bar.
LEMMA Remaining ==
  ASSUME BarTypes, NEW s
  PROVE  LET rest == Sublist(sessions, {i \in DOMAIN sessions : sessions[i] # s}) IN
         rest \in Seq(Sessions) /\ Distinct(rest) /\ \A t \in ToSet(rest) : Known(t)
<1> DEFINE I == {i \in DOMAIN sessions : sessions[i] # s}
<1>1. I \in SUBSET DOMAIN sessions /\ sessions \in Seq(Sessions) /\ Distinct(sessions)
  BY DEF BarTypes
<1>2. /\ Sublist(sessions, I) \in Seq(Sessions) /\ Distinct(Sublist(sessions, I))
      /\ ToSet(Sublist(sessions, I)) = {sessions[i] : i \in I}
  BY <1>1, SublistFacts
<1>3. \A t \in ToSet(Sublist(sessions, I)) : t \in ToSet(sessions)
  BY <1>1, <1>2 DEF ToSet
<1> QED
  BY <1>2, <1>3 DEF BarTypes

\* uploadFiles sends its first file, from the attachments of s.
LEMMA BeginFits ==
  ASSUME TaskTypes, PageTypes, Onward, NEW s, Known(s), BeginUpload(s)
  PROVE  TaskTypes'
<1> DEFINE t == [NoTask EXCEPT !.op = "upload", !.pc = "upload", !.s = s, !.copy = files[s]]
<1>1. NoTask \in TaskRecord /\ NoTask.got = <<>> /\ NoTask.new = {}
  BY NoTaskType DEF NoTask
<1>2. s \in Sessions /\ files[s] \in SUBSET Files /\ s # None
  BY NoneIsNot DEF Known, PageTypes
<1>3. /\ t \in TaskRecord /\ t.op = "upload" /\ t.pc = "upload" /\ t.s = s
      /\ t.got = <<>> /\ t.copy = files[s] /\ t.new = {}
  BY <1>1, <1>2 DEF TaskRecord
<1>4. task' = [task EXCEPT !["upload"] = t] /\ "upload" \in Tasks
  BY TasksAre DEF BeginUpload
<1> HIDE DEF t
<1>5. /\ task' \in [Tasks -> TaskRecord] /\ task'["upload"] = t
      /\ \A q \in Tasks : q # "upload" => task'[q] = task[q]
  BY <1>3, <1>4, TaskSet
<1>6. Fits("upload", task["upload"])'
  BY <1>2, <1>3, <1>5 DEF Fits, Known, Onward
<1> QED
  BY <1>4, <1>5, <1>6, TaskMoves

\* The types of the async functions.
LEMMA TaskStep ==
  ASSUME TaskTypes, BackendTypes, BarTypes, PageTypes, Onward, [Next]_vars
  PROVE  TaskTypes'
<1>1. CASE UNCHANGED <<task>>
  <2>1. task' = task
    BY <1>1
  <2>2. \A p \in Tasks : Fits(p, task[p])'
    <3>1. \A s : Known(s) => Known(s)'
      BY DEF Known, Onward
    <3>2. ASSUME NEW p \in Tasks PROVE Fits(p, task'[p])
      BY <2>1 DEF TaskTypes
    <3> QED
      BY <2>1, <3>1, <3>2 DEF Fits, Known, Onward
  <2> QED
    BY <2>1, <2>2 DEF TaskTypes
<1>2. ASSUME NEW p \in Tasks, ServeList(p)
     PROVE  TaskTypes'
  <2>0. PICK list \in SetToSeqs({s \in Sessions : Here(s)}) :
          task' = [task EXCEPT ![p] = [@ EXCEPT !.pc = "listed", !.got = list]]
    BY <1>2 DEF ServeList
  <2>9. list \in Seq(Sessions) /\ Distinct(list) /\ \A s \in ToSet(list) : Known(s)
    BY ListOfAll
  <2> DEFINE t == [task[p] EXCEPT !.pc = "listed", !.got = list]
  <2>1. task[p] \in TaskRecord /\ Fits(p, task[p]) /\ p \in Tasks
    BY TaskFacts, TasksAre
  <2>2. t \in TaskRecord /\ t.pc = "listed" /\ t.got = list /\ t.op = task[p].op /\ t.s = task[p].s
        /\ t.copy = task[p].copy /\ t.new = task[p].new
    BY <1>2, <2>1, <2>0, <2>9 DEF TaskRecord
  <2>3. task' = [task EXCEPT ![p] = t]
    BY <2>0
  <2> HIDE DEF t
  <2>4. task' \in [Tasks -> TaskRecord] /\ task'[p] = t /\ \A q \in Tasks : q # p => task'[q] = task[q]
    BY <2>1, <2>2, <2>3, TaskSet
  <2>5. Fits(p, task[p])'
    BY <1>2, <2>1, <2>2, <2>4, <2>0, <2>9 DEF ServeList, At, Fits, Known, Onward
  <2> QED
    BY <2>1, <2>4, <2>5, TaskMoves
<1>3. ASSUME NEW p \in Tasks, ServeStart(p)
     PROVE  TaskTypes'
  <2>0. PICK s \in Sessions : /\ status' = [status EXCEPT ![s] = "here"]
                             /\ task' = [task EXCEPT ![p] = [@ EXCEPT !.pc = "started", !.s = s]]
    BY <1>3 DEF ServeStart
  <2>9. status'[s] = "here"
    BY <2>0 DEF BackendTypes
  <2> DEFINE t == [task[p] EXCEPT !.pc = "started", !.s = s]
  <2>1. task[p] \in TaskRecord /\ Fits(p, task[p]) /\ p \in Tasks
    BY TaskFacts, TasksAre
  <2>2. t \in TaskRecord /\ t.pc = "started" /\ t.op = task[p].op /\ t.s = s
        /\ t.copy = task[p].copy /\ t.new = task[p].new
    BY <1>3, <2>1, <2>0 DEF TaskRecord
  <2>3. task' = [task EXCEPT ![p] = t]
    BY <2>0
  <2> HIDE DEF t
  <2>4. task' \in [Tasks -> TaskRecord] /\ task'[p] = t /\ \A q \in Tasks : q # p => task'[q] = task[q]
    BY <2>1, <2>2, <2>3, TaskSet
  <2>5. Fits(p, task[p])'
    BY <1>3, <2>1, <2>2, <2>4, <2>9, NoneIsNot DEF ServeStart, At, Fits, Known, Onward
  <2> QED
    BY <2>1, <2>4, <2>5, TaskMoves
<1>4. ASSUME NEW p \in Tasks, ServeLoad(p)
     PROVE  TaskTypes'
  <2>0. stored[task[p].s] \in Seq(Notes)
    BY <1>4, HomeOfTask DEF ServeLoad, Here, BackendTypes
  <2> DEFINE t == [task[p] EXCEPT !.pc = "loaded", !.got = stored[task[p].s]]
  <2>1. task[p] \in TaskRecord /\ Fits(p, task[p]) /\ p \in Tasks
    BY TaskFacts, TasksAre
  <2>2. t \in TaskRecord /\ t.pc = "loaded" /\ t.got = stored[task[p].s] /\ t.got \in Seq(Notes) /\ t.op = task[p].op /\ t.s = task[p].s
        /\ t.copy = task[p].copy /\ t.new = task[p].new
    BY <1>4, <2>1, <2>0 DEF TaskRecord
  <2>3. task' = [task EXCEPT ![p] = t]
    BY <1>4 DEF ServeLoad
  <2> HIDE DEF t
  <2>4. task' \in [Tasks -> TaskRecord] /\ task'[p] = t /\ \A q \in Tasks : q # p => task'[q] = task[q]
    BY <2>1, <2>2, <2>3, TaskSet
  <2>5. Fits(p, task[p])'
    BY <1>4, <2>1, <2>2, <2>4, <2>0 DEF ServeLoad, At, Fits, Known, Onward
  <2> QED
    BY <2>1, <2>4, <2>5, TaskMoves
<1>5. ASSUME NEW p \in Tasks, ServeDelete(p)
     PROVE  TaskTypes'
  <2>0. status'[task[p].s] = "gone"
    BY <1>5, HomeOfTask DEF ServeDelete, Here, BackendTypes
  <2> DEFINE t == [task[p] EXCEPT !.pc = "deleted"]
  <2>1. task[p] \in TaskRecord /\ Fits(p, task[p]) /\ p \in Tasks
    BY TaskFacts, TasksAre
  <2>2. t \in TaskRecord /\ t.pc = "deleted" /\ t.got = task[p].got /\ t.op = task[p].op /\ t.s = task[p].s
        /\ t.copy = task[p].copy /\ t.new = task[p].new
    BY <1>5, <2>1, <2>0 DEF TaskRecord
  <2>3. task' = [task EXCEPT ![p] = t]
    BY <1>5 DEF ServeDelete
  <2> HIDE DEF t
  <2>4. task' \in [Tasks -> TaskRecord] /\ task'[p] = t /\ \A q \in Tasks : q # p => task'[q] = task[q]
    BY <2>1, <2>2, <2>3, TaskSet
  <2>5. Fits(p, task[p])'
    BY <1>5, <2>1, <2>2, <2>4, <2>0 DEF ServeDelete, At, Fits, Known, Onward
  <2> QED
    BY <2>1, <2>4, <2>5, TaskMoves
<1>6. ASSUME NEW p \in Tasks, ServeUpload(p)
     PROVE  TaskTypes'
  <2>0. PICK f \in Files : task' = [task EXCEPT ![p] = [@ EXCEPT !.pc = "uploaded", !.got = <<f>>]]
    BY <1>6 DEF ServeUpload
  <2>9. <<f>> \in Seq(Files)
    OBVIOUS
  <2> DEFINE t == [task[p] EXCEPT !.pc = "uploaded", !.got = <<f>>]
  <2>1. task[p] \in TaskRecord /\ Fits(p, task[p]) /\ p \in Tasks
    BY TaskFacts, TasksAre
  <2>2. t \in TaskRecord /\ t.pc = "uploaded" /\ t.got = <<f>> /\ t.op = task[p].op /\ t.s = task[p].s
        /\ t.copy = task[p].copy /\ t.new = task[p].new
    BY <2>1, <2>9 DEF TaskRecord
  <2>3. task' = [task EXCEPT ![p] = t]
    BY <2>0
  <2> HIDE DEF t
  <2>4. task' \in [Tasks -> TaskRecord] /\ task'[p] = t /\ \A q \in Tasks : q # p => task'[q] = task[q]
    BY <2>1, <2>2, <2>3, TaskSet
  <2>5. Fits(p, task[p])'
    BY <1>6, <2>1, <2>2, <2>4, <2>0 DEF ServeUpload, At, Fits, Known, Onward
  <2> QED
    BY <2>1, <2>4, <2>5, TaskMoves
<1>7. ASSUME NEW p \in Tasks, Started(p)
     PROVE  TaskTypes'
  <2>1. Known(task[p].s) /\ At(p, "started")
    BY <1>7, TaskFacts DEF Started, At, Fits
  <2> QED
    BY <1>7, <2>1, LoadFits DEF Started, At
<1>8. ASSUME NEW p \in Tasks, Listed(p)
     PROVE  TaskTypes'
  <2>0. At(p, "listed") /\ task[p].got \in Seq(Sessions) /\ \A s \in ToSet(task[p].got) : Known(s)
    BY <1>8, TaskFacts DEF Listed, At, Fits
  <2>1. CASE task[p].got # <<>>
    <3>1. Known(Head(task[p].got))
      BY <2>0, <2>1, ToSetTail
    <3> QED
      BY <1>8, <2>0, <2>1, <3>1, LoadFits DEF Listed, At
  <2>2. CASE task[p].got = <<>>
    <3> DEFINE t == [task[p] EXCEPT !.pc = "tokens"]
    <3>1. task[p] \in TaskRecord /\ Fits(p, task[p]) /\ p \in Tasks
      BY TaskFacts, TasksAre
    <3>2. t \in TaskRecord /\ t.pc = "tokens" /\ t.got = task[p].got /\ t.op = task[p].op /\ t.s = task[p].s
          /\ t.copy = task[p].copy /\ t.new = task[p].new
      BY <1>8, <3>1, <2>2 DEF TaskRecord
    <3>3. task' = [task EXCEPT ![p] = t]
      BY <1>8, <2>2 DEF Listed
    <3> HIDE DEF t
    <3>4. task' \in [Tasks -> TaskRecord] /\ task'[p] = t /\ \A q \in Tasks : q # p => task'[q] = task[q]
      BY <3>1, <3>2, <3>3, TaskSet
    <3>5. Fits(p, task[p])'
      BY <1>8, <3>1, <3>2, <3>4 DEF Listed, At, Fits, Known, Onward
    <3> QED
      BY <3>1, <3>4, <3>5, TaskMoves
  <2> QED
    BY <2>1, <2>2
<1>9. ASSUME NEW p \in Tasks, Deleted(p)
     PROVE  TaskTypes'
  <2> DEFINE remaining == Sublist(sessions, {i \in DOMAIN sessions : sessions[i] # task[p].s})
  <2>1. remaining \in Seq(Sessions) /\ \A s \in ToSet(remaining) : Known(s)
    BY Remaining
  <2>2. IF remaining = <<>> THEN End(p) ELSE LoadMessages(p, Head(remaining))
    BY <1>9 DEF Deleted
  <2> HIDE DEF remaining
  <2>3. CASE remaining = <<>>
    BY <2>2, <2>3, EndFits
  <2>4. CASE remaining # <<>>
    <3>1. Known(Head(remaining))
      BY <2>1, <2>4, ToSetTail
    <3> QED
      BY <1>9, <2>2, <2>4, <3>1, LoadFits DEF Deleted, At
  <2> QED
    BY <2>3, <2>4
<1>10. ASSUME NEW p \in Tasks, Loaded(p)
     PROVE  TaskTypes'
  <2>0. CASE End(p)
    BY <2>0, EndFits
  <2>1. CASE task' = [task EXCEPT ![p].pc = "tokens"] /\ task[p].op = "list"
    <3> DEFINE t == [task[p] EXCEPT !.pc = "tokens"]
    <3>0. task[p].pc = "loaded"
      BY <1>10 DEF Loaded, At
    <3>1. task[p] \in TaskRecord /\ Fits(p, task[p]) /\ p \in Tasks
      BY TaskFacts, TasksAre
    <3>2. t \in TaskRecord /\ t.pc = "tokens" /\ t.got = task[p].got /\ t.op = task[p].op /\ t.s = task[p].s
          /\ t.copy = task[p].copy /\ t.new = task[p].new
      BY <1>10, <3>1 DEF TaskRecord
    <3>3. task' = [task EXCEPT ![p] = t]
      BY <2>1
    <3> HIDE DEF t
    <3>4. task' \in [Tasks -> TaskRecord] /\ task'[p] = t /\ \A q \in Tasks : q # p => task'[q] = task[q]
      BY <3>1, <3>2, <3>3, TaskSet
    <3>5. Fits(p, task[p])'
      BY <2>1, <3>0, <3>1, <3>2, <3>4 DEF Fits, Known, Onward
    <3> QED
      BY <3>1, <3>4, <3>5, TaskMoves
  <2> QED
    BY <1>10, <2>0, <2>1 DEF Loaded
<1>11. ASSUME NEW p \in Tasks, TokensFetched(p)
     PROVE  TaskTypes'
  BY <1>11, EndFits DEF TokensFetched
<1>12. ASSUME NEW p \in Tasks, CallFails(p)
     PROVE  TaskTypes'
  BY <1>12, EndFits DEF CallFails
<1>13. ASSUME NEW p \in Clicks, CreateSession(p)
     PROVE  TaskTypes'
  BY <1>13, TasksAre, RunFits DEF CreateSession
<1>14. ASSUME NEW p \in Clicks, NEW s \in Sessions, ResumeSession(p, s)
     PROVE  TaskTypes'
  <2>1. Known(s)
    BY <1>14 DEF ResumeSession, BarTypes, Contains, ToSet
  <2> QED
    BY <1>14, <2>1, TasksAre, RunFits DEF ResumeSession
<1>15. ASSUME NEW p \in Clicks, NEW s \in Sessions, RemoveSession(p, s)
     PROVE  TaskTypes'
  <2>1. Known(s) /\ s # None
    BY <1>15, NoneIsNot DEF RemoveSession, BarTypes, Contains, ToSet
  <2> QED
    BY <1>15, <2>1, TasksAre, RunFits DEF RemoveSession
<1>16. ASSUME SendMessage
     PROVE  TaskTypes'
  <2>1. CASE UNCHANGED task
    BY <1>1, <2>1
  <2>2. CASE Run("send", "send", "start", None)
    BY <2>2, TasksAre, RunFits
  <2> QED
    BY <1>16, <2>1, <2>2 DEF SendMessage
<1>17. ASSUME SendLoaded
     PROVE  TaskTypes'
  BY <1>17, TasksAre, EndFits DEF SendLoaded
<1>18. ASSUME UploadFiles
     PROVE  TaskTypes'
  <2>1. CASE Run("upload", "upload", "start", None)
    BY <2>1, TasksAre, RunFits
  <2>2. CASE current # None /\ BeginUpload(current)
    <3>1. Known(current)
      BY <2>2 DEF BarTypes
    <3> QED
      BY <2>2, <3>1, BeginFits
  <2> QED
    BY <1>18, <2>1, <2>2 DEF UploadFiles
<1>19. ASSUME UploadLoaded
     PROVE  TaskTypes'
  <2>1. Known(task["upload"].s)
    BY <1>19, TasksAre, TaskFacts DEF UploadLoaded, At, Fits
  <2> QED
    BY <1>19, <2>1, BeginFits DEF UploadLoaded
<1>20. ASSUME Uploaded
     PROVE  TaskTypes'
  <2>0. CASE End("upload")
    BY <2>0, TasksAre, EndFits
  <2> DEFINE up == task["upload"]
             more == Range(up.got)
  <2>9. CASE task' = [task EXCEPT !["upload"] = [up EXCEPT !.pc = "upload", !.got = <<>>,
                                                            !.copy = @ \cup more, !.new = @ \cup more]]
    <3>0. more \in SUBSET Files
      BY <1>20, UploadedFile DEF Uploaded
    <3>9. up.copy \cup more \in SUBSET Files /\ up.new \cup more \in SUBSET Files /\ <<>> \in Seq(Files)
      BY <3>0, TaskFacts, TasksAre DEF TaskRecord
    <3> HIDE DEF more
    <3> DEFINE t == [up EXCEPT !.pc = "upload", !.got = <<>>, !.copy = @ \cup more, !.new = @ \cup more]
    <3>1. task["upload"] \in TaskRecord /\ Fits("upload", task["upload"]) /\ "upload" \in Tasks
      BY TaskFacts, TasksAre
    <3>2. t \in TaskRecord /\ t.pc = "upload" /\ t.got = <<>> /\ t.op = up.op /\ t.s = up.s
      BY <3>1, <3>9 DEF TaskRecord
    <3>3. task' = [task EXCEPT !["upload"] = t]
      BY <2>9 DEF more
    <3> HIDE DEF t
    <3>4. task' \in [Tasks -> TaskRecord] /\ task'["upload"] = t /\ \A q \in Tasks : q # "upload" => task'[q] = task[q]
      BY <3>1, <3>2, <3>3, TaskSet
    <3>5. Fits("upload", task["upload"])'
      BY <1>20, <3>1, <3>2, <3>4, <3>0 DEF Uploaded, At, Fits, Known, Onward
    <3> QED
      BY <3>1, <3>4, <3>5, TaskMoves
  <2> QED
    BY <1>20, <2>0, <2>9 DEF Uploaded
<1>21. ASSUME NEW n \in Turns, ServeAck(n) \/ ServeChunk(n) \/ ServeDone(n) \/ ServeError(n) \/ ServeLost(n)
     PROVE  TaskTypes'
  BY <1>21, <1>1 DEF ServeAck, ServeChunk, ServeDone, ServeError, ServeLost, backend, history
<1>22. ASSUME OnAck \/ OnStream \/ OnDone \/ OnError \/ StreamEnd \/ StreamBreaks
     PROVE  TaskTypes'
  BY <1>22, <1>1 DEF OnAck, OnStream, OnDone, OnError, StreamEnd, StreamBreaks, Throws,
                     backend, history
<1>23. ASSUME NEW f \in Files, RemoveAttachment(f)
     PROVE  TaskTypes'
  BY <1>23, <1>1 DEF RemoveAttachment, backend, history
<1>24. CASE UNCHANGED vars
  BY <1>24, <1>1 DEF vars, backend, history
<1>start. ASSUME NEW p \in Tasks, StartLost(p)
     PROVE  TaskTypes'
  <2> DEFINE t == [task[p] EXCEPT !.pc = "lost"]
  <2>1. task[p] \in TaskRecord /\ Fits(p, task[p]) /\ p \in Tasks
    BY TaskFacts, TasksAre
  <2>2. t \in TaskRecord /\ t.pc = "lost" /\ t.op = task[p].op /\ t.s = task[p].s
        /\ t.copy = task[p].copy /\ t.new = task[p].new
    BY <1>start, <2>1 DEF TaskRecord
  <2>3. task' = [task EXCEPT ![p] = t]
    BY <1>start DEF StartLost
  <2> HIDE DEF t
  <2>4. task' \in [Tasks -> TaskRecord] /\ task'[p] = t /\ \A q \in Tasks : q # p => task'[q] = task[q]
    BY <2>1, <2>2, <2>3, TaskSet
  <2>5. Fits(p, task[p])'
    BY <1>start, <2>1, <2>2, <2>4 DEF StartLost, At, Fits, Known, Onward
  <2> QED
    BY <2>1, <2>4, <2>5, TaskMoves
<1> QED
  BY <1>start, <1>1, <1>2, <1>3, <1>4, <1>5, <1>6, <1>7, <1>8, <1>9, <1>10, <1>11, <1>12, <1>13,
     <1>14, <1>15, <1>16, <1>17, <1>18, <1>19, <1>20, <1>21, <1>22, <1>23, <1>24 DEF Next, Answer, ServeQuestion, ReadStream

-----------------------------------------------------------------------------
(* The open question, and the lock of the composer. *)

LEMMA NoTurnType == NoTurn \in TurnRecord /\ NoTurn.n = 0 /\ NoTurn.s = None /\ ~NoTurn.held
BY ChatStoreAssumption DEF NoTurn, TurnRecord

\* The question goes on.
LEMMA TurnMoves ==
  ASSUME TurnTypes, Onward, Open, turn' \in TurnRecord, turn'.n = turn.n, turn'.s = turn.s,
         \A n \in Turns : served[n].pc # "none" => served'[n].pc # "none" /\ served'[n].s = served[n].s
  PROVE  TurnTypes'
<1>1. turn.n \in Turns /\ turn.n # 0 /\ Known(turn.s)
  BY OpenFacts
<1>2. Open' /\ Known(turn.s)' /\ served'[turn.n].pc # "none" /\ served'[turn.n].s = turn.s
  BY <1>1 DEF TurnTypes, Open, Known, Onward
<1> QED
  BY <1>2 DEF TurnTypes, Open, Known

\* The backend sends events to the page that asked, if it still listens.
LEMMA EmitTypes ==
  ASSUME TurnTypes, Onward, NEW n \in Turns, NEW es \in Seq(Events), Emit(n, es),
         \A m \in Turns : served[m].pc # "none" => served'[m].pc # "none" /\ served'[m].s = served[m].s
  PROVE  TurnTypes'
<1>1. CASE turn.n = n
  <2>1. Open
    BY <1>1, ChatStoreAssumption DEF Open, Turns
  <2>2. turn.events \o es \in Seq(Events)
    BY DEF TurnTypes, TurnRecord
  <2>3. turn' = [turn EXCEPT !.events = turn.events \o es] /\ turn \in TurnRecord
    BY <1>1 DEF Emit, TurnTypes
  <2>4. turn' \in TurnRecord /\ turn'.n = turn.n /\ turn'.s = turn.s
    BY <2>2, <2>3 DEF TurnRecord
  <2> QED
    BY <2>1, <2>4, TurnMoves
<1>2. CASE turn.n # n
  <2>1. turn' = turn /\ turn \in TurnRecord
    BY <1>2 DEF Emit, TurnTypes
  <2>2. CASE Open
    BY <2>1, <2>2, TurnMoves
  <2>3. CASE ~Open
    BY <2>1, <2>3 DEF TurnTypes, Open
  <2> QED
    BY <2>2, <2>3
<1> QED
  BY <1>1, <1>2

LEMMA EventLists == /\ <<"ack">> \in Seq(Events) /\ <<"stream">> \in Seq(Events)
                    /\ <<"error">> \in Seq(Events)
                    /\ <<"titled", "end">> \in Seq(Events) /\ <<"done", "end">> \in Seq(Events)
BY DEF Events

\* The list shown is replaced: the send keeps its own.
LEMMA LetGoTypes ==
  ASSUME TurnTypes, Onward, NEW s \in Sessions, LetGo(s), UNCHANGED served
  PROVE  TurnTypes'
<1>1. turn \in TurnRecord
  BY DEF TurnTypes
<1>2. turn' \in TurnRecord /\ turn'.n = turn.n /\ turn'.s = turn.s
  BY <1>1 DEF LetGo, TurnRecord
<1>3. CASE Open
  BY <1>2, <1>3, TurnMoves
<1>4. CASE ~Open
  <2>1. turn = NoTurn /\ turn.s # s
    BY <1>4, NoTurnType, NoneIsNot DEF TurnTypes
  <2> QED
    BY <1>1, <1>4, <2>1 DEF LetGo, TurnTypes, Open
<1> QED
  BY <1>3, <1>4

\* A question is asked.
LEMMA BeginTypes ==
  ASSUME BackendTypes, PageTypes, Onward, NEW s, Known(s), NEW list, BeginStream(s, list)
  PROVE  TurnTypes'
<1>1. PICK n \in Turns : /\ served' = [served EXCEPT ![n] = [@ EXCEPT !.pc = "asked", !.s = s]]
                         /\ turn' = [NoTurn EXCEPT !.n = n, !.s = s, !.held = TRUE, !.out = files[s]]
  BY DEF BeginStream
<1>2. s \in Sessions /\ files[s] \in SUBSET Files /\ n \in 0..MaxTurns /\ n # 0
  BY NotesAre DEF Known, PageTypes, Turns
<1>3. turn' \in TurnRecord /\ turn'.n = n /\ turn'.s = s
  BY <1>1, <1>2, NoTurnType DEF TurnRecord
<1>4. served'[n].pc = "asked" /\ served'[n].s = s
  BY <1>1 DEF BackendTypes, ServedRecord
<1> QED
  BY <1>2, <1>3, <1>4 DEF TurnTypes, Open, Known, Onward

\* An event is read.
LEMMA ReadTypes ==
  ASSUME TurnTypes, Onward, Open, turn.events # <<>>, NEW temp \in Nat,
         turn' = [turn EXCEPT !.events = Tail(@), !.temp = temp], UNCHANGED served
  PROVE  TurnTypes'
<1>1. turn \in TurnRecord /\ Tail(turn.events) \in Seq(Events)
  BY DEF TurnTypes, TurnRecord
<1>2. turn' \in TurnRecord /\ turn'.n = turn.n /\ turn'.s = turn.s
  BY <1>1 DEF TurnRecord
<1> QED
  BY <1>2, TurnMoves

LEMMA ClosedTypes ==
  ASSUME turn' = NoTurn
  PROVE  TurnTypes'
BY NoTurnType DEF TurnTypes, Open

\* The types of the open question.
LEMMA TurnStep ==
  ASSUME TaskTypes, BackendTypes, BarTypes, ShownTypes, PageTypes, TurnTypes, HeldTypes, Onward, [Next]_vars
  PROVE  TurnTypes'
<1>1. CASE UNCHANGED <<served, turn>>
  BY <1>1 DEF TurnTypes, Open, Known, Onward
<1>2. ASSUME NEW p \in Tasks, Deleted(p)
     PROVE  TurnTypes'
  <2>1. task[p].s \in Sessions
    BY <1>2, TasksAre, TaskFacts DEF Deleted, At, Fits, Known
  <2> QED
    BY <1>2, <2>1, LetGoTypes DEF Deleted, backend
<1>3. ASSUME NEW p \in Tasks, Loaded(p)
     PROVE  TurnTypes'
  <2>1. task[p].s \in Sessions
    BY <1>3, TasksAre, TaskFacts DEF Loaded, At, Fits, Known
  <2> QED
    BY <1>3, <2>1, LetGoTypes DEF Loaded, backend
<1>4. ASSUME NEW n \in Turns, ServeAck(n)
     PROVE  TurnTypes'
  <2>1. \A m \in Turns : served[m].pc # "none" => served'[m].pc # "none" /\ served'[m].s = served[m].s
    BY <1>4 DEF ServeAck, BackendTypes, ServedRecord
  <2> QED
    BY <1>4, <2>1, EventLists, EmitTypes DEF ServeAck
<1>5. ASSUME NEW n \in Turns, ServeChunk(n)
     PROVE  TurnTypes'
  <2>1. \A m \in Turns : served[m].pc # "none" => served'[m].pc # "none" /\ served'[m].s = served[m].s
    BY <1>5 DEF ServeChunk, BackendTypes, ServedRecord
  <2> QED
    BY <1>5, <2>1, EventLists, EmitTypes DEF ServeChunk
<1>6. ASSUME NEW n \in Turns, ServeDone(n)
     PROVE  TurnTypes'
  <2>1. \A m \in Turns : served[m].pc # "none" => served'[m].pc # "none" /\ served'[m].s = served[m].s
    BY <1>6 DEF ServeDone, BackendTypes, ServedRecord
  <2> QED
    BY <1>6, <2>1, EventLists, EmitTypes DEF ServeDone
<1>7. ASSUME NEW n \in Turns, ServeError(n)
     PROVE  TurnTypes'
  <2>1. \A m \in Turns : served[m].pc # "none" => served'[m].pc # "none" /\ served'[m].s = served[m].s
    BY <1>7 DEF ServeError, BackendTypes, ServedRecord
  <2> QED
    BY <1>7, <2>1, EventLists, EmitTypes DEF ServeError
<1>8. ASSUME SendMessage
     PROVE  TurnTypes'
  <2>1. CASE current = None
    BY <1>8, <1>1, <2>1 DEF SendMessage
  <2>2. CASE current # None
    BY <1>8, <2>2, BeginTypes DEF SendMessage, BarTypes
  <2> QED
    BY <2>1, <2>2
<1>9. ASSUME SendLoaded
     PROVE  TurnTypes'
  <2>1. Known(task["send"].s)
    BY <1>9, TasksAre, TaskFacts DEF SendLoaded, At, Fits
  <2> QED
    BY <1>9, <2>1, BeginTypes DEF SendLoaded
<1>10. ASSUME OnAck
     PROVE  TurnTypes'
  <2>1. Open /\ turn.events # <<>> /\ UNCHANGED served
    BY <1>10 DEF OnAck, Reads, backend
  <2>2. Len(Messages) \in Nat /\ Len(Messages) + 1 \in Nat /\ turn.temp \in Nat
    BY MessagesType DEF TurnTypes, TurnRecord
  <2>3. \E temp \in Nat : turn' = [turn EXCEPT !.events = Tail(@), !.temp = temp]
    BY <1>10, <2>2 DEF OnAck, Update
  <2> QED
    BY <2>1, <2>3, ReadTypes
<1>11. ASSUME OnStream
     PROVE  TurnTypes'
  <2>1. Open /\ turn.events # <<>> /\ UNCHANGED served
    BY <1>11 DEF OnStream, Reads, backend
  <2>2. Len(Messages) \in Nat /\ Len(Messages) + 1 \in Nat /\ turn.temp \in Nat
    BY MessagesType DEF TurnTypes, TurnRecord
  <2>3. \E temp \in Nat : turn' = [turn EXCEPT !.events = Tail(@), !.temp = temp]
    <3>1. CASE turn.temp = 0
      <4>1. turn' = [turn EXCEPT !.events = Tail(@), !.temp = Len(Messages) + 1] /\ Len(Messages) + 1 \in Nat
        BY <1>11, <2>2, <3>1 DEF OnStream, Update
      <4> QED
        BY <4>1
    <3>2. CASE turn.temp # 0
      <4>1. turn' = [turn EXCEPT !.events = Tail(@), !.temp = turn.temp]
        BY <1>11, <3>2 DEF OnStream, Update
      <4> QED
        BY <2>2, <4>1
    <3> QED
      BY <3>1, <3>2
  <2> QED
    BY <2>1, <2>3, ReadTypes
<1>12. ASSUME OnDone
     PROVE  TurnTypes'
  <2>1. Open /\ turn.events # <<>> /\ UNCHANGED served
    BY <1>12 DEF OnDone, Reads, backend
  <2>2. Len(Messages) \in Nat /\ Len(Messages) + 1 \in Nat /\ turn.temp \in Nat
    BY MessagesType DEF TurnTypes, TurnRecord
  <2>3. \E temp \in Nat : turn' = [turn EXCEPT !.events = Tail(@), !.temp = temp]
    <3>1. CASE turn.temp = 0
      <4>1. turn' = [turn EXCEPT !.events = Tail(@), !.temp = 0] /\ 0 \in Nat
        BY <1>12, <2>2, <3>1 DEF OnDone, Update
      <4> QED
        BY <4>1
    <3>2. CASE turn.temp # 0
      <4>1. turn' = [turn EXCEPT !.events = Tail(@), !.temp = turn.temp]
        BY <1>12, <3>2 DEF OnDone, Update
      <4> QED
        BY <2>2, <4>1
    <3> QED
      BY <3>1, <3>2
  <2> QED
    BY <2>1, <2>3, ReadTypes
<1>13. ASSUME OnError
     PROVE  TurnTypes'
  BY <1>13, ClosedTypes DEF OnError, Throws, Finally
<1>14. ASSUME StreamEnd
     PROVE  TurnTypes'
  BY <1>14, ClosedTypes DEF StreamEnd, Throws, Finally
<1>15. ASSUME StreamBreaks
     PROVE  TurnTypes'
  BY <1>15, ClosedTypes DEF StreamBreaks, Throws, Finally
<1>16. ASSUME UploadLoaded
     PROVE  TurnTypes'
  <2>1. task["upload"].s \in Sessions
    BY <1>16, TasksAre, TaskFacts DEF UploadLoaded, At, Fits, Known
  <2> QED
    BY <1>16, <2>1, LetGoTypes DEF UploadLoaded, backend
<1>17. ASSUME NEW p \in Tasks, StartLost(p) \/ ServeList(p) \/ ServeStart(p) \/ ServeLoad(p) \/
                               ServeDelete(p) \/ ServeUpload(p) \/ Started(p) \/
                               Listed(p) \/ TokensFetched(p) \/ CallFails(p)
     PROVE  TurnTypes'
  BY <1>17, <1>1 DEF StartLost, ServeList, ServeStart, ServeLoad, ServeDelete, ServeUpload, Started,
                     Listed, TokensFetched, CallFails, backend, history
<1>18. ASSUME NEW p \in Clicks, CreateSession(p)
     PROVE  TurnTypes'
  BY <1>18, <1>1 DEF CreateSession, backend, history
<1>19. ASSUME NEW p \in Clicks, NEW s \in Sessions, ResumeSession(p, s) \/
                                                    RemoveSession(p, s)
     PROVE  TurnTypes'
  BY <1>19, <1>1 DEF ResumeSession, RemoveSession, backend, history
<1>20. ASSUME UploadFiles \/ Uploaded
     PROVE  TurnTypes'
  BY <1>20, <1>1 DEF UploadFiles, Uploaded, backend, history
<1>21. ASSUME NEW f \in Files, RemoveAttachment(f)
     PROVE  TurnTypes'
  BY <1>21, <1>1 DEF RemoveAttachment, backend, history
<1>22. CASE UNCHANGED vars
  BY <1>22, <1>1 DEF vars, backend, history
<1>lost. ASSUME NEW n \in Turns, ServeLost(n)
     PROVE  TurnTypes'
  <2>1. \A m \in Turns : served[m].pc # "none" => served'[m].pc # "none" /\ served'[m].s = served[m].s
    BY <1>lost DEF ServeLost, BackendTypes, ServedRecord
  <2>2. <<>> \in Seq(Events) /\ Emit(n, <<>>)
    BY <1>lost DEF ServeLost, Emit, TurnTypes, TurnRecord
  <2> QED
    BY <1>lost, <2>1, <2>2, EmitTypes DEF ServeLost
<1> QED
  BY <1>lost, <1>1, <1>2, <1>3, <1>4, <1>5, <1>6, <1>7, <1>8, <1>9, <1>10, <1>11, <1>12, <1>13,
     <1>14, <1>15, <1>16, <1>17, <1>18, <1>19, <1>20, <1>21, <1>22 DEF Next, Answer, ServeQuestion, ReadStream

\* The list a send holds when another list is replaced or written to.
LEMMA HeldElsewhere ==
  ASSUME ShownTypes, TurnTypes, HeldTypes, NEW s \in Sessions, LetGo(s), NEW l,
         shown' = [shown EXCEPT ![s] = l]
  PROVE  HeldTypes'
<1>1. CASE turn.s = s
  BY <1>1 DEF LetGo, HeldTypes, TurnTypes, TurnRecord
<1>2. CASE turn.s # s
  <2>1. turn' = turn
    BY <1>2 DEF LetGo
  <2>2. turn.held => turn.s \in Sessions /\ shown'[turn.s] = shown[turn.s]
    BY <1>2, HeldFacts DEF ShownTypes
  <2> QED
    BY <2>1, <2>2 DEF HeldTypes
<1> QED
  BY <1>1, <1>2

\* The events of a question leave its list alone ...
LEMMA HeldEmit ==
  ASSUME TurnTypes, HeldTypes, NEW n, NEW es, Emit(n, es), UNCHANGED shown
  PROVE  HeldTypes'
<1>1. turn'.held = turn.held /\ turn'.s = turn.s /\ turn'.temp = turn.temp
  BY DEF Emit, TurnTypes, TurnRecord
<1> QED
  BY <1>1 DEF HeldTypes

\* ... until a callback writes to it.
LEMMA HeldUpdate ==
  ASSUME ShownTypes, TurnTypes, HeldTypes, NEW list \in Seq(Notes), NEW temp \in Nat,
         turn.held => temp <= Len(list),
         shown' = IF turn.held THEN [shown EXCEPT ![turn.s] = list] ELSE shown,
         turn' = [turn EXCEPT !.events = Tail(@), !.temp = temp]
  PROVE  HeldTypes'
<1>1. turn'.held = turn.held /\ turn'.s = turn.s /\ turn'.temp = temp
  BY DEF TurnTypes, TurnRecord
<1>2. turn.held => shown'[turn.s] = list
  BY HeldFacts DEF ShownTypes
<1> QED
  BY <1>1, <1>2, NoneIsNot DEF HeldTypes

LEMMA HeldBegin ==
  ASSUME ShownTypes, NEW s \in Sessions, NEW list \in Seq(Notes), BeginStream(s, list)
  PROVE  HeldTypes'
<1>1. turn'.s = s /\ turn'.temp = 0 /\ shown'[s] = list
  BY DEF BeginStream, ShownTypes, NoTurn
<1> QED
  BY <1>1, NoneIsNot DEF HeldTypes

\* The list a send holds is there, and long enough for its draft.
LEMMA HeldStep ==
  ASSUME TaskTypes, BackendTypes, BarTypes, ShownTypes, PageTypes, TurnTypes, HeldTypes, [Next]_vars
  PROVE  HeldTypes'
<1>1. CASE UNCHANGED <<shown, turn>>
  BY <1>1 DEF HeldTypes
<1>2. ASSUME NEW p \in Tasks, Deleted(p)
     PROVE  HeldTypes'
  <2>1. task[p].s \in Sessions
    BY <1>2, TasksAre, TaskFacts DEF Deleted, At, Fits, Known
  <2> QED
    BY <1>2, <2>1, HeldElsewhere DEF Deleted
<1>3. ASSUME NEW p \in Tasks, Loaded(p)
     PROVE  HeldTypes'
  <2>1. task[p].s \in Sessions
    BY <1>3, TasksAre, TaskFacts DEF Loaded, At, Fits, Known
  <2> QED
    BY <1>3, <2>1, HeldElsewhere DEF Loaded
<1>4. ASSUME NEW n \in Turns, ServeAck(n)
     PROVE  HeldTypes'
  BY <1>4, HeldEmit DEF ServeAck
<1>5. ASSUME NEW n \in Turns, ServeChunk(n)
     PROVE  HeldTypes'
  BY <1>5, HeldEmit DEF ServeChunk
<1>6. ASSUME NEW n \in Turns, ServeDone(n)
     PROVE  HeldTypes'
  BY <1>6, HeldEmit DEF ServeDone
<1>7. ASSUME NEW n \in Turns, ServeError(n)
     PROVE  HeldTypes'
  BY <1>7, HeldEmit DEF ServeError
<1>8. ASSUME SendMessage
     PROVE  HeldTypes'
  <2>1. CASE current = None
    BY <1>8, <1>1, <2>1 DEF SendMessage
  <2>2. CASE current # None
    <3>1. current \in Sessions
      BY <2>2 DEF BarTypes, Known
    <3> QED
      BY <1>8, <2>2, <3>1, EnsuredList, HeldBegin DEF SendMessage
  <2> QED
    BY <2>1, <2>2
<1>9. ASSUME SendLoaded
     PROVE  HeldTypes'
  <2>1. task["send"].s \in Sessions /\ task["send"].got \in Seq(Notes)
    BY <1>9, TasksAre, TaskFacts DEF SendLoaded, At, Fits, Known
  <2> QED
    BY <1>9, <2>1, HeldBegin DEF SendLoaded
<1>10. ASSUME OnAck
     PROVE  HeldTypes'
  <2>0. Open /\ turn.n \in Turns
    BY <1>10, OpenFacts DEF OnAck, Reads
  <2>9. /\ Messages \in Seq(Notes) /\ Len(Messages) \in Nat /\ turn.temp \in Nat
        /\ turn.held => turn.temp <= Len(Messages)
    BY MessagesType, HeldFacts DEF HeldTypes, TurnTypes, TurnRecord
  <2> DEFINE list == Append(Messages, <<turn.n, "user">>)
             temp == turn.temp
  <2>1. list \in Seq(Notes) /\ temp \in Nat /\ (turn.held => temp <= Len(list))
    <3>1. list \in Seq(Notes) /\ Len(list) = Len(Messages) + 1
      BY <2>0, <2>9, AppendNote DEF Roles
    <3> QED
      BY <2>9, <3>1
  <2>2. /\ shown' = IF turn.held THEN [shown EXCEPT ![turn.s] = list] ELSE shown
        /\ turn' = [turn EXCEPT !.events = Tail(@), !.temp = temp]
    BY <1>10 DEF OnAck, Update
  <2> HIDE DEF list, temp
  <2> QED
    BY <2>1, <2>2, HeldUpdate
<1>11. ASSUME OnStream
     PROVE  HeldTypes'
  <2>0. Open /\ turn.n \in Turns
    BY <1>11, OpenFacts DEF OnStream, Reads
  <2>9. /\ Messages \in Seq(Notes) /\ Len(Messages) \in Nat /\ turn.temp \in Nat
        /\ turn.held => turn.temp <= Len(Messages)
    BY MessagesType, HeldFacts DEF HeldTypes, TurnTypes, TurnRecord
  <2> DEFINE list == IF turn.temp = 0 THEN Append(Messages, <<turn.n, "temp">>) ELSE Messages
             temp == IF turn.temp = 0 THEN Len(Messages) + 1 ELSE turn.temp
  <2>1. list \in Seq(Notes) /\ temp \in Nat /\ (turn.held => temp <= Len(list))
    <3>1. CASE turn.temp = 0
      <4>1. list \in Seq(Notes) /\ Len(list) = Len(Messages) + 1
        BY <2>0, <2>9, <3>1, AppendNote DEF Roles
      <4> QED
        BY <2>9, <3>1, <4>1
    <3>2. CASE turn.temp # 0
      BY <2>9, <3>2
    <3> QED
      BY <3>1, <3>2
  <2>2. /\ shown' = IF turn.held THEN [shown EXCEPT ![turn.s] = list] ELSE shown
        /\ turn' = [turn EXCEPT !.events = Tail(@), !.temp = temp]
    BY <1>11 DEF OnStream, Update
  <2> HIDE DEF list, temp
  <2> QED
    BY <2>1, <2>2, HeldUpdate
<1>12. ASSUME OnDone
     PROVE  HeldTypes'
  <2>0. Open /\ turn.n \in Turns
    BY <1>12, OpenFacts DEF OnDone, Reads
  <2>9. /\ Messages \in Seq(Notes) /\ Len(Messages) \in Nat /\ turn.temp \in Nat
        /\ turn.held => turn.temp <= Len(Messages)
    BY MessagesType, HeldFacts DEF HeldTypes, TurnTypes, TurnRecord
  <2> DEFINE list == IF turn.temp = 0 THEN Append(Messages, <<turn.n, "ai">>)
                 ELSE Replaced(Messages, turn.temp, <<turn.n, "ai">>)
             temp == IF turn.temp = 0 THEN 0 ELSE turn.temp
  <2>1. list \in Seq(Notes) /\ temp \in Nat /\ (turn.held => temp <= Len(list))
    <3>1. CASE turn.temp = 0
      <4>1. list \in Seq(Notes) /\ Len(list) = Len(Messages) + 1
        BY <2>0, <2>9, <3>1, AppendNote DEF Roles
      <4> QED
        BY <2>9, <3>1, <4>1
    <3>2. CASE turn.temp # 0
      <4>1. list \in Seq(Notes) /\ Len(list) = Len(Messages)
        BY <2>0, <2>9, <3>2, ReplaceNote DEF Roles
      <4> QED
        BY <2>9, <3>2, <4>1
    <3> QED
      BY <3>1, <3>2
  <2>2. /\ shown' = IF turn.held THEN [shown EXCEPT ![turn.s] = list] ELSE shown
        /\ turn' = [turn EXCEPT !.events = Tail(@), !.temp = temp]
    BY <1>12 DEF OnDone, Update, Replaced
  <2> HIDE DEF list, temp
  <2> QED
    BY <2>1, <2>2, HeldUpdate
<1>13. ASSUME OnError
     PROVE  HeldTypes'
  BY <1>13, NoTurnType DEF OnError, Throws, Finally, HeldTypes
<1>14. ASSUME StreamEnd
     PROVE  HeldTypes'
  BY <1>14, NoTurnType DEF StreamEnd, Throws, Finally, HeldTypes
<1>15. ASSUME StreamBreaks
     PROVE  HeldTypes'
  BY <1>15, NoTurnType DEF StreamBreaks, Throws, Finally, HeldTypes
<1>16. ASSUME UploadFiles
     PROVE  HeldTypes'
  <2>1. turn' = turn /\ (shown' = shown \/ (current # None /\ shown' = [shown EXCEPT ![current] = EnsureMessageList(current)]))
    BY <1>16 DEF UploadFiles
  <2>2. \A s \in Sessions : shown[s] # None => shown'[s] = shown[s]
    BY <2>1 DEF ShownTypes, EnsureMessageList
  <2>3. turn.held => turn.s \in Sessions
    BY HeldFacts
  <2> QED
    BY <2>1, <2>2, <2>3 DEF HeldTypes
<1>17. ASSUME UploadLoaded
     PROVE  HeldTypes'
  <2>1. task["upload"].s \in Sessions
    BY <1>17, TasksAre, TaskFacts DEF UploadLoaded, At, Fits, Known
  <2> QED
    BY <1>17, <2>1, HeldElsewhere DEF UploadLoaded
<1>18. ASSUME NEW p \in Tasks, StartLost(p) \/ ServeList(p) \/ ServeStart(p) \/ ServeLoad(p) \/
                               ServeDelete(p) \/ ServeUpload(p) \/ Started(p) \/
                               Listed(p) \/ TokensFetched(p) \/ CallFails(p)
     PROVE  HeldTypes'
  BY <1>18, <1>1 DEF StartLost, ServeList, ServeStart, ServeLoad, ServeDelete, ServeUpload, Started,
                     Listed, TokensFetched, CallFails, backend, history
<1>19. ASSUME NEW p \in Clicks, CreateSession(p)
     PROVE  HeldTypes'
  BY <1>19, <1>1 DEF CreateSession, backend, history
<1>20. ASSUME NEW p \in Clicks, NEW s \in Sessions, ResumeSession(p, s) \/
                                                    RemoveSession(p, s)
     PROVE  HeldTypes'
  BY <1>20, <1>1 DEF ResumeSession, RemoveSession, backend, history
<1>21. ASSUME Uploaded
     PROVE  HeldTypes'
  BY <1>21, <1>1 DEF Uploaded, backend, history
<1>22. ASSUME NEW f \in Files, RemoveAttachment(f)
     PROVE  HeldTypes'
  BY <1>22, <1>1 DEF RemoveAttachment, backend, history
<1>23. CASE UNCHANGED vars
  BY <1>23, <1>1 DEF vars, backend, history
<1>lost. ASSUME NEW n \in Turns, ServeLost(n)
     PROVE  HeldTypes'
  BY <1>lost, <1>1 DEF ServeLost
<1> QED
  BY <1>lost, <1>1, <1>2, <1>3, <1>4, <1>5, <1>6, <1>7, <1>8, <1>9, <1>10, <1>11, <1>12, <1>13,
     <1>14, <1>15, <1>16, <1>17, <1>18, <1>19, <1>20, <1>21, <1>22, <1>23 DEF Next, Answer, ServeQuestion, ReadStream

\* Only sendMessage takes up a send.
Stays == Free("send") => Free("send")' \/ SendMessage

\* No other function becomes a send.
LEMMA FreeStays ==
  ASSUME TaskTypes, [Next]_vars
  PROVE  Stays
<1>1. CASE UNCHANGED <<task>>
  BY <1>1 DEF Stays, Free
<1>2. ASSUME NEW p \in Tasks, ServeList(p)
     PROVE  Stays
  BY <1>2, TasksAre, TaskFacts DEF ServeList, At, Free, Fits, Stays, TaskTypes
<1>3. ASSUME NEW p \in Tasks, ServeStart(p)
     PROVE  Stays
  BY <1>3, TasksAre, TaskFacts DEF ServeStart, At, Free, Fits, Stays, TaskTypes
<1>4. ASSUME NEW p \in Tasks, ServeLoad(p)
     PROVE  Stays
  BY <1>4, TasksAre, TaskFacts DEF ServeLoad, At, Free, Fits, Stays, TaskTypes
<1>5. ASSUME NEW p \in Tasks, ServeDelete(p)
     PROVE  Stays
  BY <1>5, TasksAre, TaskFacts DEF ServeDelete, At, Free, Fits, Stays, TaskTypes
<1>6. ASSUME NEW p \in Tasks, ServeUpload(p)
     PROVE  Stays
  BY <1>6, TasksAre, TaskFacts DEF ServeUpload, At, Free, Fits, Stays, TaskTypes
<1>7. ASSUME NEW p \in Tasks, Started(p)
     PROVE  Stays
  BY <1>7, TasksAre, TaskFacts DEF Started, At, Free, Fits, Stays, TaskTypes, LoadMessages, End
<1>8. ASSUME NEW p \in Tasks, Listed(p)
     PROVE  Stays
  BY <1>8, TasksAre, TaskFacts DEF Listed, At, Free, Fits, Stays, TaskTypes, LoadMessages, End
<1>9. ASSUME NEW p \in Tasks, Deleted(p)
     PROVE  Stays
  BY <1>9, TasksAre, TaskFacts DEF Deleted, At, Free, Fits, Stays, TaskTypes, LoadMessages, End
<1>10. ASSUME NEW p \in Tasks, Loaded(p)
     PROVE  Stays
  BY <1>10, TasksAre, TaskFacts DEF Loaded, At, Free, Fits, Stays, TaskTypes, End
<1>11. ASSUME NEW p \in Tasks, TokensFetched(p)
     PROVE  Stays
  BY <1>11, TasksAre, TaskFacts DEF TokensFetched, At, Free, Fits, Stays, TaskTypes, End
<1>12. ASSUME NEW p \in Tasks, CallFails(p)
     PROVE  Stays
  BY <1>12, TasksAre DEF CallFails, End, NoTask, Free, Stays, TaskTypes
<1>13. ASSUME NEW p \in Clicks, CreateSession(p)
     PROVE  Stays
  BY <1>13, TasksAre, TaskFacts DEF CreateSession, At, Free, Fits, Stays, TaskTypes, Run
<1>14. ASSUME NEW p \in Clicks, NEW s \in Sessions, ResumeSession(p, s)
     PROVE  Stays
  BY <1>14, TasksAre, TaskFacts DEF ResumeSession, At, Free, Fits, Stays, TaskTypes, Run
<1>15. ASSUME NEW p \in Clicks, NEW s \in Sessions, RemoveSession(p, s)
     PROVE  Stays
  BY <1>15, TasksAre, TaskFacts DEF RemoveSession, At, Free, Fits, Stays, TaskTypes, Run
<1>16. ASSUME SendMessage
     PROVE  Stays
  BY <1>16 DEF Stays
<1>17. ASSUME SendLoaded
     PROVE  Stays
  BY <1>17, TasksAre, NoTaskType DEF SendLoaded, End, NoTask, Free, Stays, TaskTypes
<1>18. ASSUME UploadFiles
     PROVE  Stays
  BY <1>18, TasksAre DEF UploadFiles, BeginUpload, Run, Free, Stays, TaskTypes
<1>19. ASSUME UploadLoaded
     PROVE  Stays
  BY <1>19, TasksAre DEF UploadLoaded, BeginUpload, Free, Stays, TaskTypes
<1>20. ASSUME Uploaded
     PROVE  Stays
  BY <1>20, TasksAre, TaskFacts DEF Uploaded, At, Free, Fits, Stays, TaskTypes, End
<1>21. ASSUME NEW n \in Turns, ServeAck(n) \/ ServeChunk(n) \/ ServeDone(n) \/ ServeError(n) \/ ServeLost(n)
     PROVE  Stays
  BY <1>21, <1>1 DEF ServeAck, ServeChunk, ServeDone, ServeError, ServeLost, backend, history
<1>22. ASSUME OnAck \/ OnStream \/ OnDone \/ OnError \/ StreamEnd \/ StreamBreaks
     PROVE  Stays
  BY <1>22, <1>1 DEF OnAck, OnStream, OnDone, OnError, StreamEnd, StreamBreaks, Throws,
                     backend, history
<1>23. ASSUME NEW f \in Files, RemoveAttachment(f)
     PROVE  Stays
  BY <1>23, <1>1 DEF RemoveAttachment, backend, history
<1>24. CASE UNCHANGED vars
  BY <1>24, <1>1 DEF vars, backend, history
<1>start. ASSUME NEW p \in Tasks, StartLost(p)
     PROVE  Stays
  BY <1>start, TasksAre, TaskFacts DEF StartLost, At, Free, Fits, Stays, TaskTypes
<1> QED
  BY <1>start, <1>1, <1>2, <1>3, <1>4, <1>5, <1>6, <1>7, <1>8, <1>9, <1>10, <1>11, <1>12, <1>13,
     <1>14, <1>15, <1>16, <1>17, <1>18, <1>19, <1>20, <1>21, <1>22, <1>23, <1>24 DEF Next, Answer, ServeQuestion, ReadStream

\* A question is opened by a send alone, and the lock given back at its end alone.
LockStays ==
  \/ SendMessage
  \/ SendLoaded
  \/ /\ Open' => Open
     /\ sending' = sending \/ (Open /\ ~Open')

\* The lock and the question go together.
LEMMA LockMoves ==
  ASSUME TurnTypes, [Next]_vars
  PROVE  LockStays
<1>1. CASE UNCHANGED <<sending, turn>>
  BY <1>1 DEF LockStays, Open
<1>2. ASSUME NEW p \in Tasks, Deleted(p)
     PROVE  LockStays
  BY <1>2 DEF Deleted, LockStays, Open, LetGo, TurnTypes, TurnRecord
<1>3. ASSUME NEW p \in Tasks, Loaded(p)
     PROVE  LockStays
  BY <1>3 DEF Loaded, LockStays, Open, LetGo, TurnTypes, TurnRecord
<1>4. ASSUME NEW n \in Turns, ServeAck(n)
     PROVE  LockStays
  BY <1>4 DEF ServeAck, LockStays, Open, Emit, TurnTypes, TurnRecord
<1>5. ASSUME NEW n \in Turns, ServeChunk(n)
     PROVE  LockStays
  BY <1>5 DEF ServeChunk, LockStays, Open, Emit, TurnTypes, TurnRecord
<1>6. ASSUME NEW n \in Turns, ServeDone(n)
     PROVE  LockStays
  BY <1>6 DEF ServeDone, LockStays, Open, Emit, TurnTypes, TurnRecord
<1>7. ASSUME NEW n \in Turns, ServeError(n)
     PROVE  LockStays
  BY <1>7 DEF ServeError, LockStays, Open, Emit, TurnTypes, TurnRecord
<1>8. ASSUME SendMessage
     PROVE  LockStays
  BY <1>8 DEF LockStays
<1>9. ASSUME SendLoaded
     PROVE  LockStays
  BY <1>9 DEF LockStays
<1>10. ASSUME OnAck
     PROVE  LockStays
  BY <1>10 DEF OnAck, LockStays, Open, Update, Reads
<1>11. ASSUME OnStream
     PROVE  LockStays
  BY <1>11 DEF OnStream, LockStays, Open, Update, Reads
<1>12. ASSUME OnDone
     PROVE  LockStays
  BY <1>12 DEF OnDone, LockStays, Open, Update, Reads
<1>13. ASSUME OnError
     PROVE  LockStays
  BY <1>13 DEF OnError, LockStays, Open, Throws, Finally, Reads, NoTurn
<1>14. ASSUME StreamEnd
     PROVE  LockStays
  BY <1>14 DEF StreamEnd, LockStays, Open, Throws, Finally, Reads, NoTurn
<1>15. ASSUME StreamBreaks
     PROVE  LockStays
  BY <1>15 DEF StreamBreaks, LockStays, Open, Throws, Finally, Reads, NoTurn
<1>16. ASSUME UploadLoaded
     PROVE  LockStays
  BY <1>16 DEF UploadLoaded, LockStays, Open, LetGo, TurnTypes, TurnRecord
<1>17. ASSUME NEW p \in Tasks, StartLost(p) \/ ServeList(p) \/ ServeStart(p) \/ ServeLoad(p) \/
                               ServeDelete(p) \/ ServeUpload(p) \/ Started(p) \/
                               Listed(p) \/ TokensFetched(p) \/ CallFails(p)
     PROVE  LockStays
  BY <1>17, <1>1 DEF StartLost, ServeList, ServeStart, ServeLoad, ServeDelete, ServeUpload, Started,
                     Listed, TokensFetched, CallFails, backend, history
<1>18. ASSUME NEW p \in Clicks, CreateSession(p)
     PROVE  LockStays
  BY <1>18, <1>1 DEF CreateSession, backend, history
<1>19. ASSUME NEW p \in Clicks, NEW s \in Sessions, ResumeSession(p, s) \/
                                                    RemoveSession(p, s)
     PROVE  LockStays
  BY <1>19, <1>1 DEF ResumeSession, RemoveSession, backend, history
<1>20. ASSUME UploadFiles \/ Uploaded
     PROVE  LockStays
  BY <1>20, <1>1 DEF UploadFiles, Uploaded, backend, history
<1>21. ASSUME NEW f \in Files, RemoveAttachment(f)
     PROVE  LockStays
  BY <1>21, <1>1 DEF RemoveAttachment, backend, history
<1>22. CASE UNCHANGED vars
  BY <1>22, <1>1 DEF vars, backend, history
<1>lost. ASSUME NEW n \in Turns, ServeLost(n)
     PROVE  LockStays
  BY <1>lost, <1>1 DEF ServeLost
<1> QED
  BY <1>lost, <1>1, <1>2, <1>3, <1>4, <1>5, <1>6, <1>7, <1>8, <1>9, <1>10, <1>11, <1>12, <1>13,
     <1>14, <1>15, <1>16, <1>17, <1>18, <1>19, <1>20, <1>21, <1>22 DEF Next, Answer, ServeQuestion, ReadStream

\* The composer is locked while a send is at work.
LEMMA SendingStep ==
  ASSUME TaskTypes, TurnTypes, SendingLocks, [Next]_vars
  PROVE  SendingLocks'
<1>1. Stays /\ LockStays
  BY FreeStays, LockMoves
<1>2. CASE SendMessage
  <2>1. ~Open /\ Free("send") /\ sending'
    BY <1>2 DEF SendMessage, SendingLocks
  <2>2. CASE current = None
    BY <1>2, <2>1, <2>2 DEF SendMessage, SendingLocks, Open
  <2>3. CASE current # None
    BY <1>2, <2>1, <2>3 DEF SendMessage, SendingLocks, Free
  <2> QED
    BY <2>2, <2>3
<1>3. CASE SendLoaded
  <2>1. Free("send")' /\ ~Free("send")
    BY <1>3, TasksAre, TaskFacts DEF SendLoaded, End, NoTask, Free, TaskTypes, At, Fits
  <2> QED
    BY <1>3, <2>1 DEF SendLoaded, SendingLocks
<1>4. CASE ~SendMessage /\ ~SendLoaded
  <2>1. Free("send") => Free("send")'
    BY <1>1, <1>4 DEF Stays
  <2>2. (Open' => Open) /\ (sending' = sending \/ (Open /\ ~Open'))
    BY <1>1, <1>4 DEF LockStays
  <2> QED
    BY <2>1, <2>2 DEF SendingLocks
<1> QED
  BY <1>2, <1>3, <1>4

-----------------------------------------------------------------------------
(* All of it. *)

LEMMA BaseInit == Init => Base
<1> SUFFICES ASSUME Init PROVE Base
  OBVIOUS
<1>1. PICK c \in Clicks : task = [p \in Tasks |->
        IF p = c THEN [NoTask EXCEPT !.op = "list", !.pc = "list"] ELSE NoTask]
  BY DEF Init
<1> DEFINE t == [NoTask EXCEPT !.op = "list", !.pc = "list"]
<1>2. /\ NoTask \in TaskRecord /\ NoTask.op = "none" /\ NoTask.pc = "none" /\ NoTask.s = None
      /\ NoTask.copy = {} /\ NoTask.new = {}
  BY NoTaskType DEF NoTask
<1>3. t \in TaskRecord /\ t.op = "list" /\ t.pc = "list" /\ t.s = None /\ t.copy = {} /\ t.new = {}
  BY <1>2 DEF TaskRecord
<1> HIDE DEF t
<1>4. TaskTypes
  <2>1. task \in [Tasks -> TaskRecord]
    BY <1>1, <1>2, <1>3 DEF t
  <2>2. ASSUME NEW p \in Tasks PROVE Fits(p, task[p])
    <3>1. CASE p = c
      <4>1. task[p] = t /\ p # "send" /\ p # "upload"
        BY <1>1, <3>1, TasksAre DEF t
      <4> QED
        BY <1>3, <4>1 DEF Fits
    <3>2. CASE p # c
      <4>1. task[p] = NoTask
        BY <1>1, <3>2
      <4> QED
        BY <1>2, <4>1 DEF Fits
    <3> QED
      BY <3>1, <3>2
  <2> QED
    BY <2>1, <2>2 DEF TaskTypes
<1>5. BackendTypes
  <2>1. \A S : status = [s \in Sessions |-> IF s \in S THEN "here" ELSE "new"]
              => status \in [Sessions -> {"new", "here", "gone"}]
    OBVIOUS
  <2>2. Older \in Seq(Notes) /\ <<>> \in Seq(Notes)
    BY ChatStoreAssumption DEF Older, Notes, Roles
  <2>3. status \in [Sessions -> {"new", "here", "gone"}] /\ stored \in [Sessions -> Seq(Notes)]
    BY <2>2 DEF Init
  <2>4. served \in [Turns -> ServedRecord] /\ \A n \in Turns : served[n].pc = "none"
    BY DEF Init, ServedRecord
  <2>5. home = [f \in Files |-> None]
    BY DEF Init
  <2> QED
    BY <2>3, <2>4, <2>5 DEF BackendTypes
<1>6. BarTypes
  BY EmptyFacts DEF Init, BarTypes
<1>7. ShownTypes /\ PageTypes
  BY DEF Init, ShownTypes, PageTypes
<1>8. TurnTypes /\ HeldTypes /\ ~Open
  BY NoTurnType DEF Init, TurnTypes, HeldTypes, Open
<1>9. Free("send")
  BY <1>1, <1>2, TasksAre DEF Free
<1> QED
  BY <1>4, <1>5, <1>6, <1>7, <1>8, <1>9 DEF Base, SendingLocks

\* Base is inductive.
LEMMA BaseStep ==
  ASSUME Base, [Next]_vars
  PROVE  Base' /\ Onward
<1>1. Onward
  BY StatusStep DEF Base
<1> QED
  BY <1>1, TaskStep, BackendStep, BarStep, ShownStep, PageStep, TurnStep, HeldStep, SendingStep
     DEF Base

\* Base holds throughout: what each async function holds at its awaits fits what
\* the backend and the page have.
THEOREM ChatStoreBase == Spec => []Base
BY BaseInit, BaseStep, PTL DEF Spec

LEMMA BaseTypes == Base => TypeOK
<1> SUFFICES ASSUME Base PROVE TypeOK
  OBVIOUS
<1>1. Range(sessions) \subseteq {s \in Sessions : status[s] # "new"}
  BY DEF Base, BarTypes, ToSet, Range, Known
<1>2. IsInjective(sessions)
  BY DEF Base, BarTypes, Distinct, IsInjective
<1>3. current \in Sessions \cup {None}
  BY DEF Base, BarTypes, Known
<1> QED
  BY <1>1, <1>2, <1>3
     DEF Base, BackendTypes, ShownTypes, PageTypes, HeldTypes, SendingLocks, TypeOK

\* Type correctness: the lists are lists of messages, the side bar shows no
\* session twice, the composer is locked while a question is open, and the draft
\* stands inside the list as long as the send holds it.
THEOREM ChatStoreTypeOK == Spec => []TypeOK
BY ChatStoreBase, BaseTypes, PTL

-----------------------------------------------------------------------------
(* The events of a question. *)

\* What the page has still to read of question n, by how far the backend is with
\* it: the acknowledgement comes first, the answer is followed by the end of the
\* body, and nothing follows the end or an error.
EventsFit(E, pc) ==
  /\ \A i, j \in DOMAIN E : i < j => /\ E[j] # "ack"
                                     /\ E[i] \notin {"end", "error"}
                                     /\ E[i] \in {"done", "titled"} => E[j] = "end"
  /\ \A i \in DOMAIN E : E[i] \in {"done", "titled"} => i < Len(E)
  /\ pc = "asked" => E = <<>>
  /\ pc \in {"acked", "lost"} => \A i \in DOMAIN E : E[i] \in {"ack", "stream"}
  /\ pc = "over" => E # <<>> /\ E[Len(E)] \in {"end", "error"}

EventsInv == Open => EventsFit(turn.events, served[turn.n].pc)

\* The backend goes forward with each question.
Forward ==
  \A n \in Turns :
    /\ served[n].pc # "none" => served'[n].pc # "none" /\ served'[n].s = served[n].s
    /\ served[n].pc \in {"acked", "over", "lost"} => served'[n].pc \in {"acked", "over", "lost"}
    /\ served[n].pc = "over" => served'[n].pc = "over"

\* No question goes back.
LEMMA ForwardStep ==
  ASSUME BackendTypes, [Next]_vars
  PROVE  Forward
<1>1. CASE UNCHANGED <<served>>
  BY <1>1 DEF Forward
<1>2. ASSUME NEW n \in Turns, ServeAck(n)
     PROVE  Forward
  BY <1>2 DEF ServeAck, Forward, BackendTypes, ServedRecord
<1>3. ASSUME NEW n \in Turns, ServeChunk(n)
     PROVE  Forward
  BY <1>3 DEF ServeChunk, Forward, BackendTypes, ServedRecord
<1>4. ASSUME NEW n \in Turns, ServeDone(n)
     PROVE  Forward
  BY <1>4 DEF ServeDone, Forward, BackendTypes, ServedRecord
<1>5. ASSUME NEW n \in Turns, ServeError(n)
     PROVE  Forward
  BY <1>5 DEF ServeError, Forward, BackendTypes, ServedRecord
<1>6. ASSUME SendMessage
     PROVE  Forward
  BY <1>6 DEF SendMessage, Forward, BackendTypes, ServedRecord, BeginStream, Unasked
<1>7. ASSUME SendLoaded
     PROVE  Forward
  BY <1>7 DEF SendLoaded, Forward, BackendTypes, ServedRecord, BeginStream, Unasked
<1>8. ASSUME NEW p \in Tasks, StartLost(p) \/ ServeList(p) \/ ServeStart(p) \/ ServeLoad(p) \/
                              ServeDelete(p) \/ ServeUpload(p) \/ Started(p) \/ Listed(p) \/
                              Deleted(p) \/ Loaded(p) \/ TokensFetched(p) \/ CallFails(p)
     PROVE  Forward
  BY <1>8, <1>1 DEF StartLost, ServeList, ServeStart, ServeLoad, ServeDelete, ServeUpload, Started,
                    Listed, Deleted, Loaded, TokensFetched, CallFails, backend, history
<1>9. ASSUME NEW p \in Clicks, CreateSession(p)
     PROVE  Forward
  BY <1>9, <1>1 DEF CreateSession, backend, history
<1>10. ASSUME NEW p \in Clicks, NEW s \in Sessions, ResumeSession(p, s) \/
                                                    RemoveSession(p, s)
     PROVE  Forward
  BY <1>10, <1>1 DEF ResumeSession, RemoveSession, backend, history
<1>11. ASSUME OnAck \/ OnStream \/ OnDone \/ OnError \/ StreamEnd \/ StreamBreaks \/
              UploadFiles \/ UploadLoaded \/ Uploaded
     PROVE  Forward
  BY <1>11, <1>1 DEF OnAck, OnStream, OnDone, OnError, StreamEnd, StreamBreaks, UploadFiles,
                     UploadLoaded, Uploaded, Throws, backend, history
<1>12. ASSUME NEW f \in Files, RemoveAttachment(f)
     PROVE  Forward
  BY <1>12, <1>1 DEF RemoveAttachment, backend, history
<1>13. CASE UNCHANGED vars
  BY <1>13, <1>1 DEF vars, backend, history
<1>lost. ASSUME NEW n \in Turns, ServeLost(n)
     PROVE  Forward
  BY <1>lost DEF ServeLost, Forward, BackendTypes, ServedRecord
<1> QED
  BY <1>lost, <1>1, <1>2, <1>3, <1>4, <1>5, <1>6, <1>7, <1>8, <1>9, <1>10, <1>11, <1>12, <1>13
     DEF Next, Answer, ServeQuestion, ReadStream

LEMMA OneMore ==
  ASSUME NEW E \in Seq(Events), NEW e \in Events
  PROVE  /\ E \o <<e>> \in Seq(Events)
         /\ Len(E) \in Nat /\ DOMAIN E = 1..Len(E)
         /\ Len(E \o <<e>>) = Len(E) + 1
         /\ DOMAIN (E \o <<e>>) = 1..(Len(E) + 1)
         /\ \A i \in DOMAIN E : (E \o <<e>>)[i] = E[i]
         /\ (E \o <<e>>)[Len(E) + 1] = e
OBVIOUS

LEMMA TwoMore ==
  ASSUME NEW E \in Seq(Events), NEW d \in Events, NEW e \in Events
  PROVE  /\ E \o <<d, e>> \in Seq(Events)
         /\ Len(E) \in Nat /\ DOMAIN E = 1..Len(E)
         /\ Len(E \o <<d, e>>) = Len(E) + 2
         /\ DOMAIN (E \o <<d, e>>) = 1..(Len(E) + 2)
         /\ \A i \in DOMAIN E : (E \o <<d, e>>)[i] = E[i]
         /\ (E \o <<d, e>>)[Len(E) + 1] = d
         /\ (E \o <<d, e>>)[Len(E) + 2] = e
OBVIOUS

LEMMA OneFewer ==
  ASSUME NEW E \in Seq(Events), E # <<>>
  PROVE  /\ Len(E) \in Nat \ {0} /\ DOMAIN E = 1..Len(E)
         /\ Head(E) = E[1]
         /\ Tail(E) \in Seq(Events)
         /\ Len(Tail(E)) = Len(E) - 1
         /\ DOMAIN Tail(E) = 1..(Len(E) - 1)
         /\ \A i \in DOMAIN Tail(E) : Tail(E)[i] = E[i + 1]
OBVIOUS

\* Each of the backend's steps adds events that fit.
LEMMA FitAck ==
  ASSUME NEW E \in Seq(Events), EventsFit(E, "asked")
  PROVE  EventsFit(E \o <<"ack">>, "acked")
<1>1. E = <<>> /\ "ack" \in Events
  BY DEF EventsFit, Events
<1>2. DOMAIN (E \o <<"ack">>) = 1..1 /\ (E \o <<"ack">>)[1] = "ack"
  BY <1>1
<1> QED
  BY <1>2 DEF EventsFit

LEMMA FitMore ==
  ASSUME NEW E \in Seq(Events), EventsFit(E, "acked")
  PROVE  EventsFit(E \o <<"stream">>, "acked")
<1>1. "stream" \in Events
  BY DEF Events
<1> QED
  BY <1>1, OneMore DEF EventsFit

LEMMA FitDone ==
  ASSUME NEW E \in Seq(Events), NEW d \in {"done", "titled"}, EventsFit(E, "acked")
  PROVE  EventsFit(E \o <<d, "end">>, "over")
<1>1. d \in Events /\ "end" \in Events
  BY DEF Events
<1> DEFINE F == E \o <<d, "end">>
<1>2. /\ Len(E) \in Nat /\ DOMAIN E = 1..Len(E) /\ Len(F) = Len(E) + 2 /\ DOMAIN F = 1..(Len(E) + 2)
      /\ \A i \in DOMAIN E : F[i] = E[i] /\ E[i] \in {"ack", "stream"}
      /\ F[Len(E) + 1] = d /\ F[Len(E) + 2] = "end"
      /\ \A i, j \in DOMAIN E : i < j => E[j] # "ack"
  BY <1>1, TwoMore DEF EventsFit
<1> HIDE DEF F
<1>3. \A i \in DOMAIN F : i \in DOMAIN E \/ i = Len(E) + 1 \/ i = Len(E) + 2
  BY <1>2
<1>4. F # <<>>
  BY <1>2
<1>5. EventsFit(F, "over")
  BY <1>2, <1>3, <1>4 DEF EventsFit
<1> QED
  BY <1>5 DEF F

LEMMA FitError ==
  ASSUME NEW E \in Seq(Events), NEW pc \in {"asked", "acked"}, EventsFit(E, pc)
  PROVE  EventsFit(E \o <<"error">>, "over")
<1>1. "error" \in Events
  BY DEF Events
<1> DEFINE F == E \o <<"error">>
<1>2. /\ Len(E) \in Nat /\ DOMAIN E = 1..Len(E) /\ Len(F) = Len(E) + 1 /\ DOMAIN F = 1..(Len(E) + 1)
      /\ \A i \in DOMAIN E : F[i] = E[i]
      /\ F[Len(E) + 1] = "error"
  BY <1>1, OneMore
<1>3. \A i \in DOMAIN E : E[i] \in {"ack", "stream"}
  BY DEF EventsFit
<1>4. \A i, j \in DOMAIN E : i < j => E[j] # "ack"
  BY DEF EventsFit
<1> HIDE DEF F
<1>5. \A i \in DOMAIN F : i \in DOMAIN E \/ i = Len(E) + 1
  BY <1>2
<1>6. F # <<>>
  BY <1>2
<1>7. EventsFit(F, "over")
  BY <1>2, <1>3, <1>4, <1>5, <1>6 DEF EventsFit
<1> QED
  BY <1>7 DEF F

\* And the page reads them one by one.
LEMMA FitTail ==
  ASSUME NEW E \in Seq(Events), E # <<>>, NEW pc, EventsFit(E, pc), Head(E) \notin {"end", "error"}
  PROVE  EventsFit(Tail(E), pc)
<1> DEFINE F == Tail(E)
<1>1. /\ Len(E) \in Nat \ {0} /\ DOMAIN E = 1..Len(E) /\ Head(E) = E[1] /\ F \in Seq(Events)
      /\ Len(F) = Len(E) - 1 /\ DOMAIN F = 1..(Len(E) - 1)
      /\ \A i \in DOMAIN F : F[i] = E[i + 1] /\ i + 1 \in DOMAIN E
  BY OneFewer
<1> HIDE DEF F
<1>2. \A i, j \in DOMAIN F : i < j => /\ F[j] # "ack"
                                      /\ F[i] \notin {"end", "error"}
                                      /\ F[i] \in {"done", "titled"} => F[j] = "end"
  BY <1>1 DEF EventsFit
<1>3. \A i \in DOMAIN F : F[i] \in {"done", "titled"} => i < Len(F)
  BY <1>1 DEF EventsFit
<1>4. pc # "asked" /\ (pc \in {"acked", "lost"} => \A i \in DOMAIN F : F[i] \in {"ack", "stream"})
  BY <1>1 DEF EventsFit
<1>5. pc = "over" => Len(E) # 1
  BY <1>1 DEF EventsFit
<1>6. pc = "over" => F # <<>> /\ F[Len(F)] = E[Len(E)]
  BY <1>1, <1>5
<1>7. EventsFit(F, pc)
  BY <1>2, <1>3, <1>4, <1>6 DEF EventsFit
<1> QED
  BY <1>7 DEF F

\* The events of the open question stay the same, or another question goes on.
LEMMA EventsKept ==
  ASSUME EventsInv, TurnTypes, turn'.n = turn.n, turn'.events = turn.events, served'[turn.n].pc = served[turn.n].pc
  PROVE  EventsInv'
BY DEF EventsInv, Open

\* The events keep to their order.
LEMMA EventsStep ==
  ASSUME TaskTypes, BackendTypes, TurnTypes, EventsInv, [Next]_vars
  PROVE  EventsInv'
<1>1. CASE UNCHANGED <<served, turn>>
  BY <1>1 DEF EventsInv, Open
<1>2. ASSUME NEW p \in Tasks, Deleted(p)
     PROVE  EventsInv'
  <2>1. turn'.n = turn.n /\ turn'.events = turn.events /\ served' = served
    BY <1>2 DEF Deleted, LetGo, TurnTypes, TurnRecord, backend
  <2> QED
    BY <2>1, EventsKept
<1>3. ASSUME NEW p \in Tasks, Loaded(p)
     PROVE  EventsInv'
  <2>1. turn'.n = turn.n /\ turn'.events = turn.events /\ served' = served
    BY <1>3 DEF Loaded, LetGo, TurnTypes, TurnRecord, backend
  <2> QED
    BY <2>1, EventsKept
<1>4. ASSUME NEW n \in Turns, ServeAck(n)
     PROVE  EventsInv'
  <2>1. CASE turn.n = n
    <3>1. Open /\ turn.events \in Seq(Events)
      BY <2>1, ChatStoreAssumption DEF Open, Turns, TurnTypes, TurnRecord
    <3>2. /\ turn'.n = n /\ turn'.events = turn.events \o <<"ack">>
          /\ served'[n].pc = "acked"
      BY <1>4, <2>1 DEF ServeAck, Emit, TurnTypes, TurnRecord, BackendTypes, ServedRecord
    <3> QED
      BY <1>4, <2>1, <3>1, <3>2, FitAck DEF ServeAck, EventsInv
  <2>2. CASE turn.n # n
    <3>1. turn' = turn /\ served'[turn.n] = served[turn.n]
      BY <1>4, <2>2 DEF ServeAck, Emit, BackendTypes
    <3> QED
      BY <3>1, EventsKept
  <2> QED
    BY <2>1, <2>2
<1>5. ASSUME NEW n \in Turns, ServeChunk(n)
     PROVE  EventsInv'
  <2>1. CASE turn.n = n
    <3>1. Open /\ turn.events \in Seq(Events)
      BY <2>1, ChatStoreAssumption DEF Open, Turns, TurnTypes, TurnRecord
    <3>2. /\ turn'.n = n /\ turn'.events = turn.events \o <<"stream">>
          /\ served'[n].pc = "acked" /\ served[n].pc = "acked"
      BY <1>5, <2>1 DEF ServeChunk, Emit, TurnTypes, TurnRecord, BackendTypes, ServedRecord
    <3> QED
      BY <1>5, <2>1, <3>1, <3>2, FitMore DEF ServeChunk, EventsInv
  <2>2. CASE turn.n # n
    <3>1. turn' = turn /\ served'[turn.n] = served[turn.n]
      BY <1>5, <2>2 DEF ServeChunk, Emit, BackendTypes
    <3> QED
      BY <3>1, EventsKept
  <2> QED
    BY <2>1, <2>2
<1>6. ASSUME NEW n \in Turns, ServeDone(n)
     PROVE  EventsInv'
  <2>0. PICK d \in {"titled", "done"} : Emit(n, <<d, "end">>)
    BY <1>6 DEF ServeDone
  <2>1. CASE turn.n = n
    <3>1. Open /\ turn.events \in Seq(Events)
      BY <2>1, ChatStoreAssumption DEF Open, Turns, TurnTypes, TurnRecord
    <3>2. /\ turn'.n = n /\ turn'.events = turn.events \o <<d, "end">>
          /\ served'[n].pc = "over"
      BY <1>6, <2>0, <2>1 DEF ServeDone, Emit, TurnTypes, TurnRecord, BackendTypes, ServedRecord
    <3> QED
      BY <1>6, <2>1, <3>1, <3>2, FitDone DEF ServeDone, EventsInv
  <2>2. CASE turn.n # n
    <3>1. turn' = turn /\ served'[turn.n] = served[turn.n]
      BY <1>6, <2>2 DEF ServeDone, Emit, BackendTypes
    <3> QED
      BY <3>1, EventsKept
  <2> QED
    BY <2>1, <2>2
<1>7. ASSUME NEW n \in Turns, ServeError(n)
     PROVE  EventsInv'
  <2>1. CASE turn.n = n
    <3>1. Open /\ turn.events \in Seq(Events)
      BY <2>1, ChatStoreAssumption DEF Open, Turns, TurnTypes, TurnRecord
    <3>2. /\ turn'.n = n /\ turn'.events = turn.events \o <<"error">>
          /\ served'[n].pc = "over"
      BY <1>7, <2>1 DEF ServeError, Emit, TurnTypes, TurnRecord, BackendTypes, ServedRecord
    <3> QED
      BY <1>7, <2>1, <3>1, <3>2, FitError DEF ServeError, EventsInv
  <2>2. CASE turn.n # n
    <3>1. turn' = turn /\ served'[turn.n] = served[turn.n]
      BY <1>7, <2>2 DEF ServeError, Emit, BackendTypes
    <3> QED
      BY <3>1, EventsKept
  <2> QED
    BY <2>1, <2>2
<1>8. ASSUME SendMessage
     PROVE  EventsInv'
  <2>1. CASE current = None
    BY <1>8, <1>1, <2>1 DEF SendMessage
  <2>2. CASE current # None
    <3>1. PICK n \in Turns : /\ served' = [served EXCEPT ![n] = [@ EXCEPT !.pc = "asked", !.s = current]]
                             /\ turn' = [NoTurn EXCEPT !.n = n, !.s = current, !.held = TRUE, !.out = files[current]]
      BY <1>8, <2>2 DEF SendMessage, BeginStream
    <3>2. turn'.n = n /\ turn'.events = <<>> /\ served'[n].pc = "asked"
      BY <3>1 DEF NoTurn, BackendTypes, ServedRecord
    <3>3. EventsFit(<<>>, "asked")
      BY DEF EventsFit
    <3> QED
      BY <3>2, <3>3 DEF EventsInv
  <2> QED
    BY <2>1, <2>2
<1>9. ASSUME SendLoaded
     PROVE  EventsInv'
  <2>1. PICK n \in Turns : /\ served' = [served EXCEPT ![n] = [@ EXCEPT !.pc = "asked", !.s = task["send"].s]]
                           /\ turn' = [NoTurn EXCEPT !.n = n, !.s = task["send"].s, !.held = TRUE, !.out = files[task["send"].s]]
    BY <1>9 DEF SendLoaded, BeginStream
  <2>2. turn'.n = n /\ turn'.events = <<>> /\ served'[n].pc = "asked"
    BY <2>1 DEF NoTurn, BackendTypes, ServedRecord
  <2>3. EventsFit(<<>>, "asked")
    BY DEF EventsFit
  <2> QED
    BY <2>2, <2>3 DEF EventsInv
<1>10. ASSUME OnAck
     PROVE  EventsInv'
  <2>1. /\ Open /\ turn.events # <<>> /\ Head(turn.events) \notin {"end", "error"}
        /\ turn.events \in Seq(Events)
    BY <1>10 DEF OnAck, Reads, TurnTypes, TurnRecord
  <2>2. turn'.n = turn.n /\ turn'.events = Tail(turn.events) /\ served' = served
    BY <1>10 DEF OnAck, Update, TurnTypes, TurnRecord, backend
  <2> QED
    BY <2>1, <2>2, FitTail DEF EventsInv, Open
<1>11. ASSUME OnStream
     PROVE  EventsInv'
  <2>1. /\ Open /\ turn.events # <<>> /\ Head(turn.events) \notin {"end", "error"}
        /\ turn.events \in Seq(Events)
    BY <1>11 DEF OnStream, Reads, TurnTypes, TurnRecord
  <2>2. turn'.n = turn.n /\ turn'.events = Tail(turn.events) /\ served' = served
    BY <1>11 DEF OnStream, Update, TurnTypes, TurnRecord, backend
  <2> QED
    BY <2>1, <2>2, FitTail DEF EventsInv, Open
<1>12. ASSUME OnDone
     PROVE  EventsInv'
  <2>1. /\ Open /\ turn.events # <<>> /\ Head(turn.events) \notin {"end", "error"}
        /\ turn.events \in Seq(Events)
    BY <1>12 DEF OnDone, Reads, TurnTypes, TurnRecord
  <2>2. turn'.n = turn.n /\ turn'.events = Tail(turn.events) /\ served' = served
    BY <1>12 DEF OnDone, Update, TurnTypes, TurnRecord, backend
  <2> QED
    BY <2>1, <2>2, FitTail DEF EventsInv, Open
<1>13. ASSUME OnError
     PROVE  EventsInv'
  BY <1>13 DEF OnError, Throws, Finally, NoTurn, EventsInv, Open
<1>14. ASSUME StreamEnd
     PROVE  EventsInv'
  BY <1>14 DEF StreamEnd, Throws, Finally, NoTurn, EventsInv, Open
<1>15. ASSUME StreamBreaks
     PROVE  EventsInv'
  BY <1>15 DEF StreamBreaks, Throws, Finally, NoTurn, EventsInv, Open
<1>16. ASSUME UploadLoaded
     PROVE  EventsInv'
  <2>1. turn'.n = turn.n /\ turn'.events = turn.events /\ served' = served
    BY <1>16 DEF UploadLoaded, LetGo, TurnTypes, TurnRecord, backend
  <2> QED
    BY <2>1, EventsKept
<1>17. ASSUME NEW p \in Tasks, StartLost(p) \/ ServeList(p) \/ ServeStart(p) \/ ServeLoad(p) \/
                               ServeDelete(p) \/ ServeUpload(p) \/ Started(p) \/
                               Listed(p) \/ TokensFetched(p) \/ CallFails(p)
     PROVE  EventsInv'
  BY <1>17, <1>1 DEF StartLost, ServeList, ServeStart, ServeLoad, ServeDelete, ServeUpload, Started,
                     Listed, TokensFetched, CallFails, backend, history
<1>18. ASSUME NEW p \in Clicks, CreateSession(p)
     PROVE  EventsInv'
  BY <1>18, <1>1 DEF CreateSession, backend, history
<1>19. ASSUME NEW p \in Clicks, NEW s \in Sessions, ResumeSession(p, s) \/
                                                    RemoveSession(p, s)
     PROVE  EventsInv'
  BY <1>19, <1>1 DEF ResumeSession, RemoveSession, backend, history
<1>20. ASSUME UploadFiles \/ Uploaded
     PROVE  EventsInv'
  BY <1>20, <1>1 DEF UploadFiles, Uploaded, backend, history
<1>21. ASSUME NEW f \in Files, RemoveAttachment(f)
     PROVE  EventsInv'
  BY <1>21, <1>1 DEF RemoveAttachment, backend, history
<1>22. CASE UNCHANGED vars
  BY <1>22, <1>1 DEF vars, backend, history
<1>lost. ASSUME NEW n \in Turns, ServeLost(n)
     PROVE  EventsInv'
  <2>1. CASE turn.n = n
    <3>1. Open
      BY <2>1, ChatStoreAssumption DEF Open, Turns
    <3>2. EventsFit(turn.events, "acked") /\ turn' = turn /\ served'[n].pc = "lost"
      BY <1>lost, <2>1, <3>1 DEF ServeLost, EventsInv, BackendTypes, ServedRecord
    <3> QED
      BY <2>1, <3>2 DEF EventsInv, EventsFit
  <2>2. CASE turn.n # n
    <3>1. turn' = turn /\ served'[turn.n] = served[turn.n]
      BY <1>lost, <2>2 DEF ServeLost, BackendTypes
    <3> QED
      BY <3>1, EventsKept
  <2> QED
    BY <2>1, <2>2
<1> QED
  BY <1>lost, <1>1, <1>2, <1>3, <1>4, <1>5, <1>6, <1>7, <1>8, <1>9, <1>10, <1>11, <1>12, <1>13,
     <1>14, <1>15, <1>16, <1>17, <1>18, <1>19, <1>20, <1>21, <1>22 DEF Next, Answer, ServeQuestion, ReadStream

-----------------------------------------------------------------------------
(* No list shows a message twice. *)

\* No message twice, and no draft beside the answer it became.
Once(list) ==
  /\ Distinct(list)
  /\ \A i, j \in DOMAIN list :
       list[i][1] = list[j][1] /\ list[i][1] # 0 => ~(list[i][2] = "temp" /\ list[j][2] = "ai")

\* Only questions that have been asked.
Asked(list, sv) == \A i \in DOMAIN list : list[i][1] # 0 => sv[list[i][1]].pc # "none"

\* The questions and answers the backend has stored, each once.
Clean(list, sv) ==
  /\ Distinct(list)
  /\ \A i \in DOMAIN list :
       /\ list[i][2] # "temp"
       /\ list[i][1] # 0 => sv[list[i][1]].pc \in {"acked", "over", "lost"}
       /\ list[i][1] # 0 /\ list[i][2] = "ai" => sv[list[i][1]].pc = "over"

StoredClean == \A s \in Sessions : Clean(stored[s], served)

GotClean == \A p \in Tasks : At(p, "loaded") => Once(task[p].got) /\ Asked(task[p].got, served)

ShownClean == \A s \in Sessions : shown[s] # None => Once(shown[s]) /\ Asked(shown[s], served)

\* The messages of question n in the list L its send holds, k the index of its
\* draft and E the events still to read: the question is not there before its
\* acknowledgement is read, and there is one draft or answer, where k points.
HeldFits(L, k, E, pc, n) ==
  /\ \A i \in DOMAIN L : L[i] = <<n, "user">> => pc # "asked" /\ \A j \in DOMAIN E : E[j] # "ack"
  /\ k = 0 => \A i \in DOMAIN L :
       /\ L[i] # <<n, "temp">>
       /\ L[i] = <<n, "ai">> => pc = "over" /\ \A j \in DOMAIN E : E[j] = "end"
  /\ k # 0 =>
       /\ k \in DOMAIN L
       /\ L[k] \in {<<n, "temp">>, <<n, "ai">>}
       /\ \A i \in DOMAIN L : L[i] \in {<<n, "temp">>, <<n, "ai">>} => i = k

HeldInv ==
  turn.held => HeldFits(shown[turn.s], turn.temp, turn.events, served[turn.n].pc, turn.n)

ListInv == EventsInv /\ StoredClean /\ GotClean /\ ShownClean /\ HeldInv

LEMMA NoteFacts ==
  ASSUME NEW list \in Seq(Notes), NEW i \in DOMAIN list
  PROVE  /\ list[i] \in Notes /\ list[i][1] \in 0..MaxTurns /\ list[i][2] \in Roles
         /\ list[i] = <<list[i][1], list[i][2]>>
         /\ list[i][1] # 0 => list[i][1] \in Turns
<1>1. list[i] \in Notes
  OBVIOUS
<1> QED
  BY <1>1, ChatStoreAssumption DEF Notes, Turns

LEMMA CleanIsOnce ==
  ASSUME NEW list, NEW sv, Clean(list, sv)
  PROVE  Once(list) /\ Asked(list, sv)
BY DEF Clean, Once, Asked

LEMMA NothingIsOnce == Once(<<>>) /\ \A sv : Asked(<<>>, sv) /\ Clean(<<>>, sv)
BY EmptyFacts DEF Once, Asked, Clean

\* The lists stay what they are while the backend goes forward.
LEMMA AskedForward ==
  ASSUME Forward, NEW list \in Seq(Notes)
  PROVE  /\ Asked(list, served) => Asked(list, served')
         /\ Clean(list, served) => Clean(list, served')
<1>1. \A i \in DOMAIN list : list[i][1] # 0 => list[i][1] \in Turns
  BY NoteFacts
<1> QED
  BY <1>1 DEF Asked, Clean, Forward

\* One message more.
LEMMA OnceAppend ==
  ASSUME NEW list \in Seq(Notes), Once(list), NEW n \in Turns, NEW r \in Roles,
         \A i \in DOMAIN list : /\ list[i] # <<n, r>>
                                /\ r = "temp" => list[i] # <<n, "ai">>
                                /\ r = "ai" => list[i] # <<n, "temp">>
  PROVE  Once(Append(list, <<n, r>>))
<1> DEFINE L == Append(list, <<n, r>>)
<1>1. /\ Len(list) \in Nat /\ DOMAIN list = 1..Len(list) /\ DOMAIN L = 1..(Len(list) + 1)
      /\ L[Len(list) + 1] = <<n, r>> /\ \A i \in DOMAIN list : L[i] = list[i]
  BY AppendNote
<1> HIDE DEF L
<1>2. \A i \in DOMAIN list : list[i] = <<list[i][1], list[i][2]>>
  BY NoteFacts
<1>3. \A i \in DOMAIN L : i \in DOMAIN list \/ i = Len(list) + 1
  BY <1>1
<1>4. Distinct(L)
  BY <1>1, <1>3 DEF Once, Distinct
<1>5. ASSUME NEW i \in DOMAIN L, NEW j \in DOMAIN L, L[i][1] = L[j][1], L[i][1] # 0,
             L[i][2] = "temp", L[j][2] = "ai"
      PROVE  FALSE
  <2>1. CASE i \in DOMAIN list /\ j \in DOMAIN list
    BY <1>1, <1>5, <2>1 DEF Once
  <2>2. CASE i \in DOMAIN list /\ j = Len(list) + 1
    BY <1>1, <1>2, <1>5, <2>2
  <2>3. CASE i = Len(list) + 1 /\ j \in DOMAIN list
    BY <1>1, <1>2, <1>5, <2>3
  <2>4. CASE i = Len(list) + 1 /\ j = Len(list) + 1
    BY <1>1, <1>5, <2>4
  <2> QED
    BY <1>3, <2>1, <2>2, <2>3, <2>4
<1>6. Once(L)
  BY <1>4, <1>5 DEF Once
<1> QED
  BY <1>6 DEF L

\* The draft becomes the answer.
LEMMA OnceReplace ==
  ASSUME NEW list \in Seq(Notes), Once(list), NEW n \in Turns, NEW k \in DOMAIN list,
         \A i \in DOMAIN list : list[i] \in {<<n, "temp">>, <<n, "ai">>} => i = k
  PROVE  Once(Replaced(list, k, <<n, "ai">>))
<1> DEFINE L == Replaced(list, k, <<n, "ai">>)
<1>1. DOMAIN L = DOMAIN list /\ \A i \in DOMAIN list : L[i] = IF i = k THEN <<n, "ai">> ELSE list[i]
  BY DEF Replaced
<1> HIDE DEF L
<1>2. \A i \in DOMAIN list : list[i] = <<list[i][1], list[i][2]>>
  BY NoteFacts
<1>3. Distinct(L)
  BY <1>1 DEF Once, Distinct
<1>4. ASSUME NEW i \in DOMAIN L, NEW j \in DOMAIN L, L[i][1] = L[j][1], L[i][1] # 0,
             L[i][2] = "temp", L[j][2] = "ai"
      PROVE  FALSE
  <2>1. i # k /\ L[i] = list[i]
    BY <1>1, <1>4
  <2>2. CASE j = k
    BY <1>1, <1>2, <1>4, <2>1, <2>2
  <2>3. CASE j # k
    BY <1>1, <1>4, <2>1, <2>3 DEF Once
  <2> QED
    BY <2>2, <2>3
<1>5. Once(L)
  BY <1>3, <1>4 DEF Once
<1> QED
  BY <1>5 DEF L

LEMMA AskedChanges ==
  ASSUME NEW list \in Seq(Notes), NEW n \in Turns, NEW r \in Roles, NEW k,
         Asked(list, served), served[n].pc # "none"
  PROVE  /\ Asked(Append(list, <<n, r>>), served)
         /\ Asked(Replaced(list, k, <<n, r>>), served)
<1>1. Asked(Append(list, <<n, r>>), served)
  <2> DEFINE L == Append(list, <<n, r>>)
  <2>1. /\ \A i \in DOMAIN L : i \in DOMAIN list \/ i = Len(list) + 1
        /\ L[Len(list) + 1] = <<n, r>> /\ \A i \in DOMAIN list : L[i] = list[i]
    BY AppendNote
  <2> HIDE DEF L
  <2>2. Asked(L, served)
    BY <2>1 DEF Asked
  <2> QED
    BY <2>2 DEF L
<1>2. Asked(Replaced(list, k, <<n, r>>), served)
  BY DEF Replaced, Asked
<1> QED
  BY <1>1, <1>2

\* The backend stores a message it has not stored before.
LEMMA CleanAppend ==
  ASSUME NEW list \in Seq(Notes), NEW sv, Clean(list, sv), NEW n \in Turns, NEW r \in {"user", "ai"},
         \A i \in DOMAIN list : list[i] # <<n, r>>,
         sv[n].pc \in {"acked", "over", "lost"}, r = "ai" => sv[n].pc = "over"
  PROVE  Clean(Append(list, <<n, r>>), sv)
<1> DEFINE L == Append(list, <<n, r>>)
<1>1. /\ Len(list) \in Nat /\ DOMAIN list = 1..Len(list) /\ DOMAIN L = 1..(Len(list) + 1)
      /\ L[Len(list) + 1] = <<n, r>> /\ \A i \in DOMAIN list : L[i] = list[i]
  BY AppendNote DEF Roles
<1> HIDE DEF L
<1>2. \A i \in DOMAIN L : i \in DOMAIN list \/ i = Len(list) + 1
  BY <1>1
<1>3. Distinct(L)
  BY <1>1, <1>2 DEF Clean, Distinct
<1>4. Clean(L, sv)
  BY <1>1, <1>2, <1>3 DEF Clean
<1> QED
  BY <1>4 DEF L

\* A load ends with the list the backend answered with.
LoadedStays ==
  \A p \in Tasks : task'[p].pc = "loaded" =>
    \/ At(p, "loaded") /\ task'[p].got = task[p].got /\ task'[p].s = task[p].s
    \/ /\ ServeLoad(p) /\ ~At(p, "loaded") /\ task[p].s \in Sessions
       /\ task'[p].got = stored[task[p].s] /\ task'[p].s = task[p].s

LEMMA LoadedElsewhere ==
  ASSUME TaskTypes, NEW p \in Tasks, NEW t, t.pc # "loaded", task' = [task EXCEPT ![p] = t]
  PROVE  LoadedStays
<1>1. task'[p] = t /\ \A q \in Tasks : q # p => task'[q] = task[q]
  BY DEF TaskTypes
<1> QED
  BY <1>1 DEF LoadedStays, At

LEMMA LoadedMoves ==
  ASSUME TaskTypes, NEW p \in Tasks, NEW s
  PROVE  /\ End(p) => LoadedStays
         /\ LoadMessages(p, s) => LoadedStays
         /\ BeginUpload(s) => LoadedStays
         /\ \A op, pc : Run(p, op, pc, s) /\ pc # "loaded" => LoadedStays
<1>1. End(p) => LoadedStays
  <2>1. NoTask.pc # "loaded"
    BY DEF NoTask
  <2> QED
    BY <2>1, LoadedElsewhere DEF End
<1>2. ASSUME LoadMessages(p, s) PROVE LoadedStays
  <2> DEFINE t == [task[p] EXCEPT !.pc = "load", !.s = s]
  <2>1. t.pc # "loaded" /\ task' = [task EXCEPT ![p] = t]
    BY <1>2, TaskFacts DEF LoadMessages, TaskRecord
  <2> HIDE DEF t
  <2> QED
    BY <2>1, LoadedElsewhere
<1>3. ASSUME BeginUpload(s) PROVE LoadedStays
  <2> DEFINE t == [NoTask EXCEPT !.op = "upload", !.pc = "upload", !.s = s, !.copy = files[s]]
  <2>1. t.pc # "loaded" /\ task' = [task EXCEPT !["upload"] = t]
    BY <1>3 DEF BeginUpload, NoTask
  <2> HIDE DEF t
  <2> QED
    BY <2>1, TasksAre, LoadedElsewhere
<1>4. ASSUME NEW op, NEW pc, Run(p, op, pc, s), pc # "loaded" PROVE LoadedStays
  <2> DEFINE t == [NoTask EXCEPT !.op = op, !.pc = pc, !.s = s]
  <2>1. t.pc # "loaded" /\ task' = [task EXCEPT ![p] = t]
    BY <1>4 DEF Run, NoTask
  <2> HIDE DEF t
  <2> QED
    BY <2>1, LoadedElsewhere
<1> QED
  BY <1>1, <1>2, <1>3, <1>4

\* What a load brings stays until it is shown.
LEMMA LoadedStep ==
  ASSUME TaskTypes, [Next]_vars
  PROVE  LoadedStays
<1>1. CASE UNCHANGED <<task>>
  BY <1>1 DEF LoadedStays, At
<1>2. ASSUME NEW p \in Tasks, ServeList(p)
     PROVE  LoadedStays
  BY <1>2, TasksAre DEF ServeList, LoadedStays, At, TaskTypes, TaskRecord
<1>3. ASSUME NEW p \in Tasks, ServeStart(p)
     PROVE  LoadedStays
  BY <1>3, TasksAre DEF ServeStart, LoadedStays, At, TaskTypes, TaskRecord
<1>4. ASSUME NEW p \in Tasks, ServeLoad(p)
     PROVE  LoadedStays
  <2>1. task[p].s \in Sessions
    BY <1>4, HomeOfTask DEF ServeLoad, Here
  <2> QED
    BY <1>4, <2>1, TaskFacts DEF ServeLoad, LoadedStays, At, TaskTypes, TaskRecord
<1>5. ASSUME NEW p \in Tasks, ServeDelete(p)
     PROVE  LoadedStays
  BY <1>5, TasksAre DEF ServeDelete, LoadedStays, At, TaskTypes, TaskRecord
<1>6. ASSUME NEW p \in Tasks, ServeUpload(p)
     PROVE  LoadedStays
  BY <1>6, TasksAre DEF ServeUpload, LoadedStays, At, TaskTypes, TaskRecord
<1>7. ASSUME NEW p \in Tasks, Started(p)
     PROVE  LoadedStays
  BY <1>7, LoadedMoves DEF Started
<1>8. ASSUME NEW p \in Tasks, Listed(p)
     PROVE  LoadedStays
  <2>1. CASE task[p].got = <<>>
    BY <1>8, <2>1, TasksAre DEF Listed, LoadedStays, At, TaskTypes, TaskRecord
  <2>2. CASE task[p].got # <<>>
    BY <1>8, <2>2, LoadedMoves DEF Listed
  <2> QED
    BY <2>1, <2>2
<1>9. ASSUME NEW p \in Tasks, Deleted(p)
     PROVE  LoadedStays
  <2>1. End(p) \/ \E s : LoadMessages(p, s)
    BY <1>9 DEF Deleted
  <2> QED
    BY <2>1, LoadedMoves
<1>10. ASSUME NEW p \in Tasks, Loaded(p)
     PROVE  LoadedStays
  <2>1. CASE task[p].op = "list"
    BY <1>10, <2>1, TasksAre DEF Loaded, LoadedStays, At, TaskTypes, TaskRecord
  <2>2. CASE task[p].op # "list"
    BY <1>10, <2>2, LoadedMoves DEF Loaded
  <2> QED
    BY <2>1, <2>2
<1>11. ASSUME NEW p \in Tasks, TokensFetched(p)
     PROVE  LoadedStays
  BY <1>11, LoadedMoves DEF TokensFetched
<1>12. ASSUME NEW p \in Tasks, CallFails(p)
     PROVE  LoadedStays
  BY <1>12, LoadedMoves DEF CallFails
<1>13. ASSUME NEW p \in Clicks, CreateSession(p)
     PROVE  LoadedStays
  BY <1>13, TasksAre, LoadedMoves DEF CreateSession
<1>14. ASSUME NEW p \in Clicks, NEW s \in Sessions, ResumeSession(p, s)
     PROVE  LoadedStays
  BY <1>14, TasksAre, LoadedMoves DEF ResumeSession
<1>15. ASSUME NEW p \in Clicks, NEW s \in Sessions, RemoveSession(p, s)
     PROVE  LoadedStays
  BY <1>15, TasksAre, LoadedMoves DEF RemoveSession
<1>16. ASSUME SendMessage
     PROVE  LoadedStays
  <2>1. task' = task \/ Run("send", "send", "start", None)
    BY <1>16 DEF SendMessage
  <2> QED
    BY <2>1, <1>1, TasksAre, LoadedMoves
<1>17. ASSUME SendLoaded
     PROVE  LoadedStays
  BY <1>17, TasksAre, LoadedMoves DEF SendLoaded
<1>18. ASSUME UploadFiles
     PROVE  LoadedStays
  <2>1. Run("upload", "upload", "start", None) \/ BeginUpload(current)
    BY <1>18 DEF UploadFiles
  <2> QED
    BY <2>1, TasksAre, LoadedMoves
<1>19. ASSUME UploadLoaded
     PROVE  LoadedStays
  BY <1>19, TasksAre, LoadedMoves DEF UploadLoaded
<1>20. ASSUME Uploaded
     PROVE  LoadedStays
  <2>1. CASE End("upload")
    BY <2>1, TasksAre, LoadedMoves
  <2>2. ASSUME NEW copy, NEW new,
               task' = [task EXCEPT !["upload"] = [task["upload"] EXCEPT
                 !.pc = "upload", !.got = <<>>, !.copy = copy, !.new = new]]
        PROVE  LoadedStays
    <3> DEFINE t == [task["upload"] EXCEPT !.pc = "upload", !.got = <<>>, !.copy = copy, !.new = new]
    <3>1. t.pc # "loaded" /\ task' = [task EXCEPT !["upload"] = t]
      BY <2>2, TasksAre, TaskFacts DEF TaskRecord
    <3> HIDE DEF t
    <3> QED
      BY <3>1, TasksAre, LoadedElsewhere
  <2> QED
    BY <1>20, <2>1, <2>2 DEF Uploaded
<1>21. ASSUME NEW n \in Turns, ServeAck(n) \/ ServeChunk(n) \/ ServeDone(n) \/ ServeError(n) \/ ServeLost(n)
     PROVE  LoadedStays
  BY <1>21, <1>1 DEF ServeAck, ServeChunk, ServeDone, ServeError, ServeLost, backend, history
<1>22. ASSUME OnAck \/ OnStream \/ OnDone \/ OnError \/ StreamEnd \/ StreamBreaks
     PROVE  LoadedStays
  BY <1>22, <1>1 DEF OnAck, OnStream, OnDone, OnError, StreamEnd, StreamBreaks, Throws,
                     backend, history
<1>23. ASSUME NEW f \in Files, RemoveAttachment(f)
     PROVE  LoadedStays
  BY <1>23, <1>1 DEF RemoveAttachment, backend, history
<1>24. CASE UNCHANGED vars
  BY <1>24, <1>1 DEF vars, backend, history
<1>start. ASSUME NEW p \in Tasks, StartLost(p)
     PROVE  LoadedStays
  BY <1>start, TasksAre DEF StartLost, LoadedStays, At, TaskTypes, TaskRecord
<1> QED
  BY <1>start, <1>1, <1>2, <1>3, <1>4, <1>5, <1>6, <1>7, <1>8, <1>9, <1>10, <1>11, <1>12, <1>13,
     <1>14, <1>15, <1>16, <1>17, <1>18, <1>19, <1>20, <1>21, <1>22, <1>23, <1>24 DEF Next, Answer, ServeQuestion, ReadStream

\* The loads that come to an end bring clean lists.
LEMMA GotStep ==
  ASSUME Base, Forward, StoredClean, GotClean, [Next]_vars
  PROVE  GotClean'
<1>1. LoadedStays /\ Base'
  BY LoadedStep, BaseStep DEF Base
<1> SUFFICES ASSUME NEW p \in Tasks, task'[p].pc = "loaded"
             PROVE  Once(task'[p].got) /\ Asked(task'[p].got, served')
  BY DEF GotClean, At
<1>2. CASE At(p, "loaded") /\ task'[p].got = task[p].got
  <2>1. task[p].got \in Seq(Notes)
    BY <1>2, TaskFacts DEF Base, Fits, At
  <2> QED
    BY <1>2, <2>1, AskedForward DEF GotClean
<1>3. CASE task[p].s \in Sessions /\ task'[p].got = stored[task[p].s]
  <2>1. stored[task[p].s] \in Seq(Notes) /\ Clean(stored[task[p].s], served)
    BY <1>3 DEF Base, BackendTypes, StoredClean
  <2> QED
    BY <1>3, <2>1, CleanIsOnce, AskedForward
<1> QED
  BY <1>1, <1>2, <1>3 DEF LoadedStays

\* The backend stores a question once, and one answer to it.
LEMMA StoredStep ==
  ASSUME BackendTypes, Forward, StoredClean, [Next]_vars
  PROVE  StoredClean'
<1>1. CASE UNCHANGED <<stored>>
  <2>1. \A s \in Sessions : Clean(stored[s], served')
    BY AskedForward DEF StoredClean, BackendTypes
  <2> QED
    BY <1>1, <2>1 DEF StoredClean
<1>2. ASSUME NEW n \in Turns, ServeAck(n)
     PROVE  StoredClean'
  <2> DEFINE s == served[n].s
             L == Append(stored[s], <<n, "user">>)
  <2>1. /\ s \in Sessions /\ stored[s] \in Seq(Notes) /\ stored' = [stored EXCEPT ![s] = L]
        /\ served[n].pc = "asked" /\ served'[n].pc = "acked"
    BY <1>2 DEF ServeAck, BackendTypes, ServedRecord, Known
  <2>2. \A t \in Sessions : Clean(stored[t], served) /\ stored[t] \in Seq(Notes)
    BY DEF StoredClean, BackendTypes
  <2>3. \A t \in Sessions : Clean(stored[t], served')
    BY <2>2, AskedForward
  <2>4. \A i \in DOMAIN stored[s] : stored[s][i] # <<n, "user">>
    <3>1. ASSUME NEW i \in DOMAIN stored[s], stored[s][i] = <<n, "user">> PROVE FALSE
      <4>1. n # 0 /\ Clean(stored[s], served)
        BY <2>1, <2>2, NotesAre DEF Roles
      <4> QED
        BY <2>1, <3>1, <4>1 DEF Clean
    <3> QED
      BY <3>1
  <2>5. Clean(L, served')
    BY <2>1, <2>3, <2>4, CleanAppend
  <2> HIDE DEF L
  <2>6. \A t \in Sessions : Clean(stored'[t], served')
    BY <2>1, <2>3, <2>5 DEF BackendTypes
  <2> QED
    BY <2>6 DEF StoredClean
<1>3. ASSUME NEW n \in Turns, ServeDone(n)
     PROVE  StoredClean'
  <2> DEFINE s == served[n].s
             L == Append(stored[s], <<n, "ai">>)
  <2>1. /\ s \in Sessions /\ stored[s] \in Seq(Notes) /\ stored' = [stored EXCEPT ![s] = L]
        /\ served[n].pc = "acked" /\ served'[n].pc = "over"
    BY <1>3 DEF ServeDone, BackendTypes, ServedRecord, Known
  <2>2. \A t \in Sessions : Clean(stored[t], served) /\ stored[t] \in Seq(Notes)
    BY DEF StoredClean, BackendTypes
  <2>3. \A t \in Sessions : Clean(stored[t], served')
    BY <2>2, AskedForward
  <2>4. \A i \in DOMAIN stored[s] : stored[s][i] # <<n, "ai">>
    <3>1. ASSUME NEW i \in DOMAIN stored[s], stored[s][i] = <<n, "ai">> PROVE FALSE
      <4>1. n # 0 /\ Clean(stored[s], served)
        BY <2>1, <2>2, NotesAre DEF Roles
      <4> QED
        BY <2>1, <3>1, <4>1 DEF Clean
    <3> QED
      BY <3>1
  <2>5. Clean(L, served')
    BY <2>1, <2>3, <2>4, CleanAppend
  <2> HIDE DEF L
  <2>6. \A t \in Sessions : Clean(stored'[t], served')
    BY <2>1, <2>3, <2>5 DEF BackendTypes
  <2> QED
    BY <2>6 DEF StoredClean
<1>4. ASSUME NEW p \in Tasks, StartLost(p) \/ ServeList(p) \/ ServeStart(p) \/ ServeLoad(p) \/
                              ServeDelete(p) \/ ServeUpload(p) \/ Started(p) \/ Listed(p) \/
                              Deleted(p) \/ Loaded(p) \/ TokensFetched(p) \/ CallFails(p)
     PROVE  StoredClean'
  BY <1>4, <1>1 DEF StartLost, ServeList, ServeStart, ServeLoad, ServeDelete, ServeUpload, Started,
                    Listed, Deleted, Loaded, TokensFetched, CallFails, backend, history
<1>5. ASSUME NEW n \in Turns, ServeChunk(n) \/ ServeError(n) \/ ServeLost(n)
     PROVE  StoredClean'
  BY <1>5, <1>1 DEF ServeChunk, ServeError, ServeLost, backend, history
<1>6. ASSUME NEW p \in Clicks, CreateSession(p)
     PROVE  StoredClean'
  BY <1>6, <1>1 DEF CreateSession, backend, history
<1>7. ASSUME NEW p \in Clicks, NEW s \in Sessions, ResumeSession(p, s) \/
                                                   RemoveSession(p, s)
     PROVE  StoredClean'
  BY <1>7, <1>1 DEF ResumeSession, RemoveSession, backend, history
<1>8. ASSUME SendMessage \/ SendLoaded \/ OnAck \/ OnStream \/ OnDone \/ OnError \/
             StreamEnd \/ StreamBreaks \/ UploadFiles \/ UploadLoaded \/ Uploaded
     PROVE  StoredClean'
  BY <1>8, <1>1 DEF SendMessage, SendLoaded, OnAck, OnStream, OnDone, OnError, StreamEnd,
                    StreamBreaks, UploadFiles, UploadLoaded, Uploaded, Throws, backend,
                    history
<1>9. ASSUME NEW f \in Files, RemoveAttachment(f)
     PROVE  StoredClean'
  BY <1>9, <1>1 DEF RemoveAttachment, backend, history
<1>10. CASE UNCHANGED vars
  BY <1>10, <1>1 DEF vars, backend, history
<1> QED
  BY <1>1, <1>2, <1>3, <1>4, <1>5, <1>6, <1>7, <1>8, <1>9, <1>10
     DEF Next, Answer, ServeQuestion, ReadStream

LEMMA ShownCleanMoves ==
  ASSUME ShownTypes, Forward, ShownClean, NEW s \in Sessions, NEW l \in Seq(Notes) \cup {None},
         l # None => Once(l) /\ (Asked(l, served) \/ Asked(l, served')),
         shown' = [shown EXCEPT ![s] = l]
  PROVE  ShownClean'
<1> SUFFICES ASSUME NEW t \in Sessions, shown'[t] # None
             PROVE  Once(shown'[t]) /\ Asked(shown'[t], served')
  BY DEF ShownClean
<1>1. CASE t = s
  <2>1. shown'[t] = l /\ l \in Seq(Notes)
    BY <1>1 DEF ShownTypes
  <2> QED
    BY <2>1, AskedForward
<1>2. CASE t # s
  <2>1. shown'[t] = shown[t] /\ shown[t] \in Seq(Notes)
    BY <1>2 DEF ShownTypes
  <2> QED
    BY <2>1, AskedForward DEF ShownClean
<1> QED
  BY <1>1, <1>2

\* A callback writes to the list its send holds.
LEMMA ShownCleanUpdate ==
  ASSUME TurnTypes, ShownTypes, HeldTypes, Forward, ShownClean, NEW list \in Seq(Notes),
         turn.held => Once(list) /\ Asked(list, served),
         shown' = IF turn.held THEN [shown EXCEPT ![turn.s] = list] ELSE shown
  PROVE  ShownClean'
<1>1. CASE turn.held
  BY <1>1, HeldFacts, ShownCleanMoves
<1>2. CASE ~turn.held
  <2>1. \A t \in Sessions : shown[t] # None => shown[t] \in Seq(Notes)
    BY DEF ShownTypes
  <2> QED
    BY <1>2, <2>1, AskedForward DEF ShownClean
<1> QED
  BY <1>1, <1>2

\* The list a callback writes to.
LEMMA HeldList ==
  ASSUME Base, ListInv, Open
  PROVE  /\ Messages \in Seq(Notes) /\ turn.n \in Turns /\ served[turn.n].pc # "none"
         /\ turn.held => /\ Once(Messages) /\ Asked(Messages, served)
                         /\ HeldFits(Messages, turn.temp, turn.events, served[turn.n].pc, turn.n)
<1>1. Messages \in Seq(Notes) /\ turn.n \in Turns /\ served[turn.n].pc # "none"
  BY MessagesType, OpenFacts DEF Base, TurnTypes
<1>2. CASE turn.held
  <2>1. Messages = shown[turn.s] /\ turn.s \in Sessions /\ shown[turn.s] # None
    BY <1>2, HeldFacts DEF Base, HeldTypes
  <2> QED
    BY <1>1, <1>2, <2>1 DEF ListInv, ShownClean, HeldInv
<1> QED
  BY <1>1, <1>2

\* Nothing written to a list is there already.
LEMMA ShownCleanStep ==
  ASSUME Base, Forward, ListInv, [Next]_vars
  PROVE  ShownClean'
<1>1. CASE UNCHANGED <<shown>>
  <2>1. \A t \in Sessions : shown[t] # None => shown[t] \in Seq(Notes)
    BY DEF Base, ShownTypes
  <2> QED
    BY <1>1, <2>1, AskedForward DEF ListInv, ShownClean
<1>2. ASSUME NEW p \in Tasks, Deleted(p)
     PROVE  ShownClean'
  <2>1. task[p].s \in Sessions
    BY <1>2, TaskFacts DEF Deleted, Base, At, Fits, Known
  <2> QED
    BY <1>2, <2>1, ShownCleanMoves DEF Deleted, Base, ListInv
<1>3. ASSUME NEW p \in Tasks, Loaded(p)
     PROVE  ShownClean'
  <2>1. /\ task[p].s \in Sessions /\ task[p].got \in Seq(Notes)
        /\ Once(task[p].got) /\ Asked(task[p].got, served)
    BY <1>3, TasksAre, TaskFacts DEF Loaded, Base, At, Fits, Known, ListInv, GotClean
  <2> QED
    BY <1>3, <2>1, ShownCleanMoves DEF Loaded, Base, ListInv
<1>4. ASSUME SendMessage
     PROVE  ShownClean'
  <2>1. CASE current = None
    BY <1>4, <1>1, <2>1 DEF SendMessage
  <2>2. CASE current # None
    <3>1. /\ current \in Sessions /\ EnsureMessageList(current) \in Seq(Notes)
          /\ Once(EnsureMessageList(current)) /\ Asked(EnsureMessageList(current), served)
      BY <2>2, EnsuredList, NothingIsOnce
         DEF Base, BarTypes, Known, EnsureMessageList, ListInv, ShownClean
    <3> QED
      BY <1>4, <2>2, <3>1, ShownCleanMoves DEF SendMessage, BeginStream, Base, ListInv
  <2> QED
    BY <2>1, <2>2
<1>5. ASSUME SendLoaded
     PROVE  ShownClean'
  <2>1. /\ task["send"].s \in Sessions /\ task["send"].got \in Seq(Notes)
        /\ Once(task["send"].got) /\ Asked(task["send"].got, served)
    BY <1>5, TasksAre, TaskFacts DEF SendLoaded, Base, At, Fits, Known, ListInv, GotClean
  <2> QED
    BY <1>5, <2>1, ShownCleanMoves DEF SendLoaded, Base, ListInv, BeginStream
<1>6. ASSUME OnAck
     PROVE  ShownClean'
  <2>0. Open
    BY <1>6 DEF OnAck, Reads
  <2> DEFINE list == Append(Messages, <<turn.n, "user">>)
  <2>1. list \in Seq(Notes) /\ (turn.held => Once(list) /\ Asked(list, served))
    <3>0. turn.events \in Seq(Events) /\ turn.events # <<>> /\ 1 \in DOMAIN turn.events
          /\ turn.events[1] = Head(turn.events)
      BY <1>6, OneFewer DEF OnAck, Reads, Base, TurnTypes, TurnRecord
    <3>1. Head(turn.events) = "ack"
      BY <1>6 DEF OnAck, Reads
    <3>2. turn.held => \A i \in DOMAIN Messages : Messages[i] # <<turn.n, "user">>
      BY <2>0, <3>0, <3>1, HeldList DEF HeldFits
    <3> QED
      BY <2>0, <3>2, HeldList, AppendNote, OnceAppend, AskedChanges DEF Roles
  <2>2. shown' = IF turn.held THEN [shown EXCEPT ![turn.s] = list] ELSE shown
    BY <1>6 DEF OnAck, Update
  <2> HIDE DEF list
  <2> QED
    BY <2>1, <2>2, ShownCleanUpdate DEF Base, ListInv
<1>7. ASSUME OnStream
     PROVE  ShownClean'
  <2>0. Open
    BY <1>7 DEF OnStream, Reads
  <2> DEFINE list == IF turn.temp = 0 THEN Append(Messages, <<turn.n, "temp">>) ELSE Messages
  <2>1. list \in Seq(Notes) /\ (turn.held => Once(list) /\ Asked(list, served))
    <3>0. turn.events \in Seq(Events) /\ turn.events # <<>> /\ 1 \in DOMAIN turn.events
          /\ turn.events[1] = Head(turn.events)
      BY <1>7, OneFewer DEF OnStream, Reads, Base, TurnTypes, TurnRecord
    <3>1. Head(turn.events) = "stream"
      BY <1>7 DEF OnStream, Reads
    <3>2. turn.held /\ turn.temp = 0 =>
            \A i \in DOMAIN Messages : Messages[i] # <<turn.n, "temp">> /\ Messages[i] # <<turn.n, "ai">>
      BY <2>0, <3>0, <3>1, HeldList DEF HeldFits
    <3> QED
      BY <2>0, <3>2, HeldList, AppendNote, OnceAppend, AskedChanges DEF Roles
  <2>2. shown' = IF turn.held THEN [shown EXCEPT ![turn.s] = list] ELSE shown
    BY <1>7 DEF OnStream, Update
  <2> HIDE DEF list
  <2> QED
    BY <2>1, <2>2, ShownCleanUpdate DEF Base, ListInv
<1>8. ASSUME OnDone
     PROVE  ShownClean'
  <2>0. Open
    BY <1>8 DEF OnDone, Reads
  <2> DEFINE list == IF turn.temp = 0 THEN Append(Messages, <<turn.n, "ai">>)
                 ELSE Replaced(Messages, turn.temp, <<turn.n, "ai">>)
  <2>1. list \in Seq(Notes) /\ (turn.held => Once(list) /\ Asked(list, served))
    <3>0. turn.events \in Seq(Events) /\ turn.events # <<>> /\ 1 \in DOMAIN turn.events
          /\ turn.events[1] = Head(turn.events)
      BY <1>8, OneFewer DEF OnDone, Reads, Base, TurnTypes, TurnRecord
    <3>1. Head(turn.events) \in {"done", "titled"}
      BY <1>8 DEF OnDone, Reads
    <3>2. CASE turn.temp = 0
      <4>1. turn.held =>
              \A i \in DOMAIN Messages : Messages[i] # <<turn.n, "temp">> /\ Messages[i] # <<turn.n, "ai">>
        BY <2>0, <3>0, <3>1, <3>2, HeldList DEF HeldFits
      <4> QED
        BY <2>0, <3>2, <4>1, HeldList, AppendNote, OnceAppend, AskedChanges DEF Roles
    <3>3. CASE turn.temp # 0
      <4>1. turn.held => /\ turn.temp \in DOMAIN Messages
                         /\ \A i \in DOMAIN Messages :
                              Messages[i] \in {<<turn.n, "temp">>, <<turn.n, "ai">>} => i = turn.temp
        BY <2>0, <3>3, HeldList DEF HeldFits
      <4> QED
        BY <2>0, <3>3, <4>1, HeldList, ReplaceNote, OnceReplace, AskedChanges DEF Roles
    <3> QED
      BY <3>2, <3>3
  <2>2. shown' = IF turn.held THEN [shown EXCEPT ![turn.s] = list] ELSE shown
    BY <1>8 DEF OnDone, Update, Replaced
  <2> HIDE DEF list
  <2> QED
    BY <2>1, <2>2, ShownCleanUpdate DEF Base, ListInv
<1>9. ASSUME UploadFiles
     PROVE  ShownClean'
  <2>1. CASE UNCHANGED shown
    BY <1>1, <2>1
  <2>2. CASE current # None /\ shown' = [shown EXCEPT ![current] = EnsureMessageList(current)]
    <3>1. /\ current \in Sessions /\ EnsureMessageList(current) \in Seq(Notes)
          /\ Once(EnsureMessageList(current)) /\ Asked(EnsureMessageList(current), served)
      BY <2>2, EnsuredList, NothingIsOnce
         DEF Base, BarTypes, Known, EnsureMessageList, ListInv, ShownClean
    <3> QED
      BY <2>2, <3>1, ShownCleanMoves DEF Base, ListInv
  <2> QED
    BY <1>9, <2>1, <2>2 DEF UploadFiles
<1>10. ASSUME UploadLoaded
     PROVE  ShownClean'
  <2>1. /\ task["upload"].s \in Sessions /\ task["upload"].got \in Seq(Notes)
        /\ Once(task["upload"].got) /\ Asked(task["upload"].got, served)
    BY <1>10, TasksAre, TaskFacts DEF UploadLoaded, Base, At, Fits, Known, ListInv, GotClean
  <2> QED
    BY <1>10, <2>1, ShownCleanMoves DEF UploadLoaded, Base, ListInv
<1>11. ASSUME NEW p \in Tasks, StartLost(p) \/ ServeList(p) \/ ServeStart(p) \/ ServeLoad(p) \/
                               ServeDelete(p) \/ ServeUpload(p) \/ Started(p) \/
                               Listed(p) \/ TokensFetched(p) \/ CallFails(p)
     PROVE  ShownClean'
  BY <1>11, <1>1 DEF StartLost, ServeList, ServeStart, ServeLoad, ServeDelete, ServeUpload, Started,
                     Listed, TokensFetched, CallFails, backend, history
<1>12. ASSUME NEW n \in Turns, ServeAck(n) \/ ServeChunk(n) \/ ServeDone(n) \/ ServeError(n) \/ ServeLost(n)
     PROVE  ShownClean'
  BY <1>12, <1>1 DEF ServeAck, ServeChunk, ServeDone, ServeError, ServeLost, backend, history
<1>13. ASSUME NEW p \in Clicks, CreateSession(p)
     PROVE  ShownClean'
  BY <1>13, <1>1 DEF CreateSession, backend, history
<1>14. ASSUME NEW p \in Clicks, NEW s \in Sessions, ResumeSession(p, s) \/
                                                    RemoveSession(p, s)
     PROVE  ShownClean'
  BY <1>14, <1>1 DEF ResumeSession, RemoveSession, backend, history
<1>15. ASSUME OnError \/ StreamEnd \/ StreamBreaks \/ Uploaded
     PROVE  ShownClean'
  BY <1>15, <1>1 DEF OnError, StreamEnd, StreamBreaks, Uploaded, Throws, backend, history
<1>16. ASSUME NEW f \in Files, RemoveAttachment(f)
     PROVE  ShownClean'
  BY <1>16, <1>1 DEF RemoveAttachment, backend, history
<1>17. CASE UNCHANGED vars
  BY <1>17, <1>1 DEF vars, backend, history
<1> QED
  BY <1>1, <1>2, <1>3, <1>4, <1>5, <1>6, <1>7, <1>8, <1>9, <1>10, <1>11, <1>12, <1>13,
     <1>14, <1>15, <1>16, <1>17 DEF Next, Answer, ServeQuestion, ReadStream

\* Each of the backend's steps keeps the list of the open question what it was.
LEMMA HeldFitsMore ==
  ASSUME NEW L, NEW k, NEW n, NEW E \in Seq(Events), NEW es \in Seq(Events), NEW pc \in {"asked", "acked"},
         NEW after \in {"acked", "over", "lost"}, HeldFits(L, k, E, pc, n),
         pc = "acked" => \A j \in DOMAIN es : es[j] # "ack"
  PROVE  HeldFits(L, k, E \o es, after, n)
<1>1. ASSUME NEW i \in DOMAIN L, L[i] = <<n, "user">>, NEW j \in DOMAIN (E \o es)
      PROVE  (E \o es)[j] # "ack"
  <2>1. pc = "acked" /\ \A q \in DOMAIN E : E[q] # "ack"
    BY <1>1 DEF HeldFits
  <2>2. /\ Len(E) \in Nat /\ Len(es) \in Nat /\ DOMAIN E = 1..Len(E) /\ DOMAIN es = 1..Len(es)
        /\ j \in 1..(Len(E) + Len(es))
        /\ (E \o es)[j] = IF j <= Len(E) THEN E[j] ELSE es[j - Len(E)]
    BY <1>1
  <2> QED
    BY <2>1, <2>2
<1> QED
  BY <1>1 DEF HeldFits

\* What the callbacks make of it: onAck, ...
LEMMA HeldFitsAck ==
  ASSUME NEW L \in Seq(Notes), NEW k \in Nat, NEW n \in Turns, NEW E \in Seq(Events), NEW pc,
         E # <<>>, Head(E) = "ack", EventsFit(E, pc), HeldFits(L, k, E, pc, n)
  PROVE  HeldFits(Append(L, <<n, "user">>), k, Tail(E), pc, n)
<1> DEFINE M == Append(L, <<n, "user">>)
           F == Tail(E)
<1>1. /\ Len(L) \in Nat /\ DOMAIN L = 1..Len(L) /\ DOMAIN M = 1..(Len(L) + 1)
      /\ M[Len(L) + 1] = <<n, "user">> /\ \A i \in DOMAIN L : M[i] = L[i]
  BY AppendNote DEF Roles
<1>2. /\ 1 \in DOMAIN E /\ E[1] = "ack"
      /\ \A j \in DOMAIN F : F[j] = E[j + 1] /\ j + 1 \in DOMAIN E /\ 1 < j + 1
  BY OneFewer
<1> HIDE DEF M, F
<1>3. pc # "asked" /\ \A j \in DOMAIN F : F[j] # "ack"
  BY <1>2 DEF EventsFit
<1>4. \A i \in DOMAIN M : i \in DOMAIN L \/ (i = Len(L) + 1 /\ M[i] = <<n, "user">>)
  BY <1>1
<1>5. k = 0 => \A i \in DOMAIN M : M[i] # <<n, "temp">> /\ M[i] # <<n, "ai">>
  BY <1>1, <1>2, <1>4 DEF HeldFits
<1>6. k # 0 => /\ k \in DOMAIN M
               /\ M[k] \in {<<n, "temp">>, <<n, "ai">>}
               /\ \A i \in DOMAIN M : M[i] \in {<<n, "temp">>, <<n, "ai">>} => i = k
  BY <1>1, <1>4 DEF HeldFits
<1>7. HeldFits(M, k, F, pc, n)
  BY <1>3, <1>5, <1>6 DEF HeldFits
<1> QED
  BY <1>7 DEF M, F

\* ... onStream, which makes the draft unless there is one, ...
LEMMA HeldFitsStream ==
  ASSUME NEW L \in Seq(Notes), NEW k \in Nat, NEW n \in Turns, NEW E \in Seq(Events), NEW pc,
         E # <<>>, Head(E) = "stream", EventsFit(E, pc), HeldFits(L, k, E, pc, n)
  PROVE  /\ k = 0 => HeldFits(Append(L, <<n, "temp">>), Len(L) + 1, Tail(E), pc, n)
         /\ k # 0 => HeldFits(L, k, Tail(E), pc, n)
<1> DEFINE M == Append(L, <<n, "temp">>)
           F == Tail(E)
<1>1. /\ Len(L) \in Nat /\ DOMAIN L = 1..Len(L) /\ DOMAIN M = 1..(Len(L) + 1)
      /\ M[Len(L) + 1] = <<n, "temp">> /\ \A i \in DOMAIN L : M[i] = L[i]
  BY AppendNote DEF Roles
<1>2. /\ 1 \in DOMAIN E /\ E[1] = "stream"
      /\ \A j \in DOMAIN F : F[j] = E[j + 1] /\ j + 1 \in DOMAIN E /\ 1 < j + 1
  BY OneFewer
<1> HIDE DEF M, F
<1>3. pc # "asked" /\ \A j \in DOMAIN F : F[j] # "ack"
  BY <1>2 DEF EventsFit
<1>4. \A i \in DOMAIN M : i \in DOMAIN L \/ (i = Len(L) + 1 /\ M[i] = <<n, "temp">>)
  BY <1>1
<1>5. k = 0 => HeldFits(M, Len(L) + 1, F, pc, n)
  <2> SUFFICES ASSUME k = 0 PROVE HeldFits(M, Len(L) + 1, F, pc, n)
    OBVIOUS
  <2>1. \A i \in DOMAIN L : M[i] # <<n, "temp">> /\ M[i] # <<n, "ai">>
    BY <1>1, <1>2 DEF HeldFits
  <2>2. \A i \in DOMAIN M : M[i] \in {<<n, "temp">>, <<n, "ai">>} => i = Len(L) + 1
    BY <1>4, <2>1
  <2>3. Len(L) + 1 # 0 /\ Len(L) + 1 \in DOMAIN M
    BY <1>1
  <2> QED
    BY <1>1, <1>3, <2>2, <2>3 DEF HeldFits
<1>6. k # 0 => HeldFits(L, k, F, pc, n)
  BY <1>3 DEF HeldFits
<1> QED
  BY <1>5, <1>6 DEF M, F

\* ... and onDone, which puts the answer at the end or in the place of the draft.
LEMMA HeldFitsDone ==
  ASSUME NEW L \in Seq(Notes), NEW k \in Nat, NEW n \in Turns, NEW E \in Seq(Events),
         NEW pc \in {"asked", "acked", "over", "lost"},
         E # <<>>, Head(E) \in {"done", "titled"}, EventsFit(E, pc), HeldFits(L, k, E, pc, n)
  PROVE  /\ k = 0 => HeldFits(Append(L, <<n, "ai">>), 0, Tail(E), pc, n)
         /\ k # 0 => HeldFits(Replaced(L, k, <<n, "ai">>), k, Tail(E), pc, n)
<1> DEFINE M == Append(L, <<n, "ai">>)
           R == Replaced(L, k, <<n, "ai">>)
           F == Tail(E)
<1>1. /\ Len(L) \in Nat /\ DOMAIN L = 1..Len(L) /\ DOMAIN M = 1..(Len(L) + 1)
      /\ M[Len(L) + 1] = <<n, "ai">> /\ \A i \in DOMAIN L : M[i] = L[i]
  BY AppendNote DEF Roles
<1>2. /\ 1 \in DOMAIN E /\ E[1] \in {"done", "titled"}
      /\ \A j \in DOMAIN F : F[j] = E[j + 1] /\ j + 1 \in DOMAIN E /\ 1 < j + 1
  BY OneFewer
<1>3. DOMAIN R = DOMAIN L /\ \A i \in DOMAIN L : R[i] = IF i = k THEN <<n, "ai">> ELSE L[i]
  BY DEF Replaced
<1> HIDE DEF M, R, F
<1>4. pc = "over" /\ \A j \in DOMAIN F : F[j] = "end"
  BY <1>2 DEF EventsFit
<1>5. \A i \in DOMAIN M : i \in DOMAIN L \/ (i = Len(L) + 1 /\ M[i] = <<n, "ai">>)
  BY <1>1
<1>6. k = 0 => HeldFits(M, 0, F, pc, n)
  <2> SUFFICES ASSUME k = 0 PROVE HeldFits(M, 0, F, pc, n)
    OBVIOUS
  <2>1. \A i \in DOMAIN M : M[i] # <<n, "temp">>
    BY <1>1, <1>5 DEF HeldFits
  <2> QED
    BY <1>4, <2>1 DEF HeldFits
<1>7. k # 0 => HeldFits(R, k, F, pc, n)
  BY <1>3, <1>4 DEF HeldFits
<1> QED
  BY <1>6, <1>7 DEF M, R, F

\* A question just asked has no message in any list.
LEMMA HeldFitsBegin ==
  ASSUME NEW L \in Seq(Notes), NEW n \in Turns, Asked(L, served), served[n].pc = "none"
  PROVE  HeldFits(L, 0, <<>>, "asked", n)
<1>1. ASSUME NEW i \in DOMAIN L, NEW r, L[i] = <<n, r>> PROVE FALSE
  <2>1. L[i][1] = n
    BY <1>1
  <2>2. n # 0
    BY ChatStoreAssumption DEF Turns
  <2> QED
    BY <2>1, <2>2 DEF Asked
<1> QED
  BY <1>1 DEF HeldFits

\* The list a send holds is the one shown until it is let go.
LEMMA HeldInvKept ==
  ASSUME Base, HeldInv, turn'.held => turn.held,
         turn'.held => /\ turn'.n = turn.n /\ turn'.s = turn.s /\ turn'.temp = turn.temp
                       /\ turn'.events = turn.events /\ shown'[turn.s] = shown[turn.s]
                       /\ served'[turn.n].pc = served[turn.n].pc
  PROVE  HeldInv'
BY DEF HeldInv

LEMMA HeldInvElsewhere ==
  ASSUME Base, HeldInv, NEW s \in Sessions, LetGo(s), NEW l,
         shown' = [shown EXCEPT ![s] = l], UNCHANGED served
  PROVE  HeldInv'
<1>1. CASE turn.s = s
  <2>1. ~turn'.held
    BY <1>1 DEF LetGo, Base, TurnTypes, TurnRecord
  <2> QED
    BY <2>1, HeldInvKept
<1>2. CASE turn.s # s
  <2>1. turn' = turn
    BY <1>2 DEF LetGo
  <2>2. shown'[turn.s] = shown[turn.s]
    BY <1>2 DEF Base, ShownTypes
  <2> QED
    BY <2>1, <2>2, HeldInvKept
<1> QED
  BY <1>1, <1>2

LEMMA HeldInvEmit ==
  ASSUME Base, HeldInv, NEW n \in Turns, NEW es \in Seq(Events), Emit(n, es), UNCHANGED shown,
         served[n].pc \in {"asked", "acked"}, served'[n].pc \in {"acked", "over", "lost"},
         served[n].pc = "acked" => \A j \in DOMAIN es : es[j] # "ack",
         \A m \in Turns : m # n => served'[m] = served[m]
  PROVE  HeldInv'
<1>1. CASE turn.n = n
  <2>1. /\ turn.events \in Seq(Events) /\ turn'.events = turn.events \o es
        /\ turn'.held = turn.held /\ turn'.s = turn.s /\ turn'.temp = turn.temp /\ turn'.n = n
    BY <1>1 DEF Emit, Base, TurnTypes, TurnRecord
  <2> QED
    BY <1>1, <2>1, HeldFitsMore DEF HeldInv
<1>2. CASE turn.n # n
  <2>1. turn' = turn
    BY <1>2 DEF Emit
  <2>2. turn.held => turn.n \in Turns
    BY HeldFacts, OpenFacts DEF Base
  <2> QED
    BY <1>2, <2>1, <2>2, HeldInvKept
<1> QED
  BY <1>1, <1>2

LEMMA HeldInvBegin ==
  ASSUME Base, NEW s \in Sessions, NEW list \in Seq(Notes), Asked(list, served), BeginStream(s, list)
  PROVE  HeldInv'
<1>1. PICK n \in Turns : /\ Unasked(n)
                         /\ served' = [served EXCEPT ![n] = [@ EXCEPT !.pc = "asked", !.s = s]]
                         /\ turn' = [NoTurn EXCEPT !.n = n, !.s = s, !.held = TRUE, !.out = files[s]]
  BY DEF BeginStream
<1>2. /\ turn'.n = n /\ turn'.s = s /\ turn'.temp = 0 /\ turn'.events = <<>>
      /\ served'[n].pc = "asked" /\ shown'[s] = list /\ served[n].pc = "none"
  BY <1>1 DEF NoTurn, BeginStream, Unasked, Base, BackendTypes, ServedRecord, ShownTypes
<1> QED
  BY <1>2, HeldFitsBegin DEF HeldInv

LEMMA HeldInvUpdate ==
  ASSUME Base, HeldInv, NEW list, NEW temp,
         turn.held => HeldFits(list, temp, Tail(turn.events), served[turn.n].pc, turn.n),
         shown' = IF turn.held THEN [shown EXCEPT ![turn.s] = list] ELSE shown,
         turn' = [turn EXCEPT !.events = Tail(@), !.temp = temp], UNCHANGED served
  PROVE  HeldInv'
<1>1. /\ turn'.held = turn.held /\ turn'.s = turn.s /\ turn'.temp = temp /\ turn'.n = turn.n
      /\ turn'.events = Tail(turn.events)
  BY DEF Base, TurnTypes, TurnRecord
<1>2. turn.held => shown'[turn.s] = list
  BY HeldFacts DEF Base, ShownTypes
<1> QED
  BY <1>1, <1>2 DEF HeldInv

\* The list a send holds has what its events have brought.
LEMMA HeldInvStep ==
  ASSUME Base, ListInv, [Next]_vars
  PROVE  HeldInv'
<1>1. CASE UNCHANGED <<served, shown, turn>>
  BY <1>1 DEF ListInv, HeldInv
<1>2. ASSUME NEW p \in Tasks, Deleted(p)
     PROVE  HeldInv'
  <2>1. task[p].s \in Sessions
    BY <1>2, TasksAre, TaskFacts DEF Deleted, Base, At, Fits, Known
  <2> QED
    BY <1>2, <2>1, HeldInvElsewhere DEF Deleted, ListInv, backend
<1>3. ASSUME NEW p \in Tasks, Loaded(p)
     PROVE  HeldInv'
  <2>1. task[p].s \in Sessions
    BY <1>3, TasksAre, TaskFacts DEF Loaded, Base, At, Fits, Known
  <2> QED
    BY <1>3, <2>1, HeldInvElsewhere DEF Loaded, ListInv, backend
<1>4. ASSUME NEW n \in Turns, ServeAck(n)
     PROVE  HeldInv'
  <2> DEFINE es == <<"ack">>
  <2>1. es \in Seq(Events)
    BY EventLists DEF Events
  <2>2. Emit(n, es) /\ shown' = shown
    BY <1>4 DEF ServeAck
  <2>3. /\ served[n].pc \in {"asked", "acked"} /\ served'[n].pc \in {"acked", "over", "lost"}
        /\ \A m \in Turns : m # n => served'[m] = served[m]
    BY <1>4 DEF ServeAck, Base, BackendTypes, ServedRecord
  <2>4. served[n].pc = "acked" => \A j \in DOMAIN es : es[j] # "ack"
    BY <1>4 DEF ServeAck
  <2> HIDE DEF es
  <2> QED
    BY <2>1, <2>2, <2>3, <2>4, HeldInvEmit DEF ListInv
<1>5. ASSUME NEW n \in Turns, ServeChunk(n)
     PROVE  HeldInv'
  <2> DEFINE es == <<"stream">>
  <2>1. es \in Seq(Events) /\ \A j \in DOMAIN es : es[j] # "ack"
    BY EventLists DEF Events
  <2>2. Emit(n, es) /\ shown' = shown
    BY <1>5 DEF ServeChunk
  <2>3. /\ served[n].pc = "acked" /\ served'[n].pc = "acked"
        /\ \A m \in Turns : m # n => served'[m] = served[m]
    BY <1>5 DEF ServeChunk, Base, BackendTypes, ServedRecord
  <2> HIDE DEF es
  <2> QED
    BY <2>1, <2>2, <2>3, HeldInvEmit DEF ListInv
<1>6. ASSUME NEW n \in Turns, ServeDone(n)
     PROVE  HeldInv'
  <2>0. PICK d \in {"titled", "done"} : Emit(n, <<d, "end">>)
    BY <1>6 DEF ServeDone
  <2> DEFINE es == <<d, "end">>
  <2>1. es \in Seq(Events)
    BY EventLists DEF Events
  <2>2. Emit(n, es) /\ shown' = shown
    BY <1>6, <2>0 DEF ServeDone
  <2>3. /\ served[n].pc \in {"asked", "acked"} /\ served'[n].pc \in {"acked", "over", "lost"}
        /\ \A m \in Turns : m # n => served'[m] = served[m]
    BY <1>6 DEF ServeDone, Base, BackendTypes, ServedRecord
  <2>4. served[n].pc = "acked" => \A j \in DOMAIN es : es[j] # "ack"
    BY <1>6 DEF ServeDone
  <2> HIDE DEF es
  <2> QED
    BY <2>1, <2>2, <2>3, <2>4, HeldInvEmit DEF ListInv
<1>7. ASSUME NEW n \in Turns, ServeError(n)
     PROVE  HeldInv'
  <2> DEFINE es == <<"error">>
  <2>1. es \in Seq(Events)
    BY EventLists DEF Events
  <2>2. Emit(n, es) /\ shown' = shown
    BY <1>7 DEF ServeError
  <2>3. /\ served[n].pc \in {"asked", "acked"} /\ served'[n].pc \in {"acked", "over", "lost"}
        /\ \A m \in Turns : m # n => served'[m] = served[m]
    BY <1>7 DEF ServeError, Base, BackendTypes, ServedRecord
  <2>4. served[n].pc = "acked" => \A j \in DOMAIN es : es[j] # "ack"
    BY <1>7 DEF ServeError
  <2> HIDE DEF es
  <2> QED
    BY <2>1, <2>2, <2>3, <2>4, HeldInvEmit DEF ListInv
<1>8. ASSUME SendMessage
     PROVE  HeldInv'
  <2>1. CASE current = None
    BY <1>8, <1>1, <2>1 DEF SendMessage
  <2>2. CASE current # None
    <3>1. /\ current \in Sessions /\ EnsureMessageList(current) \in Seq(Notes)
          /\ Asked(EnsureMessageList(current), served)
      BY <2>2, EnsuredList, NothingIsOnce
         DEF Base, BarTypes, Known, EnsureMessageList, ListInv, ShownClean
    <3> QED
      BY <1>8, <2>2, <3>1, HeldInvBegin DEF SendMessage
  <2> QED
    BY <2>1, <2>2
<1>9. ASSUME SendLoaded
     PROVE  HeldInv'
  <2>1. /\ task["send"].s \in Sessions /\ task["send"].got \in Seq(Notes)
        /\ Asked(task["send"].got, served)
    BY <1>9, TasksAre, TaskFacts DEF SendLoaded, Base, At, Fits, Known, ListInv, GotClean
  <2> QED
    BY <1>9, <2>1, HeldInvBegin DEF SendLoaded
<1>10. ASSUME OnAck
     PROVE  HeldInv'
  <2>0. /\ Open /\ turn.n \in Turns /\ turn.temp \in Nat /\ Messages \in Seq(Notes)
        /\ turn.events \in Seq(Events) /\ turn.events # <<>> /\ EventsFit(turn.events, served[turn.n].pc)
        /\ served[turn.n].pc \in {"asked", "acked", "over", "lost"}
    BY <1>10, HeldList
       DEF OnAck, Reads, Base, TurnTypes, TurnRecord, BackendTypes, ServedRecord, ListInv,
           EventsInv
  <2> DEFINE list == Append(Messages, <<turn.n, "user">>)
             temp == turn.temp
  <2>1. turn.held => HeldFits(list, temp, Tail(turn.events), served[turn.n].pc, turn.n)
    <3>1. Head(turn.events) = "ack"
      BY <1>10 DEF OnAck, Reads
    <3> QED
      BY <2>0, <3>1, HeldList, HeldFitsAck
  <2>2. /\ shown' = IF turn.held THEN [shown EXCEPT ![turn.s] = list] ELSE shown
        /\ turn' = [turn EXCEPT !.events = Tail(@), !.temp = temp]
        /\ served' = served
    BY <1>10 DEF OnAck, Update, backend
  <2> HIDE DEF list, temp
  <2> QED
    BY <2>1, <2>2, HeldInvUpdate DEF ListInv
<1>11. ASSUME OnStream
     PROVE  HeldInv'
  <2>0. /\ Open /\ turn.n \in Turns /\ turn.temp \in Nat /\ Messages \in Seq(Notes)
        /\ turn.events \in Seq(Events) /\ turn.events # <<>> /\ EventsFit(turn.events, served[turn.n].pc)
        /\ served[turn.n].pc \in {"asked", "acked", "over", "lost"}
    BY <1>11, HeldList
       DEF OnStream, Reads, Base, TurnTypes, TurnRecord, BackendTypes, ServedRecord, ListInv,
           EventsInv
  <2> DEFINE list == IF turn.temp = 0 THEN Append(Messages, <<turn.n, "temp">>) ELSE Messages
             temp == IF turn.temp = 0 THEN Len(Messages) + 1 ELSE turn.temp
  <2>1. turn.held => HeldFits(list, temp, Tail(turn.events), served[turn.n].pc, turn.n)
    <3>1. Head(turn.events) = "stream"
      BY <1>11 DEF OnStream, Reads
    <3> QED
      BY <2>0, <3>1, HeldList, HeldFitsStream
  <2>2. /\ shown' = IF turn.held THEN [shown EXCEPT ![turn.s] = list] ELSE shown
        /\ turn' = [turn EXCEPT !.events = Tail(@), !.temp = temp]
        /\ served' = served
    BY <1>11 DEF OnStream, Update, backend
  <2> HIDE DEF list, temp
  <2> QED
    BY <2>1, <2>2, HeldInvUpdate DEF ListInv
<1>12. ASSUME OnDone
     PROVE  HeldInv'
  <2>0. /\ Open /\ turn.n \in Turns /\ turn.temp \in Nat /\ Messages \in Seq(Notes)
        /\ turn.events \in Seq(Events) /\ turn.events # <<>> /\ EventsFit(turn.events, served[turn.n].pc)
        /\ served[turn.n].pc \in {"asked", "acked", "over", "lost"}
    BY <1>12, HeldList
       DEF OnDone, Reads, Base, TurnTypes, TurnRecord, BackendTypes, ServedRecord, ListInv,
           EventsInv
  <2> DEFINE list == IF turn.temp = 0 THEN Append(Messages, <<turn.n, "ai">>)
                     ELSE Replaced(Messages, turn.temp, <<turn.n, "ai">>)
             temp == IF turn.temp = 0 THEN 0 ELSE turn.temp
  <2>1. turn.held => HeldFits(list, temp, Tail(turn.events), served[turn.n].pc, turn.n)
    <3>1. Head(turn.events) \in {"done", "titled"}
      BY <1>12 DEF OnDone, Reads
    <3> QED
      BY <2>0, <3>1, HeldList, HeldFitsDone
  <2>2. /\ shown' = IF turn.held THEN [shown EXCEPT ![turn.s] = list] ELSE shown
        /\ turn' = [turn EXCEPT !.events = Tail(@), !.temp = temp]
        /\ served' = served
    BY <1>12 DEF OnDone, Update, backend, Replaced
  <2> HIDE DEF list, temp
  <2> QED
    BY <2>1, <2>2, HeldInvUpdate DEF ListInv
<1>13. ASSUME OnError
     PROVE  HeldInv'
  <2>1. turn' = NoTurn
    BY <1>13 DEF OnError, Throws, Finally
  <2> QED
    BY <2>1, NoTurnType DEF HeldInv
<1>14. ASSUME StreamEnd
     PROVE  HeldInv'
  <2>1. turn' = NoTurn
    BY <1>14 DEF StreamEnd, Throws, Finally
  <2> QED
    BY <2>1, NoTurnType DEF HeldInv
<1>15. ASSUME StreamBreaks
     PROVE  HeldInv'
  <2>1. turn' = NoTurn
    BY <1>15 DEF StreamBreaks, Throws, Finally
  <2> QED
    BY <2>1, NoTurnType DEF HeldInv
<1>16. ASSUME UploadFiles
     PROVE  HeldInv'
  <2>1. UNCHANGED <<turn, served>> /\ (UNCHANGED shown \/ (current # None /\ shown' = [shown EXCEPT ![current] = EnsureMessageList(current)]))
    BY <1>16 DEF UploadFiles, backend
  <2>2. \A s \in Sessions : shown[s] # None => shown'[s] = shown[s]
    BY <2>1 DEF Base, ShownTypes, EnsureMessageList
  <2>3. turn.held => turn.s \in Sessions /\ shown[turn.s] # None
    BY HeldFacts DEF Base, HeldTypes
  <2> QED
    BY <2>1, <2>2, <2>3, HeldInvKept DEF ListInv
<1>17. ASSUME UploadLoaded
     PROVE  HeldInv'
  <2>1. task["upload"].s \in Sessions
    BY <1>17, TasksAre, TaskFacts DEF UploadLoaded, Base, At, Fits, Known
  <2> QED
    BY <1>17, <2>1, HeldInvElsewhere DEF UploadLoaded, ListInv, backend
<1>18. ASSUME NEW p \in Tasks, StartLost(p) \/ ServeList(p) \/ ServeStart(p) \/ ServeLoad(p) \/
                               ServeDelete(p) \/ ServeUpload(p) \/ Started(p) \/
                               Listed(p) \/ TokensFetched(p) \/ CallFails(p)
     PROVE  HeldInv'
  BY <1>18, <1>1 DEF StartLost, ServeList, ServeStart, ServeLoad, ServeDelete, ServeUpload, Started,
                     Listed, TokensFetched, CallFails, backend, history
<1>19. ASSUME NEW p \in Clicks, CreateSession(p)
     PROVE  HeldInv'
  BY <1>19, <1>1 DEF CreateSession, backend, history
<1>20. ASSUME NEW p \in Clicks, NEW s \in Sessions, ResumeSession(p, s) \/
                                                    RemoveSession(p, s)
     PROVE  HeldInv'
  BY <1>20, <1>1 DEF ResumeSession, RemoveSession, backend, history
<1>21. ASSUME Uploaded
     PROVE  HeldInv'
  BY <1>21, <1>1 DEF Uploaded, backend, history
<1>22. ASSUME NEW f \in Files, RemoveAttachment(f)
     PROVE  HeldInv'
  BY <1>22, <1>1 DEF RemoveAttachment, backend, history
<1>23. CASE UNCHANGED vars
  BY <1>23, <1>1 DEF vars, backend, history
<1>lost. ASSUME NEW n \in Turns, ServeLost(n)
     PROVE  HeldInv'
  <2> DEFINE es == <<>>
  <2>1. es \in Seq(Events) /\ \A j \in DOMAIN es : es[j] # "ack"
    OBVIOUS
  <2>2. Emit(n, es) /\ shown' = shown
    BY <1>lost DEF ServeLost, Emit, Base, TurnTypes, TurnRecord
  <2>3. /\ served[n].pc \in {"asked", "acked"} /\ served'[n].pc \in {"acked", "over", "lost"}
        /\ \A m \in Turns : m # n => served'[m] = served[m]
    BY <1>lost DEF ServeLost, Base, BackendTypes, ServedRecord
  <2> HIDE DEF es
  <2> QED
    BY <2>1, <2>2, <2>3, HeldInvEmit DEF ListInv
<1> QED
  BY <1>lost, <1>1, <1>2, <1>3, <1>4, <1>5, <1>6, <1>7, <1>8, <1>9, <1>10, <1>11, <1>12, <1>13,
     <1>14, <1>15, <1>16, <1>17, <1>18, <1>19, <1>20, <1>21, <1>22, <1>23 DEF Next, Answer, ServeQuestion, ReadStream

LEMMA ListInit == Init => ListInv
<1> SUFFICES ASSUME Init PROVE ListInv
  OBVIOUS
<1>1. Base /\ turn = NoTurn
  BY BaseInit DEF Init
<1>2. EventsInv /\ HeldInv
  BY <1>1, NoTurnType DEF EventsInv, HeldInv, Open
<1>3. ShownClean
  BY DEF Init, ShownClean
<1>4. GotClean
  BY DEF Init, GotClean, At, NoTask
<1>5. StoredClean
  <2>1. DOMAIN Older = 1..2 /\ Older[1] = <<0, "user">> /\ Older[2] = <<0, "ai">>
    BY DEF Older
  <2>2. Clean(Older, served)
    BY <2>1 DEF Clean, Distinct
  <2> QED
    BY <2>2, NothingIsOnce DEF Init, StoredClean
<1> QED
  BY <1>2, <1>3, <1>4, <1>5 DEF ListInv

LEMMA ListStep ==
  ASSUME Base, ListInv, [Next]_vars
  PROVE  ListInv'
<1>1. Forward
  BY ForwardStep DEF Base
<1>2. EventsInv'
  BY EventsStep DEF Base, ListInv
<1>3. StoredClean'
  BY <1>1, StoredStep DEF Base, ListInv
<1>4. GotClean'
  BY <1>1, GotStep DEF ListInv
<1>5. ShownClean'
  BY <1>1, ShownCleanStep
<1>6. HeldInv'
  BY HeldInvStep
<1> QED
  BY <1>2, <1>3, <1>4, <1>5, <1>6 DEF ListInv

\* What is shown comes from a load or from the events of one send, each once.
THEOREM ChatStoreLists == Spec => []ListInv
<1>1. Base /\ ListInv /\ [Next]_vars => ListInv'
  BY ListStep
<1> QED
  BY ListInit, <1>1, ChatStoreBase, PTL DEF Spec

LEMMA OnceIsShownOnce == Base /\ ListInv => ShownOnce
<1> SUFFICES ASSUME Base, ListInv, NEW s \in Sessions, shown[s] # None
             PROVE  /\ IsInjective(shown[s])
                    /\ \A n \in Turns : ~ ({<<n, "temp">>, <<n, "ai">>} \subseteq Range(shown[s]))
  BY DEF ShownOnce
<1>1. Once(shown[s])
  BY DEF ListInv, ShownClean
<1>2. IsInjective(shown[s])
  BY <1>1 DEF Once, Distinct, IsInjective
<1>3. ASSUME NEW n \in Turns, <<n, "temp">> \in Range(shown[s]), <<n, "ai">> \in Range(shown[s])
      PROVE  FALSE
  <2>1. PICK i \in DOMAIN shown[s] : shown[s][i] = <<n, "temp">>
    BY <1>3 DEF Range
  <2>2. PICK j \in DOMAIN shown[s] : shown[s][j] = <<n, "ai">>
    BY <1>3 DEF Range
  <2>3. n # 0
    BY NotesAre DEF Roles
  <2> QED
    BY <1>1, <2>1, <2>2, <2>3 DEF Once
<1> QED
  BY <1>2, <1>3

\* No list shows a message twice or an answer beside its draft, whatever loads,
\* removals and events cross.
THEOREM ChatStoreShownOnce == Spec => []ShownOnce
BY ChatStoreBase, ChatStoreLists, OnceIsShownOnce, PTL

-----------------------------------------------------------------------------
(* No uploaded file is forgotten. *)

Up == task["upload"]

\* The file whose upload the backend has answered.
Carried == IF Up.pc = "uploaded" THEN Range(Up.got) ELSE {}

\* A file is in the hands of one session only.
FilesApart ==
  /\ \A f \in spent : home[f] # None
  /\ \A s \in Sessions : \A f \in files[s] : home[f] = s /\ f \notin Carried
  /\ \A f \in Up.copy \cup Carried : home[f] = Up.s
  /\ Up.new \subseteq Up.copy

\* uploadFiles has just made its session, or it holds all that session lists.
UploadFits ==
  /\ Up.pc \in {"start", "started", "load", "loaded"} /\ Up.s # None =>
       \A f \in Files : home[f] # Up.s
  /\ Up.pc \in {"upload", "uploaded"} => files[Up.s] \subseteq Up.copy

\* What FilesTracked says, with what is known of the files an upload holds and of
\* those that go with the open question.
FilesHeld ==
  \A f \in Files \ crossed :
    /\ home[f] # None => f \in files[home[f]] \cup Up.copy \cup Carried \cup spent \cup dropped
    /\ f \in spent /\ home[f] # None /\ f \in files[home[f]] => turn.s = home[f] /\ f \in turn.out
    /\ f \in Up.copy \cup Carried => f \notin spent
    /\ Open /\ f \in files[turn.s] => f \in spent
    /\ f \in Up.copy \ Up.new => f \in files[Up.s] \cup spent \cup dropped

FilesInv == FilesApart /\ UploadFits /\ FilesHeld

LEMMA UpFacts ==
  ASSUME TaskTypes
  PROVE  /\ Up.copy \subseteq Files /\ Up.new \subseteq Files /\ Carried \subseteq Files
         /\ Up.pc # "uploaded" => Carried = {}
         /\ Up.pc = "uploaded" => Carried = Range(Up.got) /\ \E f \in Files : Carried = {f}
         /\ Up.pc \notin {"upload", "uploaded"} => Up.copy = {} /\ Up.new = {}
         /\ Up.pc \in {"upload", "uploaded"} => Up.s \in Sessions
         /\ Up.pc \notin {"list", "listed", "delete", "deleted", "tokens"}
<1>1. Up \in TaskRecord /\ Fits("upload", Up)
  BY TasksAre, TaskFacts DEF Up
<1>2. Up.pc = "uploaded" => Carried = Range(Up.got) /\ \E f \in Files : Carried = {f}
  BY <1>1, RangeOne DEF Fits, Carried
<1>3. Up.pc # "uploaded" => Carried = {}
  BY DEF Carried
<1>4. /\ Up.pc \notin {"upload", "uploaded"} => Up.copy = {} /\ Up.new = {}
      /\ Up.pc \in {"upload", "uploaded"} => Up.s \in Sessions
      /\ Up.pc \notin {"list", "listed", "delete", "deleted", "tokens"}
  BY <1>1 DEF Fits, Known
<1>5. Up.copy \subseteq Files /\ Up.new \subseteq Files
  BY <1>1 DEF TaskRecord
<1> QED
  BY <1>2, <1>3, <1>4, <1>5

FilesStay == UNCHANGED <<home, files, spent, dropped, crossed>>
TurnStays == turn'.n = turn.n /\ turn'.s = turn.s /\ turn'.out = turn.out

\* Another function goes on.
LEMMA FilesKept ==
  ASSUME FilesInv, FilesStay, TurnStays, Up' = Up
  PROVE  FilesInv'
<1>1. Carried' = Carried /\ (Open' <=> Open)
  BY DEF Carried, TurnStays, Open
<1> QED
  BY <1>1 DEF FilesInv, FilesApart, UploadFits, FilesHeld, FilesStay, TurnStays

\* uploadFiles goes on while it holds no file.
LEMMA FilesIdle ==
  ASSUME TaskTypes, FilesInv, FilesStay, TurnStays,
         Up.pc \notin {"upload", "uploaded"}, Up'.pc \notin {"upload", "uploaded"},
         Up'.copy = {}, Up'.new = {},
         Up'.s # None => \A f \in Files : home[f] # Up'.s
  PROVE  FilesInv'
<1>1. Carried = {} /\ Carried' = {} /\ Up.copy = {} /\ Up.new = {} /\ (Open' <=> Open)
  BY UpFacts DEF Carried, TurnStays, Open
<1>2. FilesApart'
  BY <1>1 DEF FilesInv, FilesApart, FilesStay
<1>3. UploadFits'
  BY DEF UploadFits, FilesStay
<1>4. FilesHeld'
  BY <1>1 DEF FilesInv, FilesHeld, FilesStay, TurnStays
<1> QED
  BY <1>2, <1>3, <1>4 DEF FilesInv

\* uploadFiles takes the attachments of s, none of which is with a question.
LEMMA FilesBegin ==
  ASSUME TaskTypes, PageTypes, FilesInv, FilesStay, TurnStays, NEW s \in Sessions,
         Up.pc \notin {"upload", "uploaded"}, BeginUpload(s),
         turn.s = s => files[s] = {}
  PROVE  FilesInv'
<1>1. Up'.pc = "upload" /\ Up'.s = s /\ Up'.copy = files[s] /\ Up'.new = {}
  BY TasksAre DEF BeginUpload, Up, NoTask, TaskTypes
<1>2. Carried = {} /\ Carried' = {} /\ Up.copy = {} /\ Up.new = {} /\ (Open' <=> Open)
  BY <1>1, UpFacts DEF Carried, TurnStays, Open
<1>3. files[s] \subseteq Files /\ \A f \in files[s] : home[f] = s
  BY DEF PageTypes, FilesInv, FilesApart
<1>4. FilesApart'
  BY <1>1, <1>2, <1>3 DEF FilesInv, FilesApart, FilesStay
<1>5. UploadFits'
  BY <1>1 DEF UploadFits, FilesStay
<1>6. FilesHeld'
  BY <1>1, <1>2, <1>3, NoneIsNot DEF FilesInv, FilesHeld, FilesStay, TurnStays
<1> QED
  BY <1>4, <1>5, <1>6 DEF FilesInv

\* The attachments of s go with a new question.
LEMMA FilesSent ==
  ASSUME TaskTypes, PageTypes, TurnTypes, FilesInv, ~Open, NEW s \in Sessions, NEW list, BeginStream(s, list),
         Up' = Up, UNCHANGED <<home, files, dropped>>
  PROVE  FilesInv'
<1>1. turn.s = None /\ turn'.s = s /\ turn'.out = files[s]
  BY NoTurnType DEF TurnTypes, BeginStream, NoTurn
<1>2. /\ spent' = spent \cup files[s]
      /\ crossed' = crossed \cup (IF Up.s = s THEN Up.copy ELSE {})
  BY DEF BeginStream, Up
<1>3. Carried' = Carried
  BY DEF Carried
<1>4. \A t \in Sessions : files[t] \subseteq Files /\ \A f \in files[t] : home[f] = t /\ f \notin Carried
  BY DEF PageTypes, FilesInv, FilesApart
<1>5. FilesApart'
  BY <1>2, <1>3, <1>4, NoneIsNot DEF FilesInv, FilesApart
<1>6. UploadFits'
  BY DEF FilesInv, UploadFits
<1>7. ASSUME NEW f \in Files, f \notin crossed'
      PROVE  /\ home[f] # None => f \in files[home[f]] \cup Up.copy \cup Carried \cup spent' \cup dropped
             /\ f \in spent' /\ home[f] # None /\ f \in files[home[f]] => s = home[f] /\ f \in files[s]
             /\ f \in Up.copy \cup Carried => f \notin spent'
             /\ f \in files[s] => f \in spent'
             /\ f \in Up.copy \ Up.new => f \in files[Up.s] \cup spent' \cup dropped
  <2>1. f \in Files \ crossed /\ (f \in Up.copy => Up.s # s)
    BY <1>2, <1>7
  <2>2. f \in Up.copy \cup Carried => home[f] = Up.s
    BY DEF FilesInv, FilesApart
  <2>3. /\ home[f] # None => f \in files[home[f]] \cup Up.copy \cup Carried \cup spent \cup dropped
        /\ f \in spent /\ home[f] # None /\ f \in files[home[f]] => turn.s = home[f]
        /\ f \in Up.copy \cup Carried => f \notin spent
        /\ f \in Up.copy \ Up.new => f \in files[Up.s] \cup spent \cup dropped
    BY <2>1 DEF FilesInv, FilesHeld
  <2>4. f \in Up.copy \cup Carried => f \notin files[s]
    BY <1>4, <2>1, <2>2
  <2> QED
    BY <1>1, <1>2, <1>4, <2>3, <2>4
<1>8. FilesHeld'
  BY <1>1, <1>3, <1>7 DEF FilesHeld
<1> QED
  BY <1>5, <1>6, <1>8 DEF FilesInv

\* The attachments of the open question are cleared, by onDone or at its end.
LEMMA FilesCleared ==
  ASSUME TaskTypes, BackendTypes, PageTypes, TurnTypes, FilesInv, Open, Up' = Up,
         UNCHANGED <<home, spent, dropped, crossed>>,
         files' = [files EXCEPT ![turn.s] = {}], TurnStays \/ turn' = NoTurn
  PROVE  FilesInv'
<1>1. /\ turn.s \in Sessions /\ files'[turn.s] = {}
      /\ \A s \in Sessions : s # turn.s => files'[s] = files[s]
  BY OpenFacts DEF PageTypes
<1>2. Carried' = Carried /\ (TurnStays => (Open' <=> Open)) /\ (turn' = NoTurn => ~Open')
  BY NoTurnType DEF Carried, TurnStays, Open
<1>3. FilesApart'
  BY <1>1, <1>2 DEF FilesInv, FilesApart
<1>4. UploadFits'
  <2>1. Up.pc \in {"upload", "uploaded"} => Up.s \in Sessions
    BY UpFacts
  <2> QED
    BY <1>1, <2>1 DEF FilesInv, UploadFits
<1>5. ASSUME NEW f \in Files \ crossed
      PROVE  /\ home[f] # None => f \in files'[home[f]] \cup Up.copy \cup Carried \cup spent \cup dropped
             /\ f \in spent /\ home[f] # None /\ f \in files'[home[f]] => turn'.s = home[f] /\ f \in turn'.out
             /\ f \in Up.copy \cup Carried => f \notin spent
             /\ Open' /\ f \in files'[turn'.s] => f \in spent
             /\ f \in Up.copy \ Up.new => f \in files'[Up.s] \cup spent \cup dropped
  <2>1. /\ home[f] # None => f \in files[home[f]] \cup Up.copy \cup Carried \cup spent \cup dropped
        /\ f \in spent /\ home[f] # None /\ f \in files[home[f]] => turn.s = home[f] /\ f \in turn.out
        /\ f \in Up.copy \cup Carried => f \notin spent
        /\ f \in files[turn.s] => f \in spent
        /\ f \in Up.copy \ Up.new => f \in files[Up.s] \cup spent \cup dropped
    BY DEF FilesInv, FilesHeld
  <2>2. home[f] # None => home[f] \in Sessions
    BY DEF BackendTypes
  <2>3. f \in Up.copy => Up.s \in Sessions
    BY UpFacts
  <2>4. home[f] # None => f \in files'[home[f]] \cup Up.copy \cup Carried \cup spent \cup dropped
    BY <1>1, <2>1, <2>2
  <2>5. ~(f \in spent /\ home[f] # None /\ f \in files'[home[f]])
    BY <1>1, <2>1, <2>2
  <2>6. Open' => f \notin files'[turn'.s]
    BY <1>1, <1>2 DEF TurnStays
  <2>7. f \in Up.copy \ Up.new => f \in files'[Up.s] \cup spent \cup dropped
    BY <1>1, <2>1, <2>3
  <2> QED
    BY <2>1, <2>4, <2>5, <2>6, <2>7
<1>6. FilesHeld'
  BY <1>2, <1>5 DEF FilesHeld
<1> QED
  BY <1>3, <1>4, <1>6 DEF FilesInv

\* uploadFiles puts the next file with those it holds, or lists them all.
LEMMA FilesNext ==
  ASSUME TaskTypes, PageTypes, FilesInv, FilesStay, TurnStays, Up.pc = "uploaded",
         task' = [task EXCEPT !["upload"] =
           [Up EXCEPT !.pc = "upload", !.got = <<>>, !.copy = @ \cup Range(Up.got), !.new = @ \cup Range(Up.got)]]
  PROVE  FilesInv'
<1>1. Carried = Range(Up.got) /\ Carried \subseteq Files
  BY UpFacts
<1>2. Up \in TaskRecord
  BY TasksAre, TaskFacts DEF Up
<1>3. Up'.pc = "upload" /\ Up'.s = Up.s /\ Up'.copy = Up.copy \cup Carried /\ Up'.new = Up.new \cup Carried
  BY <1>1, <1>2, TasksAre DEF Up, TaskTypes, TaskRecord
<1>4. Carried' = {} /\ (Open' <=> Open)
  BY <1>3 DEF Carried, TurnStays, Open
<1>5. FilesApart'
  BY <1>3, <1>4 DEF FilesInv, FilesApart, FilesStay
<1>6. UploadFits'
  BY <1>3 DEF FilesInv, UploadFits, FilesStay
<1>7. FilesHeld'
  BY <1>3, <1>4 DEF FilesInv, FilesHeld, FilesStay, TurnStays
<1> QED
  BY <1>5, <1>6, <1>7 DEF FilesInv

LEMMA FilesSet ==
  ASSUME TaskTypes, BackendTypes, PageTypes, FilesInv, TurnStays, Up.pc = "uploaded", End("upload"),
         UNCHANGED <<home, spent, dropped>>,
         files' = [files EXCEPT ![Up.s] = Up.copy \cup Carried],
         crossed' = IF turn.s = Up.s THEN crossed \cup Up.copy \cup Carried ELSE crossed
  PROVE  FilesInv'
<1> DEFINE s == Up.s
<1>1. Carried \subseteq Files /\ Up.copy \subseteq Files /\ s \in Sessions
  BY UpFacts
<1>2. Up' = NoTask
  BY TasksAre DEF End, Up, TaskTypes
<1>3. Up'.pc = "none" /\ Up'.copy = {} /\ Up'.new = {} /\ Up'.s = None /\ Carried' = {} /\ (Open' <=> Open)
  BY <1>2 DEF NoTask, Carried, TurnStays, Open
<1>4. files'[s] = Up.copy \cup Carried /\ \A t \in Sessions : t # s => files'[t] = files[t]
  BY <1>1 DEF PageTypes
<1>5. FilesApart'
  BY <1>1, <1>3, <1>4 DEF FilesInv, FilesApart
<1>6. UploadFits'
  BY <1>3 DEF UploadFits
<1>7. ASSUME NEW f \in Files, f \notin crossed'
      PROVE  /\ home[f] # None => f \in files'[home[f]] \cup spent \cup dropped
             /\ f \in spent /\ home[f] # None /\ f \in files'[home[f]] => turn.s = home[f] /\ f \in turn.out
             /\ Open /\ f \in files'[turn.s] => f \in spent
  <2>1. f \in Files \ crossed /\ (turn.s = s => f \notin Up.copy \cup Carried)
    BY <1>7
  <2>2. /\ home[f] # None => f \in files[home[f]] \cup Up.copy \cup Carried \cup spent \cup dropped
        /\ f \in spent /\ home[f] # None /\ f \in files[home[f]] => turn.s = home[f] /\ f \in turn.out
        /\ f \in Up.copy \cup Carried => f \notin spent
        /\ Open /\ f \in files[turn.s] => f \in spent
    BY <2>1 DEF FilesInv, FilesHeld
  <2>3. /\ f \in Up.copy \cup Carried => home[f] = s
        /\ files[s] \subseteq Up.copy
    BY DEF FilesInv, FilesApart, UploadFits
  <2>4. home[f] # None => home[f] \in Sessions
    BY DEF BackendTypes
  <2>5. home[f] # None => f \in files'[home[f]] \cup spent \cup dropped
    BY <1>4, <2>2, <2>3, <2>4
  <2>6. f \in spent /\ home[f] # None /\ f \in files'[home[f]] => turn.s = home[f] /\ f \in turn.out
    BY <1>4, <2>2, <2>4
  <2>7. Open /\ f \in files'[turn.s] => f \in spent
    BY <1>4, <2>1, <2>2
  <2> QED
    BY <2>5, <2>6, <2>7
<1>8. FilesHeld'
  BY <1>3, <1>7 DEF FilesHeld, TurnStays
<1> QED
  BY <1>5, <1>6, <1>8 DEF FilesInv

\* The files of a call that fails are on the server, and nothing lists them.
LEMMA FilesLost ==
  ASSUME TaskTypes, PageTypes, FilesInv, TurnStays, Up.pc \in {"upload", "uploaded"}, End("upload"),
         UNCHANGED <<home, files, spent, crossed>>, dropped' = dropped \cup Up.new \cup Carried
  PROVE  FilesInv'
<1>1. Up' = NoTask
  BY TasksAre DEF End, Up, TaskTypes
<1>2. Up'.pc = "none" /\ Up'.copy = {} /\ Up'.new = {} /\ Up'.s = None /\ Carried' = {} /\ (Open' <=> Open)
  BY <1>1 DEF NoTask, Carried, TurnStays, Open
<1>3. FilesApart'
  BY <1>2 DEF FilesInv, FilesApart
<1>4. UploadFits'
  BY <1>2 DEF UploadFits
<1>5. \A f \in Files \ crossed : home[f] # None => f \in files[home[f]] \cup spent \cup dropped'
  <2> SUFFICES ASSUME NEW f \in Files \ crossed, home[f] # None
               PROVE  f \in files[home[f]] \cup spent \cup dropped'
    OBVIOUS
  <2>1. /\ f \in files[home[f]] \cup Up.copy \cup Carried \cup spent \cup dropped
        /\ f \in Up.copy \ Up.new => f \in files[Up.s] \cup spent \cup dropped
    BY DEF FilesInv, FilesHeld
  <2>2. f \in Up.copy => home[f] = Up.s
    BY DEF FilesInv, FilesApart
  <2> QED
    BY <2>1, <2>2
<1>6. FilesHeld'
  BY <1>2, <1>5 DEF FilesInv, FilesHeld, TurnStays
<1> QED
  BY <1>3, <1>4, <1>6 DEF FilesInv

LEMMA FilesStored ==
  ASSUME TaskTypes, BackendTypes, FilesInv, UNCHANGED <<files, spent, dropped, crossed>>, TurnStays,
         Up.pc = "upload", Up.s # None, NEW f \in Files, home[f] = None, home' = [home EXCEPT ![f] = Up.s],
         task' = [task EXCEPT !["upload"] = [Up EXCEPT !.pc = "uploaded", !.got = <<f>>]]
  PROVE  FilesInv'
<1>1. Up \in TaskRecord /\ Carried = {} /\ Up.s \in Sessions
  BY TasksAre, TaskFacts, UpFacts DEF Up
<1>2. Up'.pc = "uploaded" /\ Up'.got = <<f>> /\ Up'.s = Up.s /\ Up'.copy = Up.copy /\ Up'.new = Up.new
  BY <1>1, TasksAre DEF Up, TaskTypes, TaskRecord
<1>3. Carried' = {f} /\ (Open' <=> Open)
  BY <1>2, RangeOne DEF Carried, TurnStays, Open
<1>4. home'[f] = Up.s /\ \A g \in Files : g # f => home'[g] = home[g]
  BY DEF BackendTypes
<1>5. /\ f \notin spent /\ f \notin Up.copy /\ \A s \in Sessions : f \notin files[s]
  BY <1>1 , NoneIsNot DEF FilesInv, FilesApart
<1>6. Up.copy \subseteq Files
  BY UpFacts
<1>7. FilesApart'
  <2>1. \A g \in spent : home'[g] # None
    BY <1>1, <1>4, <1>5, NoneIsNot DEF FilesInv, FilesApart, BackendTypes
  <2>2. \A s \in Sessions : \A g \in files[s] : home'[g] = s /\ g \notin {f}
    BY <1>5 DEF FilesInv, FilesApart, BackendTypes
  <2>3. \A g \in Up.copy \cup {f} : home'[g] = Up.s
    BY <1>1, <1>4, <1>5, <1>6 DEF FilesInv, FilesApart
  <2> QED
    BY <1>2, <1>3, <2>1, <2>2, <2>3 DEF FilesInv, FilesApart
<1>8. UploadFits'
  BY <1>2 DEF FilesInv, UploadFits
<1>9. ASSUME NEW g \in Files \ crossed
      PROVE  /\ home'[g] # None => g \in files[home'[g]] \cup Up.copy \cup {f} \cup spent \cup dropped
             /\ g \in spent /\ home'[g] # None /\ g \in files[home'[g]] => turn.s = home'[g] /\ g \in turn.out
             /\ g \in Up.copy \cup {f} => g \notin spent
             /\ Open /\ g \in files[turn.s] => g \in spent
             /\ g \in Up.copy \ Up.new => g \in files[Up.s] \cup spent \cup dropped
  <2>1. /\ home[g] # None => g \in files[home[g]] \cup Up.copy \cup Carried \cup spent \cup dropped
        /\ g \in spent /\ home[g] # None /\ g \in files[home[g]] => turn.s = home[g] /\ g \in turn.out
        /\ g \in Up.copy \cup Carried => g \notin spent
        /\ Open /\ g \in files[turn.s] => g \in spent
        /\ g \in Up.copy \ Up.new => g \in files[Up.s] \cup spent \cup dropped
    BY DEF FilesInv, FilesHeld
  <2>2. CASE g = f
    BY <1>4, <1>5, <2>1, <2>2
  <2>3. CASE g # f
    BY <1>1, <1>4, <2>1, <2>3
  <2> QED
    BY <2>2, <2>3
<1>10. FilesHeld'
  BY <1>2, <1>3, <1>9 DEF FilesHeld, TurnStays
<1> QED
  BY <1>7, <1>8, <1>10 DEF FilesInv

LEMMA FilesDeleted ==
  ASSUME TaskTypes, BackendTypes, PageTypes, FilesInv, TurnStays, Up' = Up, NEW s \in Sessions,
         UNCHANGED <<home, spent, crossed>>,
         files' = [files EXCEPT ![s] = {}], dropped' = dropped \cup files[s]
  PROVE  FilesInv'
<1>1. files'[s] = {} /\ \A t \in Sessions : t # s => files'[t] = files[t]
  BY DEF PageTypes
<1>2. Carried' = Carried /\ (Open' <=> Open)
  BY DEF Carried, TurnStays, Open
<1>3. FilesApart'
  BY <1>1, <1>2 DEF FilesInv, FilesApart
<1>4. Up.pc \in {"upload", "uploaded"} => Up.s \in Sessions
  BY UpFacts
<1>5. UploadFits'
  BY <1>1, <1>4 DEF FilesInv, UploadFits
<1>6. ASSUME NEW f \in Files \ crossed
      PROVE  /\ home[f] # None => f \in files'[home[f]] \cup Up.copy \cup Carried \cup spent \cup dropped'
             /\ f \in spent /\ home[f] # None /\ f \in files'[home[f]] => turn.s = home[f] /\ f \in turn.out
             /\ f \in Up.copy \cup Carried => f \notin spent
             /\ Open /\ f \in files'[turn.s] => f \in spent
             /\ f \in Up.copy \ Up.new => f \in files'[Up.s] \cup spent \cup dropped'
  <2>1. /\ home[f] # None => f \in files[home[f]] \cup Up.copy \cup Carried \cup spent \cup dropped
        /\ f \in spent /\ home[f] # None /\ f \in files[home[f]] => turn.s = home[f] /\ f \in turn.out
        /\ f \in Up.copy \cup Carried => f \notin spent
        /\ Open /\ f \in files[turn.s] => f \in spent
        /\ f \in Up.copy \ Up.new => f \in files[Up.s] \cup spent \cup dropped
    BY DEF FilesInv, FilesHeld
  <2>2. home[f] # None => home[f] \in Sessions
    BY DEF BackendTypes
  <2>3. f \in Up.copy => Up.s \in Sessions
    BY UpFacts
  <2>4. \A t : t \in Sessions => (f \in files'[t] => f \in files[t]) /\ (f \in files[t] => f \in files'[t] \cup dropped')
    BY <1>1
  <2>5. Open /\ f \in files'[turn.s] => f \in files[turn.s]
    BY DEF PageTypes
  <2> QED
    BY <2>1, <2>2, <2>3, <2>4, <2>5
<1>7. FilesHeld'
  BY <1>2, <1>6 DEF FilesHeld, TurnStays
<1> QED
  BY <1>3, <1>5, <1>7 DEF FilesInv

\* removeAttachment takes a file off the list.
LEMMA FilesRemoved ==
  ASSUME TaskTypes, BackendTypes, PageTypes, FilesInv, TurnStays, Up' = Up, UNCHANGED <<home, dropped>>,
         NEW s \in Sessions, NEW g \in files[s],
         files' = [files EXCEPT ![s] = @ \ {g}], spent' = spent \cup {g},
         crossed' = IF g \in Up.copy THEN crossed \cup {g} ELSE crossed
  PROVE  FilesInv'
<1>1. files'[s] = files[s] \ {g} /\ \A t \in Sessions : t # s => files'[t] = files[t]
  BY DEF PageTypes
<1>2. Carried' = Carried /\ (Open' <=> Open)
  BY DEF Carried, TurnStays, Open
<1>3. home[g] = s /\ g \notin Carried /\ s # None /\ g \in Files
  BY NoneIsNot DEF FilesInv, FilesApart, PageTypes
<1>4. FilesApart'
  BY <1>1, <1>2, <1>3 DEF FilesInv, FilesApart
<1>5. Up.pc \in {"upload", "uploaded"} => Up.s \in Sessions
  BY UpFacts
<1>6. UploadFits'
  BY <1>1, <1>5 DEF FilesInv, UploadFits
<1>7. ASSUME NEW f \in Files, f \notin crossed'
      PROVE  /\ home[f] # None => f \in files'[home[f]] \cup Up.copy \cup Carried \cup spent' \cup dropped
             /\ f \in spent' /\ home[f] # None /\ f \in files'[home[f]] => turn.s = home[f] /\ f \in turn.out
             /\ f \in Up.copy \cup Carried => f \notin spent'
             /\ Open /\ f \in files'[turn.s] => f \in spent'
             /\ f \in Up.copy \ Up.new => f \in files'[Up.s] \cup spent' \cup dropped
  <2>0. f \in Files \ crossed /\ (f = g => f \notin Up.copy)
    BY <1>7
  <2>1. /\ home[f] # None => f \in files[home[f]] \cup Up.copy \cup Carried \cup spent \cup dropped
        /\ f \in spent /\ home[f] # None /\ f \in files[home[f]] => turn.s = home[f] /\ f \in turn.out
        /\ f \in Up.copy \cup Carried => f \notin spent
        /\ Open /\ f \in files[turn.s] => f \in spent
        /\ f \in Up.copy \ Up.new => f \in files[Up.s] \cup spent \cup dropped
    BY <2>0 DEF FilesInv, FilesHeld
  <2>2. CASE f = g
    <3>1. f \notin files'[home[f]] /\ f \in spent' /\ f \notin Up.copy \cup Carried
      BY <1>1, <1>3, <2>0, <2>2
    <3> QED
      BY <3>1
  <2>3. CASE f # g
    <3>1. \A t : f \in files'[t] <=> f \in files[t]
      BY <2>3 DEF PageTypes
    <3> QED
      BY <2>1, <2>3, <3>1
  <2> QED
    BY <2>2, <2>3
<1>8. FilesHeld'
  BY <1>2, <1>7 DEF FilesHeld, TurnStays
<1> QED
  BY <1>4, <1>6, <1>8 DEF FilesInv

\* No step loses a file or brings one back.
LEMMA FilesStep ==
  ASSUME Base, FilesInv, [Next]_vars
  PROVE  FilesInv'
<1>1. CASE UNCHANGED <<home, files, task, turn, spent, dropped, crossed>>
  BY <1>1, FilesKept DEF FilesStay, TurnStays, Up
<1>2. ASSUME NEW p \in Tasks, ServeList(p)
     PROVE  FilesInv'
  <2>1. p # "upload"
    BY <1>2, TasksAre, UpFacts DEF ServeList, At, Up, Base
  <2>2. FilesStay /\ TurnStays
    BY <1>2
       DEF ServeList, LetGo, FilesStay, TurnStays, Base, TurnTypes, TurnRecord, backend,
           history
  <2>3. Up' = Up
    BY <1>2, <2>1, TasksAre DEF ServeList, End, Run, LoadMessages, Up, Base, TaskTypes
  <2> QED
    BY <2>2, <2>3, FilesKept
<1>3. ASSUME NEW p \in Tasks, ServeStart(p)
     PROVE  FilesInv'
  <2>1. FilesStay /\ TurnStays
    BY <1>3 DEF ServeStart, FilesStay, TurnStays, backend, history
  <2>2. CASE p # "upload"
    <3>1. Up' = Up
      BY <1>3, <2>2, TasksAre DEF ServeStart, LoadMessages, Up, Base, TaskTypes
    <3> QED
      BY <2>1, <3>1, FilesKept
  <2>3. CASE p = "upload"
    <3>1. PICK s \in Sessions : /\ IF Up.s = None THEN status[s] = "new" ELSE s = Up.s
                               /\ task' = [task EXCEPT !["upload"] = [@ EXCEPT !.pc = "started", !.s = s]]
      BY <1>3, <2>3 DEF ServeStart, Up
    <3>2. Up \in TaskRecord /\ Up.pc = "start"
      BY <1>3, <2>3, TasksAre, TaskFacts DEF ServeStart, At, Up, Base
    <3>3. Up'.pc = "started" /\ Up'.s = s /\ Up'.copy = Up.copy /\ Up'.new = Up.new
      BY <3>1, <3>2, TasksAre DEF Up, Base, TaskTypes, TaskRecord
    <3>4. \A f \in Files : home[f] # s
      <4>1. CASE Up.s = None
        BY <3>1, <4>1, NoneIsNot DEF Base, BackendTypes, Known
      <4>2. CASE Up.s # None
        BY <3>1, <3>2, <4>2 DEF FilesInv, UploadFits
      <4> QED
        BY <4>1, <4>2
    <3> QED
      BY <2>1, <3>2, <3>3, <3>4, UpFacts, FilesIdle DEF Base
  <2> QED
    BY <2>2, <2>3
<1>4. ASSUME NEW p \in Tasks, ServeLoad(p)
     PROVE  FilesInv'
  <2>1. FilesStay /\ TurnStays
    BY <1>4 DEF ServeLoad, FilesStay, TurnStays, backend, history
  <2>2. CASE p # "upload"
    <3>1. Up' = Up
      BY <1>4, <2>2, TasksAre DEF ServeLoad, LoadMessages, Up, Base, TaskTypes
    <3> QED
      BY <2>1, <3>1, FilesKept
  <2>3. CASE p = "upload"
    <3>1. Up \in TaskRecord /\ Up.pc = "load"
      BY <1>4, <2>3, TasksAre, TaskFacts DEF ServeLoad, At, Up, Base
    <3>2. Up'.pc = "loaded" /\ Up'.s = Up.s /\ Up'.copy = Up.copy /\ Up'.new = Up.new
      BY <1>4, <2>3, <3>1, TasksAre DEF ServeLoad, Up, Base, TaskTypes, TaskRecord
    <3>3. Up'.s # None => \A f \in Files : home[f] # Up'.s
      BY <3>1, <3>2 DEF FilesInv, UploadFits
    <3> QED
      BY <2>1, <3>1, <3>2, <3>3, UpFacts, FilesIdle DEF Base
  <2> QED
    BY <2>2, <2>3
<1>5. ASSUME NEW p \in Tasks, ServeDelete(p)
     PROVE  FilesInv'
  <2>1. p # "upload"
    BY <1>5, TasksAre, UpFacts DEF ServeDelete, At, Up, Base
  <2>2. FilesStay /\ TurnStays
    BY <1>5
       DEF ServeDelete, LetGo, FilesStay, TurnStays, Base, TurnTypes, TurnRecord, backend,
           history
  <2>3. Up' = Up
    BY <1>5, <2>1, TasksAre DEF ServeDelete, End, Run, LoadMessages, Up, Base, TaskTypes
  <2> QED
    BY <2>2, <2>3, FilesKept
<1>6. ASSUME NEW p \in Tasks, ServeUpload(p)
     PROVE  FilesInv'
  <2>1. p = "upload" /\ Up.pc = "upload" /\ Up.s # None
    BY <1>6, TaskFacts DEF ServeUpload, At, Here, Fits, Up, Base
  <2>2. PICK f \in Files : /\ home[f] = None
                           /\ home' = [home EXCEPT ![f] = Up.s]
                           /\ task' = [task EXCEPT !["upload"] = [Up EXCEPT !.pc = "uploaded", !.got = <<f>>]]
    BY <1>6, <2>1 DEF ServeUpload, Up
  <2>3. UNCHANGED <<files, spent, dropped, crossed>> /\ TurnStays
    BY <1>6 DEF ServeUpload, TurnStays, history
  <2> QED
    BY <2>1, <2>2, <2>3, FilesStored DEF Base
<1>7. ASSUME NEW p \in Tasks, Started(p)
     PROVE  FilesInv'
  <2>1. FilesStay /\ TurnStays
    BY <1>7 DEF Started, FilesStay, TurnStays, backend, history
  <2>2. CASE p # "upload"
    <3>1. Up' = Up
      BY <1>7, <2>2, TasksAre DEF Started, LoadMessages, Up, Base, TaskTypes
    <3> QED
      BY <2>1, <3>1, FilesKept
  <2>3. CASE p = "upload"
    <3>1. Up \in TaskRecord /\ Up.pc = "started"
      BY <1>7, <2>3, TasksAre, TaskFacts DEF Started, At, Up, Base
    <3>2. Up'.pc = "load" /\ Up'.s = Up.s /\ Up'.copy = Up.copy /\ Up'.new = Up.new
      BY <1>7, <2>3, <3>1, TasksAre DEF Started, LoadMessages, Up, Base, TaskTypes, TaskRecord
    <3>3. Up'.s # None => \A f \in Files : home[f] # Up'.s
      BY <3>1, <3>2 DEF FilesInv, UploadFits
    <3> QED
      BY <2>1, <3>1, <3>2, <3>3, UpFacts, FilesIdle DEF Base
  <2> QED
    BY <2>2, <2>3
<1>8. ASSUME NEW p \in Tasks, Listed(p)
     PROVE  FilesInv'
  <2>1. p # "upload"
    BY <1>8, TasksAre, UpFacts DEF Listed, At, Up, Base
  <2>2. FilesStay /\ TurnStays
    BY <1>8
       DEF Listed, LetGo, FilesStay, TurnStays, Base, TurnTypes, TurnRecord, backend, history
  <2>3. Up' = Up
    BY <1>8, <2>1, TasksAre DEF Listed, End, Run, LoadMessages, Up, Base, TaskTypes
  <2> QED
    BY <2>2, <2>3, FilesKept
<1>9. ASSUME NEW p \in Tasks, Deleted(p)
     PROVE  FilesInv'
  <2>1. p # "upload" /\ task[p].s \in Sessions
    BY <1>9, TasksAre, UpFacts, TaskFacts DEF Deleted, At, Up, Base, Fits, Known
  <2>2. TurnStays
    BY <1>9 DEF Deleted, LetGo, TurnStays, Base, TurnTypes, TurnRecord
  <2>3. Up' = Up
    BY <1>9, <2>1, TasksAre DEF Deleted, End, LoadMessages, Up, Base, TaskTypes
  <2> QED
    BY <1>9, <2>1, <2>2, <2>3, FilesDeleted DEF Deleted, Base, backend
<1>10. ASSUME NEW p \in Tasks, Loaded(p)
     PROVE  FilesInv'
  <2>1. p # "upload"
    BY <1>10, TasksAre, UpFacts DEF Loaded, At, Up, Base
  <2>2. FilesStay /\ TurnStays
    BY <1>10
       DEF Loaded, LetGo, FilesStay, TurnStays, Base, TurnTypes, TurnRecord, backend, history
  <2>3. Up' = Up
    BY <1>10, <2>1, TasksAre DEF Loaded, End, Run, LoadMessages, Up, Base, TaskTypes
  <2> QED
    BY <2>2, <2>3, FilesKept
<1>11. ASSUME NEW p \in Tasks, TokensFetched(p)
     PROVE  FilesInv'
  <2>1. p # "upload"
    BY <1>11, TasksAre, UpFacts DEF TokensFetched, At, Up, Base
  <2>2. FilesStay /\ TurnStays
    BY <1>11
       DEF TokensFetched, LetGo, FilesStay, TurnStays, Base, TurnTypes, TurnRecord, backend,
           history
  <2>3. Up' = Up
    BY <1>11, <2>1, TasksAre DEF TokensFetched, End, Run, LoadMessages, Up, Base, TaskTypes
  <2> QED
    BY <2>2, <2>3, FilesKept
<1>12. ASSUME NEW p \in Tasks, CallFails(p)
     PROVE  FilesInv'
  <2>1. UNCHANGED <<home, files, spent, crossed>> /\ TurnStays /\ End(p)
    BY <1>12 DEF CallFails, TurnStays, backend
  <2>2. CASE p # "upload"
    <3>1. Up' = Up
      BY <2>1, <2>2, TasksAre DEF End, Up, Base, TaskTypes
    <3>2. ~(task[p].op = "upload" /\ task[p].pc \in {"upload", "uploaded"})
      BY <2>2, TaskFacts DEF Base, Fits
    <3>3. dropped' = dropped
      BY <1>12, <3>2 DEF CallFails
    <3> QED
      BY <2>1, <3>1, <3>3, FilesKept DEF FilesStay
  <2>3. CASE p = "upload" /\ Up.pc \notin {"upload", "uploaded"}
    <3>1. dropped' = dropped
      BY <1>12, <2>3 DEF CallFails, Up
    <3>2. Up'.pc = "none" /\ Up'.copy = {} /\ Up'.new = {} /\ Up'.s = None
      BY <2>1, <2>3, TasksAre DEF End, NoTask, Up, Base, TaskTypes
    <3> QED
      BY <2>1, <2>3, <3>1, <3>2, FilesIdle DEF FilesStay, Base
  <2>4. CASE p = "upload" /\ Up.pc \in {"upload", "uploaded"}
    <3>1. Up.op = "upload" /\ (Up.pc = "upload" => Up.got = <<>>)
      BY <2>4, TasksAre, TaskFacts DEF Base, Fits, Up
    <3>2. dropped' = dropped \cup Up.new \cup Range(Up.got)
      BY <1>12, <2>4, <3>1 DEF CallFails, Up
    <3>3. dropped' = dropped \cup Up.new \cup Carried
      BY <2>4, <3>1, <3>2, EmptyRange DEF Carried
    <3> QED
      BY <2>1, <2>4, <3>3, FilesLost DEF Base
  <2> QED
    BY <2>2, <2>3, <2>4
<1>13. ASSUME NEW n \in Turns, ServeAck(n)
     PROVE  FilesInv'
  <2>1. TurnStays
    BY <1>13 DEF ServeAck, Emit, TurnStays, Base, TurnTypes, TurnRecord
  <2>2. FilesStay /\ Up' = Up
    BY <1>13 DEF ServeAck, FilesStay, Up, backend, history
  <2> QED
    BY <2>1, <2>2, FilesKept
<1>14. ASSUME NEW n \in Turns, ServeChunk(n)
     PROVE  FilesInv'
  <2>1. TurnStays
    BY <1>14 DEF ServeChunk, Emit, TurnStays, Base, TurnTypes, TurnRecord
  <2>2. FilesStay /\ Up' = Up
    BY <1>14 DEF ServeChunk, FilesStay, Up, backend, history
  <2> QED
    BY <2>1, <2>2, FilesKept
<1>15. ASSUME NEW n \in Turns, ServeDone(n)
     PROVE  FilesInv'
  <2>1. TurnStays
    BY <1>15 DEF ServeDone, Emit, TurnStays, Base, TurnTypes, TurnRecord
  <2>2. FilesStay /\ Up' = Up
    BY <1>15 DEF ServeDone, FilesStay, Up, backend, history
  <2> QED
    BY <2>1, <2>2, FilesKept
<1>16. ASSUME NEW n \in Turns, ServeError(n)
     PROVE  FilesInv'
  <2>1. TurnStays
    BY <1>16 DEF ServeError, Emit, TurnStays, Base, TurnTypes, TurnRecord
  <2>2. FilesStay /\ Up' = Up
    BY <1>16 DEF ServeError, FilesStay, Up, backend, history
  <2> QED
    BY <2>1, <2>2, FilesKept
<1>17. ASSUME NEW p \in Clicks, CreateSession(p)
     PROVE  FilesInv'
  <2>1. p # "upload"
    BY TasksAre
  <2>2. FilesStay /\ TurnStays
    BY <1>17
       DEF CreateSession, LetGo, FilesStay, TurnStays, Base, TurnTypes, TurnRecord, backend,
           history
  <2>3. Up' = Up
    BY <1>17, <2>1, TasksAre DEF CreateSession, End, Run, LoadMessages, Up, Base, TaskTypes
  <2> QED
    BY <2>2, <2>3, FilesKept
<1>18. ASSUME NEW p \in Clicks, NEW s \in Sessions, ResumeSession(p, s)
     PROVE  FilesInv'
  <2>1. p # "upload"
    BY TasksAre
  <2>2. FilesStay /\ TurnStays
    BY <1>18
       DEF ResumeSession, LetGo, FilesStay, TurnStays, Base, TurnTypes, TurnRecord, backend,
           history
  <2>3. Up' = Up
    BY <1>18, <2>1, TasksAre DEF ResumeSession, End, Run, LoadMessages, Up, Base, TaskTypes
  <2> QED
    BY <2>2, <2>3, FilesKept
<1>19. ASSUME NEW p \in Clicks, NEW s \in Sessions, RemoveSession(p, s)
     PROVE  FilesInv'
  <2>1. p # "upload"
    BY TasksAre
  <2>2. FilesStay /\ TurnStays
    BY <1>19
       DEF RemoveSession, LetGo, FilesStay, TurnStays, Base, TurnTypes, TurnRecord, backend,
           history
  <2>3. Up' = Up
    BY <1>19, <2>1, TasksAre DEF RemoveSession, End, Run, LoadMessages, Up, Base, TaskTypes
  <2> QED
    BY <2>2, <2>3, FilesKept
<1>20. ASSUME SendMessage
     PROVE  FilesInv'
  <2>1. CASE current = None
    <3>1. FilesStay /\ TurnStays
      BY <1>20, <2>1 DEF SendMessage, FilesStay, TurnStays, history
    <3>2. Up' = Up
      BY <1>20, <2>1, TasksAre, ChatStoreAssumption DEF SendMessage, Run, Up, Base, TaskTypes
    <3> QED
      BY <3>1, <3>2, FilesKept
  <2>2. CASE current # None
    <3>1. current \in Sessions /\ ~Open
      BY <1>20, <2>2 DEF SendMessage, Base, BarTypes, Known, SendingLocks
    <3>2. /\ BeginStream(current, EnsureMessageList(current))
          /\ UNCHANGED <<home, files, dropped>> /\ Up' = Up
      BY <1>20, <2>2 DEF SendMessage, Up
    <3> QED
      BY <3>1, <3>2, FilesSent DEF Base
  <2> QED
    BY <2>1, <2>2
<1>21. ASSUME SendLoaded
     PROVE  FilesInv'
  <2>1. task["send"].s \in Sessions /\ ~Open
    BY <1>21, TasksAre, TaskFacts DEF SendLoaded, At, Free, Fits, Known, Base, SendingLocks
  <2>2. Up' = Up
    BY <1>21, TasksAre DEF SendLoaded, End, Up, Base, TaskTypes
  <2>3. BeginStream(task["send"].s, task["send"].got) /\ UNCHANGED <<home, files, dropped>>
    BY <1>21 DEF SendLoaded
  <2> QED
    BY <2>1, <2>2, <2>3, FilesSent DEF Base
<1>22. ASSUME OnAck
     PROVE  FilesInv'
  <2>1. TurnStays
    BY <1>22 DEF OnAck, Update, TurnStays, Base, TurnTypes, TurnRecord
  <2>2. FilesStay /\ Up' = Up
    BY <1>22 DEF OnAck, FilesStay, Up, backend, history
  <2> QED
    BY <2>1, <2>2, FilesKept
<1>23. ASSUME OnStream
     PROVE  FilesInv'
  <2>1. TurnStays
    BY <1>23 DEF OnStream, Update, TurnStays, Base, TurnTypes, TurnRecord
  <2>2. FilesStay /\ Up' = Up
    BY <1>23 DEF OnStream, FilesStay, Up, backend, history
  <2> QED
    BY <2>1, <2>2, FilesKept
<1>24. ASSUME OnDone
     PROVE  FilesInv'
  <2>1. TurnStays
    BY <1>24 DEF OnDone, Update, TurnStays, Base, TurnTypes, TurnRecord
  <2>2. /\ UNCHANGED <<home, spent, dropped, crossed>> /\ Up' = Up /\ Open
        /\ files' = [files EXCEPT ![turn.s] = {}]
    BY <1>24 DEF OnDone, Reads, Up, backend, history
  <2> QED
    BY <2>1, <2>2, FilesCleared DEF Base
<1>25. ASSUME OnError
     PROVE  FilesInv'
  BY <1>25, FilesCleared DEF OnError, Throws, Finally, Reads, Up, Base, backend, history
<1>26. ASSUME StreamEnd
     PROVE  FilesInv'
  BY <1>26, FilesCleared DEF StreamEnd, Finally, Reads, Up, Base, backend, history
<1>27. ASSUME StreamBreaks
     PROVE  FilesInv'
  BY <1>27, FilesCleared DEF StreamBreaks, Throws, Finally, Reads, Up, Base, backend, history
<1>28. ASSUME UploadFiles
     PROVE  FilesInv'
  <2>1. /\ Up.pc \notin {"upload", "uploaded"} /\ FilesStay /\ TurnStays /\ ~Open
    BY <1>28, TasksAre, TaskFacts
       DEF UploadFiles, Free, Up, Base, Fits, FilesStay, TurnStays, SendingLocks, backend,
           history
  <2>2. CASE current = None
    <3>1. Up'.pc = "start" /\ Up'.copy = {} /\ Up'.new = {} /\ Up'.s = None
      BY <1>28, <2>2, TasksAre DEF UploadFiles, Run, NoTask, Up, Base, TaskTypes
    <3> QED
      BY <2>1, <3>1, FilesIdle DEF Base
  <2>3. CASE current # None
    <3>1. current \in Sessions /\ BeginUpload(current) /\ turn.s # current
      BY <1>28, <2>1, <2>3, NoTurnType DEF UploadFiles, Base, BarTypes, Known, TurnTypes
    <3> QED
      BY <2>1, <3>1, FilesBegin DEF Base
  <2> QED
    BY <2>2, <2>3
<1>29. ASSUME UploadLoaded
     PROVE  FilesInv'
  <2>1. FilesStay /\ Up.pc = "loaded" /\ Up.s \in Sessions /\ Up.s # None /\ BeginUpload(Up.s)
    BY <1>29, TasksAre, TaskFacts
       DEF UploadLoaded, At, Fits, Known, Up, Base, FilesStay, backend, history
  <2>2. TurnStays
    BY <1>29 DEF UploadLoaded, LetGo, TurnStays, Base, TurnTypes, TurnRecord
  <2>3. \A f \in files[Up.s] : f \in Files /\ home[f] = Up.s
    BY <2>1 DEF FilesInv, FilesApart, Base, PageTypes
  <2>4. files[Up.s] = {}
    BY <2>1, <2>3 DEF FilesInv, UploadFits
  <2> QED
    BY <2>1, <2>2, <2>4, FilesBegin DEF Base
<1>30. ASSUME Uploaded
     PROVE  FilesInv'
  <2>1. Up.pc = "uploaded" /\ Carried = Range(Up.got) /\ TurnStays
    BY <1>30, UpFacts DEF Uploaded, At, Up, Base, TurnStays
  <2>2. CASE /\ task' = [task EXCEPT !["upload"] =
                  [Up EXCEPT !.pc = "upload", !.got = <<>>, !.copy = @ \cup Range(Up.got), !.new = @ \cup Range(Up.got)]]
             /\ UNCHANGED <<files, crossed>>
    <3>1. FilesStay
      BY <1>30, <2>2 DEF Uploaded, FilesStay, backend
    <3> QED
      BY <2>1, <2>2, <3>1, FilesNext DEF Base
  <2>3. CASE /\ files' = [files EXCEPT ![Up.s] = Up.copy \cup Range(Up.got)]
             /\ crossed' = IF turn.s = Up.s THEN crossed \cup Up.copy \cup Range(Up.got) ELSE crossed
             /\ End("upload")
    <3>1. UNCHANGED <<home, spent, dropped>>
      BY <1>30 DEF Uploaded, backend
    <3> QED
      BY <2>1, <2>3, <3>1, FilesSet DEF Base
  <2> QED
    BY <1>30, <2>2, <2>3 DEF Uploaded, Up
<1>31. ASSUME NEW f \in Files, RemoveAttachment(f)
     PROVE  FilesInv'
  <2>1. current \in Sessions
    BY <1>31 DEF RemoveAttachment, Base, BarTypes, Known
  <2>2. TurnStays /\ Up' = Up /\ UNCHANGED <<home, dropped>>
    BY <1>31 DEF RemoveAttachment, TurnStays, Up, backend
  <2>3. /\ f \in files[current] /\ files' = [files EXCEPT ![current] = @ \ {f}] /\ spent' = spent \cup {f}
        /\ crossed' = IF f \in Up.copy THEN crossed \cup {f} ELSE crossed
    BY <1>31 DEF RemoveAttachment, Up
  <2> QED
    BY <2>1, <2>2, <2>3, FilesRemoved DEF Base
<1>32. CASE UNCHANGED vars
  BY <1>32, <1>1 DEF vars, backend, history
<1>start. ASSUME NEW p \in Tasks, StartLost(p)
     PROVE  FilesInv'
  <2>1. FilesStay /\ TurnStays
    BY <1>start DEF StartLost, FilesStay, TurnStays, backend, history
  <2>2. CASE p # "upload"
    <3>1. Up' = Up
      BY <1>start, <2>2, TasksAre DEF StartLost, Up, Base, TaskTypes
    <3> QED
      BY <2>1, <3>1, FilesKept
  <2>3. CASE p = "upload"
    <3>1. Up \in TaskRecord /\ Up.pc = "start"
      BY <1>start, <2>3, TasksAre, TaskFacts DEF StartLost, At, Up, Base
    <3>2. Up'.pc = "lost" /\ Up'.s = Up.s /\ Up'.copy = Up.copy /\ Up'.new = Up.new
      BY <1>start, <2>3, <3>1, TasksAre DEF StartLost, Up, Base, TaskTypes, TaskRecord
    <3>3. Up'.s # None => \A f \in Files : home[f] # Up'.s
      BY <3>1, <3>2 DEF FilesInv, UploadFits
    <3> QED
      BY <2>1, <3>1, <3>2, <3>3, UpFacts, FilesIdle DEF Base
  <2> QED
    BY <2>2, <2>3
<1>lost. ASSUME NEW n \in Turns, ServeLost(n)
     PROVE  FilesInv'
  <2>1. TurnStays
    BY <1>lost DEF ServeLost, TurnStays
  <2>2. FilesStay /\ Up' = Up
    BY <1>lost DEF ServeLost, FilesStay, Up, backend, history
  <2> QED
    BY <2>1, <2>2, FilesKept
<1> QED
  BY <1>start, <1>lost, <1>1, <1>2, <1>3, <1>4, <1>5, <1>6, <1>7, <1>8, <1>9, <1>10, <1>11, <1>12, <1>13,
     <1>14, <1>15, <1>16, <1>17, <1>18, <1>19, <1>20, <1>21, <1>22, <1>23, <1>24, <1>25,
     <1>26, <1>27, <1>28, <1>29, <1>30, <1>31, <1>32 DEF Next, Answer, ServeQuestion, ReadStream

LEMMA FilesInit == Init => FilesInv
<1> SUFFICES ASSUME Init PROVE FilesInv
  OBVIOUS
<1>1. Base /\ ~Open
  BY BaseInit, NoTurnType DEF Init, Open
<1>2. Up = NoTask
  BY TasksAre DEF Init, Up
<1>3. Up.pc = "none" /\ Up.copy = {} /\ Up.new = {} /\ Carried = {}
  BY <1>2 DEF NoTask, Carried
<1>4. home = [f \in Files |-> None] /\ files = [s \in Sessions |-> {}] /\ spent = {}
  BY DEF Init
<1> QED
  BY <1>1, <1>3, <1>4 DEF FilesInv, FilesApart, UploadFits, FilesHeld

LEMMA FilesAreTracked == FilesInv => FilesTracked
<1> SUFFICES ASSUME FilesInv PROVE FilesTracked
  OBVIOUS
<1>1. Carried \subseteq Range(task["upload"].got)
  BY DEF Carried, Up
<1> QED
  BY <1>1 DEF FilesInv, FilesHeld, FilesTracked, Up

\* An uploaded file is listed, at work, sent, removed or lost with its batch or
\* session, and none that was sent or removed comes back, unless a send or a
\* removal crossed its upload.
THEOREM ChatStoreFilesTracked == Spec => []FilesTracked
<1>1. Base /\ FilesInv /\ [Next]_vars => FilesInv'
  BY FilesStep
<1> QED
  BY FilesInit, <1>1, ChatStoreBase, FilesAreTracked, PTL DEF Spec

-----------------------------------------------------------------------------
(* What is shown is what is stored. *)

AckNext(E)  == E # <<>> /\ E[1] = "ack"
Answered(E) == \E i \in DOMAIN E : E[i] \in {"done", "titled"}

\* How the list L a send holds differs from the list D in the database: by what
\* the page has still to read, and by the draft, which stands last.
Mirrors(L, D, k, E, pc, n) ==
  /\ pc = "asked" => D = L /\ k = 0
  /\ pc = "acked" =>
       /\ AckNext(E) => D = Append(L, <<n, "user">>) /\ k = 0
       /\ ~AckNext(E) /\ k = 0 => D = L
       /\ ~AckNext(E) /\ k # 0 => L = Append(D, <<n, "temp">>) /\ k = Len(L)
  /\ Answered(E) =>
       /\ AckNext(E) => D = Append(Append(L, <<n, "user">>), <<n, "ai">>) /\ k = 0
       /\ ~AckNext(E) /\ k = 0 => D = Append(L, <<n, "ai">>)
       /\ ~AckNext(E) /\ k # 0 => k = Len(L) /\ D = Replaced(L, k, <<n, "ai">>)
  /\ E # <<>> /\ E[1] = "end" => D = L
  /\ \A j \in DOMAIN E : E[j] = "end" /\ j # 1 => E[j - 1] \in {"done", "titled"}

\* The backend is still to answer question n, which is about session s.
Waits(n, s) == served[n].pc \in {"asked", "acked"} /\ served[n].s = s

\* A load and a question of one session do not overlap; what a load has brought
\* is what is stored; the open question is the only one at work.
LoadsAgree(s) ==
  /\ Loading(s) => ~Asking(s)
  /\ \A p \in Tasks : At(p, "loaded") /\ task[p].s = s => task[p].got = stored[s]
  /\ \A n \in Turns : Waits(n, s) => turn.n = n

ShownAgrees(s) ==
  /\ shown[s] # None /\ ~Asking(s) /\ ~Loading(s) => shown[s] = stored[s]
  /\ current = s => Loading(s) \/ shown[s] # None
  /\ turn.s = s => /\ turn.held
                   /\ Mirrors(shown[s], stored[s], turn.temp, turn.events, served[turn.n].pc, turn.n)

Agrees(s) ==
  /\ LoadsAgree(s)
  /\ status[s] = "here" => ShownAgrees(s)
  /\ status[s] = "new" => stored[s] = <<>>

StoredInv == \A s \in Sessions \ astray : Agrees(s)

LEMMA ReplaceLast ==
  ASSUME NEW D \in Seq(Notes), NEW n \in Turns
  PROVE  /\ Len(Append(D, <<n, "temp">>)) = Len(D) + 1 /\ Len(D) + 1 # 0
         /\ Replaced(Append(D, <<n, "temp">>), Len(D) + 1, <<n, "ai">>) = Append(D, <<n, "ai">>)
<1> DEFINE L == Append(D, <<n, "temp">>)
           A == Append(D, <<n, "ai">>)
           R == Replaced(L, Len(D) + 1, <<n, "ai">>)
<1>0. Len(D) \in Nat /\ DOMAIN D = 1..Len(D) /\ "temp" \in Roles /\ "ai" \in Roles
  BY DEF Roles
<1>1. /\ DOMAIN L = 1..(Len(D) + 1) /\ Len(L) = Len(D) + 1
      /\ L \in Seq(Notes) /\ \A i \in DOMAIN D : L[i] = D[i]
  BY <1>0, AppendNote
<1>2. /\ DOMAIN A = 1..(Len(D) + 1) /\ A[Len(D) + 1] = <<n, "ai">> /\ A \in Seq(Notes)
      /\ \A i \in DOMAIN D : A[i] = D[i] /\ Len(A) = Len(D) + 1
  BY AppendNote DEF Roles
<1>3. R \in Seq(Notes) /\ Len(R) = Len(D) + 1
  BY <1>1, ReplaceNote DEF Roles
<1>4. \A i \in 1..(Len(D) + 1) : R[i] = IF i = Len(D) + 1 THEN <<n, "ai">> ELSE L[i]
  BY <1>1 DEF Replaced
<1> HIDE DEF L, A, R
<1>10. \A i \in 1..(Len(D) + 1) : i \in DOMAIN D \/ i = Len(D) + 1
  BY <1>0
<1>5. \A i \in 1..(Len(D) + 1) : R[i] = A[i]
  <2> SUFFICES ASSUME NEW i \in 1..(Len(D) + 1) PROVE R[i] = A[i]
    OBVIOUS
  <2>1. CASE i = Len(D) + 1
    BY <1>2, <1>4, <2>1
  <2>2. CASE i # Len(D) + 1
    BY <1>1, <1>2, <1>4, <1>10, <2>2
  <2> QED
    BY <2>1, <2>2
<1>6. Len(A) = Len(D) + 1
  BY <1>2
<1>7. R = A
  BY <1>2, <1>3, <1>5, <1>6
<1>8. Len(L) = Len(D) + 1 /\ Len(D) + 1 # 0
  BY <1>0, <1>1
<1> QED
  BY <1>7, <1>8 DEF L, A, R

\* The backend's steps ...
LEMMA MirrorsAck ==
  ASSUME NEW L, NEW D, NEW k, NEW n, Mirrors(L, D, k, <<>>, "asked", n)
  PROVE  Mirrors(L, Append(D, <<n, "user">>), k, <<"ack">>, "acked", n)
<1>1. DOMAIN <<"ack">> = {1} /\ <<"ack">>[1] = "ack" /\ <<"ack">> # <<>>
  OBVIOUS
<1>2. D = L /\ k = 0
  BY DEF Mirrors
<1>3. AckNext(<<"ack">>) /\ ~Answered(<<"ack">>)
  BY <1>1 DEF AckNext, Answered
<1> QED
  BY <1>1, <1>2, <1>3 DEF Mirrors

LEMMA MirrorsChunk ==
  ASSUME NEW L, NEW D, NEW k, NEW n, NEW E \in Seq(Events), EventsFit(E, "acked"),
         Mirrors(L, D, k, E, "acked", n)
  PROVE  Mirrors(L, D, k, E \o <<"stream">>, "acked", n)
<1> DEFINE F == E \o <<"stream">>
<1>1. /\ Len(E) \in Nat /\ DOMAIN E = 1..Len(E) /\ DOMAIN F = 1..(Len(E) + 1) /\ F[Len(E) + 1] = "stream"
      /\ \A i \in DOMAIN E : F[i] = E[i] /\ E[i] \in {"ack", "stream"}
      /\ F # <<>> /\ (E = <<>> => Len(E) = 0) /\ (E # <<>> => 1 \in DOMAIN E)
  BY OneMore DEF Events, EventsFit
<1> HIDE DEF F
<1>2. \A i \in DOMAIN F : F[i] \in {"ack", "stream"}
  BY <1>1
<1>3. AckNext(F) <=> AckNext(E)
  BY <1>1 DEF AckNext
<1>4. ~Answered(F)
  BY <1>2 DEF Answered
<1>5. 1 \in DOMAIN F
  BY <1>1
<1>6. Mirrors(L, D, k, F, "acked", n)
  BY <1>2, <1>3, <1>4, <1>5 DEF Mirrors
<1> QED
  BY <1>6 DEF F

LEMMA MirrorsDone ==
  ASSUME NEW L \in Seq(Notes), NEW D \in Seq(Notes), NEW k, NEW n \in Turns, NEW E \in Seq(Events),
         NEW d \in {"done", "titled"}, EventsFit(E, "acked"), Mirrors(L, D, k, E, "acked", n)
  PROVE  Mirrors(L, Append(D, <<n, "ai">>), k, E \o <<d, "end">>, "over", n)
<1> DEFINE F == E \o <<d, "end">>
<1>1. /\ Len(E) \in Nat /\ DOMAIN E = 1..Len(E) /\ DOMAIN F = 1..(Len(E) + 2)
      /\ F[Len(E) + 1] = d /\ F[Len(E) + 2] = "end"
      /\ \A i \in DOMAIN E : F[i] = E[i] /\ E[i] \in {"ack", "stream"}
      /\ F # <<>> /\ (E = <<>> => Len(E) = 0) /\ (E # <<>> => 1 \in DOMAIN E)
  BY TwoMore DEF Events, EventsFit
<1> HIDE DEF F
<1>2. AckNext(F) <=> AckNext(E)
  BY <1>1 DEF AckNext
<1>3. F[1] # "end"
  BY <1>1
<1>4. \A j \in DOMAIN F : F[j] = "end" /\ j # 1 => F[j - 1] \in {"done", "titled"}
  <2> SUFFICES ASSUME NEW j \in DOMAIN F, F[j] = "end" PROVE F[j - 1] \in {"done", "titled"}
    OBVIOUS
  <2>1. j = Len(E) + 2
    BY <1>1
  <2>2. j - 1 = Len(E) + 1
    BY <1>1, <2>1
  <2> QED
    BY <1>1, <2>2
<1>5. /\ AckNext(E) => D = Append(L, <<n, "user">>) /\ k = 0
      /\ ~AckNext(E) /\ k = 0 => D = L
      /\ ~AckNext(E) /\ k # 0 => L = Append(D, <<n, "temp">>) /\ k = Len(L)
  BY DEF Mirrors
<1>6. ~AckNext(E) /\ k # 0 => k = Len(L) /\ Append(D, <<n, "ai">>) = Replaced(L, k, <<n, "ai">>)
  BY <1>5, ReplaceLast
<1>7. Mirrors(L, Append(D, <<n, "ai">>), k, F, "over", n)
  BY <1>2, <1>3, <1>4, <1>5, <1>6 DEF Mirrors
<1> QED
  BY <1>7 DEF F

LEMMA MirrorsError ==
  ASSUME NEW L, NEW D, NEW k, NEW n, NEW E \in Seq(Events), NEW pc \in {"asked", "acked"}, EventsFit(E, pc)
  PROVE  Mirrors(L, D, k, E \o <<"error">>, "over", n)
<1> DEFINE F == E \o <<"error">>
<1>1. /\ Len(E) \in Nat /\ DOMAIN E = 1..Len(E) /\ DOMAIN F = 1..(Len(E) + 1) /\ F[Len(E) + 1] = "error"
      /\ \A i \in DOMAIN E : F[i] = E[i]
  BY OneMore DEF Events
<1>2. \A i \in DOMAIN E : E[i] \in {"ack", "stream"}
  BY DEF EventsFit
<1> HIDE DEF F
<1>3. \A i \in DOMAIN F : F[i] \in {"ack", "stream", "error"}
  BY <1>1, <1>2
<1>4. ~Answered(F) /\ 1 \in DOMAIN F
  BY <1>1, <1>3 DEF Answered
<1>5. Mirrors(L, D, k, F, "over", n)
  BY <1>3, <1>4 DEF Mirrors
<1> QED
  BY <1>5 DEF F

\* ... and those of the page.
LEMMA ReadOne ==
  ASSUME NEW E \in Seq(Events), E # <<>>, NEW pc, EventsFit(E, pc), Head(E) \notin {"end", "error"},
         \A j \in DOMAIN E : E[j] = "end" /\ j # 1 => E[j - 1] \in {"done", "titled"}
  PROVE  /\ E[1] = Head(E) /\ 1 \in DOMAIN E
         /\ ~AckNext(Tail(E))
         /\ Head(E) \notin {"done", "titled"} => (Answered(Tail(E)) <=> Answered(E))
         /\ Head(E) \in {"done", "titled"} => ~Answered(Tail(E)) /\ Answered(E)
         /\ Tail(E) # <<>> /\ Tail(E)[1] = "end" => Head(E) \in {"done", "titled"}
         /\ \A j \in DOMAIN Tail(E) : Tail(E)[j] = "end" /\ j # 1 => Tail(E)[j - 1] \in {"done", "titled"}
<1> DEFINE F == Tail(E)
<1>1. /\ Len(E) \in Nat \ {0} /\ DOMAIN E = 1..Len(E) /\ Head(E) = E[1] /\ F \in Seq(Events)
      /\ Len(F) = Len(E) - 1 /\ DOMAIN F = 1..(Len(E) - 1)
      /\ \A i \in DOMAIN F : F[i] = E[i + 1] /\ i + 1 \in DOMAIN E /\ 1 < i + 1 /\ i + 1 # 1
      /\ F # <<>> => 1 \in DOMAIN F
      /\ 1 \in DOMAIN E
  BY OneFewer
<1> HIDE DEF F
<1>2. ~AckNext(F)
  BY <1>1 DEF AckNext, EventsFit
<1>3. Answered(F) => Answered(E)
  BY <1>1 DEF Answered
<1>4. Head(E) \notin {"done", "titled"} /\ Answered(E) => Answered(F)
  <2> SUFFICES ASSUME NEW i \in DOMAIN E, E[i] \in {"done", "titled"}, Head(E) \notin {"done", "titled"}
               PROVE  Answered(F)
    BY DEF Answered
  <2>1. i # 1 /\ i - 1 \in DOMAIN F
    BY <1>1
  <2>2. F[i - 1] = E[i]
    BY <1>1, <2>1
  <2> QED
    BY <2>1, <2>2 DEF Answered
<1>5. Head(E) \in {"done", "titled"} => ~Answered(F) /\ Answered(E)
  BY <1>1 DEF Answered, EventsFit
<1>6. F # <<>> /\ F[1] = "end" => Head(E) \in {"done", "titled"}
  <2> SUFFICES ASSUME F # <<>>, F[1] = "end" PROVE E[1] \in {"done", "titled"}
    BY <1>1
  <2>1. 1 + 1 \in DOMAIN E /\ E[1 + 1] = "end" /\ 1 + 1 # 1 /\ (1 + 1) - 1 = 1
    BY <1>1
  <2> QED
    BY <2>1
<1>7. ASSUME NEW j \in DOMAIN F, F[j] = "end", j # 1 PROVE F[j - 1] \in {"done", "titled"}
  <2>1. /\ j + 1 \in DOMAIN E /\ E[j + 1] = "end" /\ j + 1 # 1 /\ (j + 1) - 1 = j
        /\ j - 1 \in DOMAIN F /\ (j - 1) + 1 = j
    BY <1>1, <1>7
  <2>2. E[j] \in {"done", "titled"}
    BY <2>1
  <2>3. F[j - 1] = E[(j - 1) + 1]
    BY <1>1, <2>1
  <2> QED
    BY <2>1, <2>2, <2>3
<1> QED
  BY <1>1, <1>2, <1>3, <1>4, <1>5, <1>6, <1>7 DEF F

LEMMA MirrorsOnAck ==
  ASSUME NEW L, NEW D, NEW k, NEW n, NEW E \in Seq(Events), E # <<>>,
         NEW pc \in {"asked", "acked", "over", "lost"}, EventsFit(E, pc), Head(E) = "ack", Mirrors(L, D, k, E, pc, n)
  PROVE  Mirrors(Append(L, <<n, "user">>), D, k, Tail(E), pc, n)
<1>1. /\ E[1] = "ack" /\ ~AckNext(Tail(E)) /\ (Answered(Tail(E)) <=> Answered(E))
      /\ ~(Tail(E) # <<>> /\ Tail(E)[1] = "end")
      /\ \A j \in DOMAIN Tail(E) : Tail(E)[j] = "end" /\ j # 1 => Tail(E)[j - 1] \in {"done", "titled"}
  BY ReadOne DEF Mirrors
<1>2. AckNext(E) /\ pc # "asked"
  BY <1>1 DEF AckNext, EventsFit
<1> QED
  BY <1>1, <1>2 DEF Mirrors

LEMMA MirrorsOnStream ==
  ASSUME NEW L \in Seq(Notes), NEW D \in Seq(Notes), NEW k, NEW n \in Turns, NEW E \in Seq(Events), E # <<>>,
         NEW pc \in {"asked", "acked", "over", "lost"}, EventsFit(E, pc), Head(E) = "stream", Mirrors(L, D, k, E, pc, n)
  PROVE  /\ k = 0 => Mirrors(Append(L, <<n, "temp">>), D, Len(L) + 1, Tail(E), pc, n)
         /\ k # 0 => Mirrors(L, D, k, Tail(E), pc, n)
<1>1. /\ E[1] = "stream" /\ ~AckNext(Tail(E)) /\ (Answered(Tail(E)) <=> Answered(E))
      /\ ~(Tail(E) # <<>> /\ Tail(E)[1] = "end")
      /\ \A j \in DOMAIN Tail(E) : Tail(E)[j] = "end" /\ j # 1 => Tail(E)[j - 1] \in {"done", "titled"}
  BY ReadOne DEF Mirrors
<1>2. ~AckNext(E) /\ pc # "asked"
  BY <1>1 DEF AckNext, EventsFit
<1>3. CASE k = 0
  <2>1. /\ pc = "acked" => D = L
        /\ Answered(E) => D = Append(L, <<n, "ai">>)
    BY <1>2, <1>3 DEF Mirrors
  <2>2. /\ Len(Append(L, <<n, "temp">>)) = Len(L) + 1 /\ Len(L) + 1 # 0
        /\ Replaced(Append(L, <<n, "temp">>), Len(L) + 1, <<n, "ai">>) = Append(L, <<n, "ai">>)
    BY ReplaceLast
  <2>3. Mirrors(Append(L, <<n, "temp">>), D, Len(L) + 1, Tail(E), pc, n)
    BY <1>1, <1>2, <2>1, <2>2 DEF Mirrors
  <2> QED
    BY <1>3, <2>3
<1>4. CASE k # 0
  BY <1>1, <1>2, <1>4 DEF Mirrors
<1> QED
  BY <1>3, <1>4

LEMMA MirrorsOnDone ==
  ASSUME NEW L, NEW D, NEW k, NEW n, NEW E \in Seq(Events), E # <<>>,
         NEW pc \in {"asked", "acked", "over", "lost"}, EventsFit(E, pc), Head(E) \in {"done", "titled"},
         Mirrors(L, D, k, E, pc, n)
  PROVE  /\ k = 0 => Mirrors(Append(L, <<n, "ai">>), D, 0, Tail(E), pc, n)
         /\ k # 0 => Mirrors(Replaced(L, k, <<n, "ai">>), D, k, Tail(E), pc, n)
<1>1. /\ E[1] \in {"done", "titled"} /\ ~AckNext(Tail(E)) /\ Answered(E) /\ ~Answered(Tail(E)) /\ 1 \in DOMAIN E
      /\ \A j \in DOMAIN Tail(E) : Tail(E)[j] = "end" /\ j # 1 => Tail(E)[j - 1] \in {"done", "titled"}
  BY ReadOne DEF Mirrors
<1>2. ~AckNext(E) /\ pc = "over"
  BY <1>1 DEF AckNext, EventsFit
<1>3. /\ k = 0 => D = Append(L, <<n, "ai">>)
      /\ k # 0 => D = Replaced(L, k, <<n, "ai">>)
  BY <1>1, <1>2 DEF Mirrors
<1> QED
  BY <1>1, <1>2, <1>3 DEF Mirrors

\* The loads of s are what they were, or have been answered with what is stored.
SameLoads(s) ==
  /\ \A p \in Tasks : Loads(p, s)' <=> Loads(p, s)
  /\ \A p \in Tasks : task'[p].pc = "loaded" /\ task'[p].s = s =>
       \/ At(p, "loaded") /\ task[p].s = s /\ task'[p].got = task[p].got
       \/ task'[p].got = stored[s]

LEMMA LoadsElsewhere ==
  ASSUME TaskTypes, NEW p \in Tasks, NEW t, task' = [task EXCEPT ![p] = t], t.pc \notin {"load", "loaded"}
  PROVE  /\ \A q \in Tasks : q # p => task'[q] = task[q]
         /\ task'[p] = t
         /\ \A q \in Tasks, s \in Sessions : Loads(q, s)' <=> q # p /\ Loads(q, s)
<1>1. task'[p] = t /\ \A q \in Tasks : q # p => task'[q] = task[q]
  BY DEF TaskTypes
<1> QED
  BY <1>1 DEF Loads

LEMMA LoadsSame ==
  ASSUME TaskTypes, NEW p \in Tasks, NEW t, task' = [task EXCEPT ![p] = t], t.pc \notin {"load", "loaded"},
         NEW s \in Sessions, ~Loads(p, s)
  PROVE  SameLoads(s)
<1>1. /\ \A q \in Tasks : q # p => task'[q] = task[q]
      /\ task'[p] = t
      /\ \A q \in Tasks : Loads(q, s)' <=> q # p /\ Loads(q, s)
  BY LoadsElsewhere
<1> QED
  BY <1>1 DEF SameLoads, At

LEMMA LoadsStay == ASSUME UNCHANGED task, NEW s PROVE SameLoads(s)
BY DEF SameLoads, Loads, At

\* Nothing about s changes.
LEMMA AgreesKept ==
  ASSUME NEW s \in Sessions, Agrees(s), SameLoads(s), stored'[s] = stored[s],
         \A n \in Turns : Waits(n, s)' <=> Waits(n, s),
         turn'.s = s <=> turn.s = s,
         turn'.n = turn.n \/ \A n \in Turns : ~Waits(n, s),
         status'[s] = "new" => status[s] = "new",
         status'[s] = "here" => /\ status[s] = "here" /\ shown'[s] = shown[s]
                                /\ current' = s => current = s
                                /\ turn.s = s => /\ turn'.n = turn.n /\ turn'.held = turn.held
                                                 /\ turn'.temp = turn.temp /\ turn'.events = turn.events
                                                 /\ served'[turn.n].pc = served[turn.n].pc
  PROVE  Agrees(s)'
<1>1. Loading(s)' <=> Loading(s)
  BY DEF SameLoads, Loading
<1>2. Asking(s)' <=> Asking(s)
  BY DEF Asking, Waits
<1>3. LoadsAgree(s)'
  <2>1. Loading(s)' => ~Asking(s)'
    BY <1>1, <1>2 DEF Agrees, LoadsAgree
  <2>2. \A p \in Tasks : task'[p].pc = "loaded" /\ task'[p].s = s => task'[p].got = stored'[s]
    BY DEF SameLoads, Agrees, LoadsAgree
  <2>3. \A n \in Turns : Waits(n, s)' => turn'.n = n
    BY DEF Agrees, LoadsAgree
  <2> QED
    BY <2>1, <2>2, <2>3 DEF LoadsAgree, At
<1>4. status'[s] = "here" => ShownAgrees(s)'
  <2> SUFFICES ASSUME status'[s] = "here" PROVE ShownAgrees(s)'
    OBVIOUS
  <2>1. ShownAgrees(s)
    BY DEF Agrees
  <2>2. shown'[s] # None /\ ~Asking(s)' /\ ~Loading(s)' => shown'[s] = stored'[s]
    BY <1>1, <1>2, <2>1 DEF ShownAgrees
  <2>3. current' = s => Loading(s)' \/ shown'[s] # None
    BY <1>1, <2>1 DEF ShownAgrees
  <2>4. turn'.s = s => /\ turn'.held
                       /\ Mirrors(shown'[s], stored'[s], turn'.temp, turn'.events, served'[turn'.n].pc, turn'.n)
    BY <2>1 DEF ShownAgrees
  <2> QED
    BY <2>2, <2>3, <2>4 DEF ShownAgrees
<1>5. status'[s] = "new" => stored'[s] = <<>>
  BY DEF Agrees
<1> QED
  BY <1>3, <1>4, <1>5 DEF Agrees

\* Only functions go on, and none of them starts or ends a load that counts.
LEMMA StoredTask ==
  ASSUME StoredInv, UNCHANGED <<status, stored, served, shown, turn>>, current' \in {current, None},
         astray \subseteq astray', \A s \in Sessions \ astray' : SameLoads(s)
  PROVE  StoredInv'
<1> SUFFICES ASSUME NEW s \in Sessions \ astray' PROVE Agrees(s)'
  BY DEF StoredInv
<1>1. Agrees(s) /\ SameLoads(s) /\ s # None
  BY NoneIsNot DEF StoredInv
<1>2. \A n \in Turns : Waits(n, s)' <=> Waits(n, s)
  BY DEF Waits
<1> QED
  BY <1>1, <1>2, AgreesKept

\* A load starts.
LEMMA StoredLoad ==
  ASSUME Base, StoredInv, NEW p \in Tasks, task[p].pc \notin {"load", "loaded"}, NEW x \in Sessions, Known(x),
         LoadMessages(p, x), current' = x, UNCHANGED <<status, stored, served>>,
         turn'.n = turn.n, turn'.s = turn.s,
         \A s \in Sessions : status[s] = "here" => /\ shown'[s] = shown[s]
                                                   /\ turn.s = s => turn' = turn
  PROVE  StoredInv'
<1> DEFINE t == [task[p] EXCEPT !.pc = "load", !.s = x]
<1>1. task' = [task EXCEPT ![p] = t] /\ t.pc = "load" /\ t.s = x
  BY TaskFacts DEF LoadMessages, Base, TaskRecord
<1> HIDE DEF t
<1>2. task'[p] = t /\ \A q \in Tasks : q # p => task'[q] = task[q]
  BY <1>1 DEF Base, TaskTypes
<1>3. \A n \in Turns, s \in Sessions : Waits(n, s)' <=> Waits(n, s)
  BY DEF Waits
<1> SUFFICES ASSUME NEW s \in Sessions \ astray' PROVE Agrees(s)'
  BY DEF StoredInv
<1>4. CASE s # x
  <2>1. s \notin astray
    BY <1>4 DEF LoadMessages
  <2>2. SameLoads(s)
    BY <1>1, <1>2, <1>4 DEF SameLoads, Loads, At
  <2> QED
    BY <1>3, <1>4, <2>1, <2>2, AgreesKept DEF StoredInv
<1>5. CASE s = x
  <2>1. ~Asking(s) /\ (Loading(s) => s \notin astray)
    BY <1>5 DEF LoadMessages
  <2>2. ~Asking(s)' /\ turn'.s # s /\ \A n \in Turns : ~Waits(n, s)'
    BY <2>1 DEF Asking, Waits
  <2>3. Loading(s)'
    BY <1>1, <1>2, <1>5 DEF Loading, Loads
  <2>4. ASSUME NEW q \in Tasks, task'[q].pc = "loaded", task'[q].s = s
        PROVE  task'[q].got = stored'[s]
    <3>1. q # p /\ task'[q] = task[q]
      BY <1>1, <1>2, <2>4
    <3>2. Loading(s)
      BY <2>4, <3>1 DEF Loading, Loads
    <3> QED
      BY <2>1, <2>4, <3>1, <3>2 DEF StoredInv, Agrees, LoadsAgree, At
  <2>5. status'[s] # "new"
    BY <1>5 DEF Known
  <2>6. LoadsAgree(s)'
    BY <2>2, <2>4 DEF LoadsAgree, At
  <2>7. ShownAgrees(s)'
    BY <2>2, <2>3 DEF ShownAgrees
  <2> QED
    BY <2>5, <2>6, <2>7 DEF Agrees
<1> QED
  BY <1>4, <1>5

\* A load ends: what it has brought is shown.
LEMMA StoredLoaded ==
  ASSUME Base, StoredInv, NEW p \in Tasks, At(p, "loaded"), NEW t, task' = [task EXCEPT ![p] = t],
         t.pc \notin {"load", "loaded"}, NEW x \in Sessions, x = task[p].s,
         shown' = [shown EXCEPT ![x] = task[p].got], LetGo(x), UNCHANGED <<status, stored, served, current, astray>>
  PROVE  StoredInv'
<1>1. /\ \A q \in Tasks : q # p => task'[q] = task[q]
      /\ task'[p] = t
      /\ \A q \in Tasks, s \in Sessions : Loads(q, s)' <=> q # p /\ Loads(q, s)
  BY LoadsElsewhere DEF Base
<1>2. shown'[x] = task[p].got /\ \A s \in Sessions : s # x => shown'[s] = shown[s]
  BY DEF Base, ShownTypes
<1>3. turn'.n = turn.n /\ turn'.s = turn.s /\ (turn.s # x => turn' = turn)
  BY DEF LetGo, Base, TurnTypes, TurnRecord
<1>4. \A n \in Turns, s \in Sessions : Waits(n, s)' <=> Waits(n, s)
  BY DEF Waits
<1> SUFFICES ASSUME NEW s \in Sessions \ astray PROVE Agrees(s)'
  BY DEF StoredInv
<1>5. Agrees(s)
  BY DEF StoredInv
<1>6. CASE s # x
  <2>1. SameLoads(s)
    BY <1>6, LoadsSame DEF Base, Loads
  <2> QED
    BY <1>2, <1>3, <1>4, <1>5, <1>6, <2>1, AgreesKept
<1>7. CASE s = x
  <2>1. Loading(s) /\ ~Asking(s) /\ task[p].got = stored[s]
    BY <1>5, <1>7 DEF Agrees, LoadsAgree, Loading, Loads, At
  <2>2. ~Asking(s)' /\ turn'.s # s /\ \A n \in Turns : ~Waits(n, s)'
    BY <1>3, <2>1 DEF Asking, Waits
  <2>3. \A q \in Tasks : task'[q].pc = "loaded" /\ task'[q].s = s => task'[q].got = stored'[s]
    BY <1>1, <1>5 DEF Agrees, LoadsAgree, At
  <2>4. shown'[s] = stored'[s] /\ stored[s] # None
    BY <1>2, <1>7, <2>1, NoneIsNot DEF Base, BackendTypes
  <2>5. LoadsAgree(s)'
    BY <2>2, <2>3 DEF LoadsAgree, At
  <2>6. ShownAgrees(s)'
    BY <2>2, <2>4 DEF ShownAgrees
  <2> QED
    BY <1>5, <2>5, <2>6 DEF Agrees
<1> QED
  BY <1>6, <1>7

\* A question is asked about the list shown.
LEMMA StoredBegin ==
  ASSUME Base, StoredInv, ~Open, NEW x \in Sessions, NEW list \in Seq(Notes), BeginStream(x, list), Known(x),
         UNCHANGED <<status, stored, current>>,
         \A q \in Tasks : q # "send" => task'[q] = task[q],
         task'["send"].pc \notin {"load", "loaded"},
         \A s \in Sessions : s # x => ~Loads("send", s),
         x \notin astray' /\ status[x] = "here" => list = stored[x]
  PROVE  StoredInv'
<1>1. PICK n \in Turns :
        /\ Unasked(n)
        /\ served' = [served EXCEPT ![n] = [@ EXCEPT !.pc = "asked", !.s = x]]
        /\ turn' = [NoTurn EXCEPT !.n = n, !.s = x, !.held = TRUE, !.out = files[x]]
  BY DEF BeginStream
<1>2. /\ turn'.n = n /\ turn'.s = x /\ turn'.held /\ turn'.temp = 0 /\ turn'.events = <<>>
      /\ served[n].pc = "none" /\ served'[n].pc = "asked" /\ served'[n].s = x
      /\ \A m \in Turns : m # n => served'[m] = served[m]
  BY <1>1 DEF NoTurn, Unasked, Base, BackendTypes, ServedRecord
<1>3. turn.n = 0 /\ turn.s = None
  BY NoTurnType DEF Open, Base, TurnTypes
<1>4. shown'[x] = list /\ \A s \in Sessions : s # x => shown'[s] = shown[s]
  BY DEF BeginStream, Base, ShownTypes
<1>5. /\ \A s \in Sessions : s \notin astray' => s \notin astray
      /\ x \notin astray' => \A p \in Tasks : p # "send" => ~Loads(p, x)
  BY DEF BeginStream
<1> SUFFICES ASSUME NEW s \in Sessions \ astray' PROVE Agrees(s)'
  BY DEF StoredInv
<1>6. Agrees(s) /\ s # None
  BY <1>5, NoneIsNot DEF StoredInv
<1>7. \A m \in Turns : ~Waits(m, s)
  <2>1. \A m \in Turns : m # 0
    BY ChatStoreAssumption DEF Turns
  <2> QED
    BY <1>3, <1>6, <2>1 DEF Agrees, LoadsAgree
<1>8. CASE s # x
  <2>1. \A m \in Turns : Waits(m, s)' <=> Waits(m, s)
    BY <1>2, <1>8 DEF Waits
  <2>2. SameLoads(s)
    BY <1>8 DEF SameLoads, Loads, At
  <2> QED
    BY <1>2, <1>3, <1>4, <1>6, <1>7, <1>8, <2>1, <2>2, AgreesKept
<1>9. CASE s = x
  <2>1. \A p \in Tasks : ~Loads(p, s)'
    BY <1>5, <1>9 DEF Loads
  <2>2. ~Loading(s)' /\ \A p \in Tasks : ~(task'[p].pc = "loaded" /\ task'[p].s = s)
    BY <2>1 DEF Loading, Loads
  <2>3. \A m \in Turns : Waits(m, s)' => turn'.n = m
    BY <1>2, <1>7 DEF Waits
  <2>4. LoadsAgree(s)'
    BY <2>2, <2>3 DEF LoadsAgree, At
  <2>5. ASSUME status[s] = "here" PROVE ShownAgrees(s)'
    <3>1. list = stored[s] /\ list # None
      BY <1>9, <2>5, NoneIsNot
    <3>2. Mirrors(list, list, 0, <<>>, "asked", n)
      BY DEF Mirrors, Answered
    <3>3. Asking(s)'
      BY <1>2, <1>9 DEF Asking
    <3> QED
      BY <1>2, <1>4, <1>9, <3>1, <3>2, <3>3 DEF ShownAgrees
  <2> QED
    BY <1>6, <2>4, <2>5 DEF Agrees
<1> QED
  BY <1>8, <1>9

\* The backend goes on with question n.
LEMMA StoredServe ==
  ASSUME Base, StoredInv, NEW n \in Turns, NEW x \in Sessions, x = served[n].s, NEW es, NEW D,
         NEW pc \in {"acked", "over", "lost"}, served[n].pc \in {"asked", "acked"}, Emit(n, es),
         served'[n].pc = pc, served'[n].s = x, \A m \in Turns : m # n => served'[m] = served[m],
         stored'[x] = D, \A s \in Sessions : s # x => stored'[s] = stored[s],
         UNCHANGED <<status, shown, task, current, astray>>,
         /\ x \notin astray /\ status[x] = "here" /\ turn.n = n /\ turn.held
         /\ Mirrors(shown[x], stored[x], turn.temp, turn.events, served[n].pc, n)
         => Mirrors(shown[x], D, turn.temp, turn.events \o es, pc, n)
  PROVE  StoredInv'
<1>1. Known(x) /\ Waits(n, x)
  BY DEF Base, BackendTypes, Waits
<1>2. /\ turn'.n = turn.n /\ turn'.s = turn.s /\ turn'.held = turn.held /\ turn'.temp = turn.temp
      /\ turn'.events = IF turn.n = n THEN turn.events \o es ELSE turn.events
  BY DEF Emit, Base, TurnTypes, TurnRecord
<1>3. Open => turn.n \in Turns /\ served[turn.n].s = turn.s
  BY OpenFacts DEF Base, TurnTypes
<1>4. ~Open => turn.s = None
  BY NoTurnType DEF Base, TurnTypes
<1> SUFFICES ASSUME NEW s \in Sessions \ astray PROVE Agrees(s)'
  BY DEF StoredInv
<1>5. Agrees(s) /\ s # None
  BY NoneIsNot DEF StoredInv
<1>6. CASE s # x
  <2>1. \A m \in Turns : Waits(m, s)' <=> Waits(m, s)
    BY <1>6 DEF Waits
  <2>2. turn.s = s => turn.n # n /\ served'[turn.n] = served[turn.n]
    BY <1>3, <1>4, <1>5, <1>6
  <2> QED
    BY <1>2, <1>5, <1>6, <2>1, <2>2, LoadsStay, AgreesKept
<1>7. CASE s = x
  <2>1. turn.n = n /\ ~Loading(s)
    BY <1>1, <1>5, <1>7 DEF Agrees, LoadsAgree, Asking, Waits
  <2>2. turn.s = s /\ turn'.s = s /\ turn'.n = n
    BY <1>2, <1>3, <1>7, <2>1, ChatStoreAssumption DEF Open, Turns
  <2>3. Asking(s)'
    BY <2>2 DEF Asking
  <2>4. ~Loading(s)' /\ \A p \in Tasks : ~(task'[p].pc = "loaded" /\ task'[p].s = s)
    BY <2>1 DEF Loading, Loads
  <2>5. \A m \in Turns : Waits(m, s)' => turn'.n = m
    BY <1>2, <1>5, <2>1 DEF Waits, Agrees, LoadsAgree
  <2>6. LoadsAgree(s)'
    BY <2>4, <2>5 DEF LoadsAgree, At
  <2>7. ASSUME status[s] = "here" PROVE ShownAgrees(s)'
    <3>1. /\ current = s => shown[s] # None
          /\ turn.held /\ Mirrors(shown[s], stored[s], turn.temp, turn.events, served[n].pc, n)
      BY <1>5, <2>1, <2>2, <2>7 DEF Agrees, ShownAgrees
    <3>2. Mirrors(shown[s], D, turn.temp, turn.events \o es, pc, n)
      BY <1>7, <2>1, <2>7, <3>1
    <3> QED
      BY <1>2, <1>7, <2>1, <2>2, <2>3, <3>1, <3>2 DEF ShownAgrees
  <2>8. status'[s] # "new"
    BY <1>1, <1>7 DEF Known
  <2> QED
    BY <2>6, <2>7, <2>8 DEF Agrees
<1> QED
  BY <1>6, <1>7

\* A callback writes to the list the send holds.
LEMMA StoredRead ==
  ASSUME Base, StoredInv, Open, NEW list \in Seq(Notes), NEW temp,
         shown' = IF turn.held THEN [shown EXCEPT ![turn.s] = list] ELSE shown,
         turn' = [turn EXCEPT !.events = Tail(@), !.temp = temp],
         UNCHANGED <<status, stored, served, task, astray>>, current' \in {current, turn.s},
         /\ turn.held
         /\ Mirrors(shown[turn.s], stored[turn.s], turn.temp, turn.events, served[turn.n].pc, turn.n)
         => Mirrors(list, stored[turn.s], temp, Tail(turn.events), served[turn.n].pc, turn.n)
  PROVE  StoredInv'
<1>1. /\ turn'.n = turn.n /\ turn'.s = turn.s /\ turn'.held = turn.held /\ turn'.temp = temp
      /\ turn'.events = Tail(turn.events)
  BY DEF Base, TurnTypes, TurnRecord
<1>2. turn.s \in Sessions /\ Known(turn.s)
  BY OpenFacts DEF Base
<1>3. \A m \in Turns, s \in Sessions : Waits(m, s)' <=> Waits(m, s)
  BY DEF Waits
<1> SUFFICES ASSUME NEW s \in Sessions \ astray PROVE Agrees(s)'
  BY DEF StoredInv
<1>4. Agrees(s)
  BY DEF StoredInv
<1>5. CASE s # turn.s
  <2>1. shown'[s] = shown[s]
    BY <1>5 DEF Base, ShownTypes
  <2> QED
    BY <1>1, <1>3, <1>4, <1>5, <2>1, LoadsStay, AgreesKept
<1>6. CASE s = turn.s
  <2>1. Asking(s) /\ Asking(s)' /\ (Loading(s)' <=> Loading(s))
    BY <1>1, <1>6 DEF Asking, Loading, Loads
  <2>2. LoadsAgree(s)'
    BY <1>1, <1>3, <1>4, <2>1 DEF Agrees, LoadsAgree, At
  <2>3. ASSUME status[s] = "here" PROVE ShownAgrees(s)'
    <3>1. turn.held /\ Mirrors(shown[s], stored[s], turn.temp, turn.events, served[turn.n].pc, turn.n)
      BY <1>4, <1>6, <2>3 DEF Agrees, ShownAgrees
    <3>2. shown'[s] = list /\ list # None
      BY <1>6, <3>1, NoneIsNot DEF Base, ShownTypes
    <3> QED
      BY <1>1, <1>6, <2>1, <3>1, <3>2 DEF ShownAgrees
  <2>4. status'[s] # "new"
    BY <1>2, <1>6 DEF Known
  <2> QED
    BY <2>2, <2>3, <2>4 DEF Agrees
<1> QED
  BY <1>5, <1>6

\* A send is over.
LEMMA StoredClosed ==
  ASSUME Base, StoredInv, Open, turn' = NoTurn, UNCHANGED <<status, stored, served, shown, task, current>>,
         \/ astray' = astray \cup {turn.s}
         \/ /\ astray' = astray /\ served[turn.n].pc = "over"
            /\ turn.events # <<>> /\ turn.events[1] = "end"
  PROVE  StoredInv'
<1>1. turn'.n = 0 /\ turn'.s = None
  BY NoTurnType
<1>2. turn.s \in Sessions /\ Known(turn.s) /\ served[turn.n].s = turn.s
  BY OpenFacts DEF Base, TurnTypes
<1>3. \A m \in Turns, s \in Sessions : Waits(m, s)' <=> Waits(m, s)
  BY DEF Waits
<1> SUFFICES ASSUME NEW s \in Sessions \ astray' PROVE Agrees(s)'
  BY DEF StoredInv
<1>4. Agrees(s) /\ s # None
  BY NoneIsNot DEF StoredInv
<1>5. CASE s # turn.s
  <2>1. \A m \in Turns : ~Waits(m, s)
    BY <1>2, <1>4, <1>5 DEF Agrees, LoadsAgree, Waits
  <2> QED
    BY <1>1, <1>3, <1>4, <1>5, <2>1, LoadsStay, AgreesKept
<1>6. CASE s = turn.s
  <2>1. /\ served[turn.n].pc = "over"
        /\ turn.events # <<>> /\ turn.events[1] = "end"
    BY <1>6
  <2>2. \A m \in Turns : ~Waits(m, s)
    BY <1>4, <2>1 DEF Agrees, LoadsAgree, Waits
  <2>3. Asking(s) /\ ~Asking(s)' /\ (Loading(s)' <=> Loading(s))
    BY <1>1, <1>3, <1>4, <1>6, <2>2 DEF Asking, Waits, Loading, Loads
  <2>4. LoadsAgree(s)'
    BY <1>3, <1>4, <2>2, <2>3 DEF Agrees, LoadsAgree, At
  <2>5. ASSUME status[s] = "here" PROVE ShownAgrees(s)'
    <3>1. /\ Mirrors(shown[s], stored[s], turn.temp, turn.events, served[turn.n].pc, turn.n)
          /\ current = s => Loading(s) \/ shown[s] # None
      BY <1>4, <1>6, <2>5 DEF Agrees, ShownAgrees
    <3>2. shown[s] = stored[s]
      BY <2>1, <3>1 DEF Mirrors
    <3> QED
      BY <1>1, <1>4, <2>3, <3>1, <3>2 DEF ShownAgrees
  <2>6. status'[s] # "new"
    BY <1>2, <1>6 DEF Known
  <2> QED
    BY <2>4, <2>5, <2>6 DEF Agrees
<1> QED
  BY <1>5, <1>6

\* A list departs from the stored one only when its session goes astray.
LEMMA StoredInvStep ==
  ASSUME Base, ListInv, StoredInv, [Next]_vars
  PROVE  StoredInv'
<1>1. CASE UNCHANGED <<status, stored, served, current, shown, task, turn, astray>>
  <2>1. /\ UNCHANGED <<status, stored, served, shown, turn, astray>> /\ current' = current
         /\ \A s \in Sessions : SameLoads(s)
    BY <1>1, LoadsStay
  <2> QED
    BY <2>1, StoredTask
<1>2. ASSUME NEW p \in Tasks, ServeList(p)
     PROVE  StoredInv'
  <2>0. PICK list \in SetToSeqs({s \in Sessions : Here(s)}) :
          task' = [task EXCEPT ![p] = [@ EXCEPT !.pc = "listed", !.got = list]]
    BY <1>2 DEF ServeList
  <2> DEFINE t == [task[p] EXCEPT !.pc = "listed", !.got = list]
  <2>1. task[p].pc = "list" /\ task[p] \in TaskRecord
    BY <1>2, TaskFacts DEF ServeList, At, Base
  <2>2. t.pc \notin {"load", "loaded"}
    BY <2>1 DEF TaskRecord
  <2>3. task' = [task EXCEPT ![p] = t]
    BY <2>0
  <2>4. UNCHANGED <<status, stored, served, shown, turn, astray>> /\ current' = current
    BY <1>2 DEF ServeList, backend, history
  <2> HIDE DEF t
  <2>5. \A s \in Sessions : SameLoads(s)
    BY <2>1, <2>2, <2>3, LoadsSame DEF Base, Loads
  <2> QED
    BY <2>4, <2>5, StoredTask
<1>3. ASSUME NEW p \in Tasks, ServeStart(p)
     PROVE  StoredInv'
  <2>0. PICK x \in Sessions : /\ IF task[p].s = None THEN status[x] = "new" ELSE x = task[p].s /\ Here(x)
                           /\ status' = [status EXCEPT ![x] = "here"]
                           /\ task' = [task EXCEPT ![p] = [@ EXCEPT !.pc = "started", !.s = x]]
    BY <1>3 DEF ServeStart
  <2> DEFINE t == [task[p] EXCEPT !.pc = "started", !.s = x]
  <2>1. task' = [task EXCEPT ![p] = t] /\ t.pc \notin {"load", "loaded"} /\ task[p].pc \notin {"load", "loaded"}
    BY <1>3, <2>0, TaskFacts DEF ServeStart, At, Base, TaskRecord
  <2>2. UNCHANGED <<stored, served, shown, turn, current, astray>>
    BY <1>3 DEF ServeStart, history
  <2> HIDE DEF t
  <2>3. \A s \in Sessions : SameLoads(s)
    BY <2>1, LoadsSame DEF Base, Loads
  <2>4. status'[x] = "here" /\ \A s \in Sessions : s # x => status'[s] = status[s]
    BY <2>0 DEF Base, BackendTypes
  <2>5. \A n \in Turns, s \in Sessions : Waits(n, s)' <=> Waits(n, s)
    BY <2>2 DEF Waits
  <2> SUFFICES ASSUME NEW s \in Sessions \ astray PROVE Agrees(s)'
    BY <2>2 DEF StoredInv
  <2>6. Agrees(s)
    BY DEF StoredInv
  <2>7. CASE s # x \/ status[s] = "here"
    BY <2>2, <2>3, <2>4, <2>5, <2>6, <2>7, AgreesKept
  <2>8. CASE s = x /\ status[s] # "here"
    <3>1. status[s] = "new"
      BY <2>0, <2>8 DEF Here
    <3>2. stored[s] = <<>> /\ shown[s] = None /\ current # s /\ turn.s # s
      BY <2>6, <3>1, NoneIsNot, NoTurnType
         DEF Agrees, Base, ShownTypes, BarTypes, TurnTypes, Known
    <3>3. LoadsAgree(s)'
      <4>1. (Loading(s)' <=> Loading(s)) /\ (Asking(s)' <=> Asking(s))
        BY <2>2, <2>3 DEF SameLoads, Loading, Asking
      <4>2. \A q \in Tasks : task'[q].pc = "loaded" /\ task'[q].s = s => task'[q].got = stored'[s]
        BY <2>2, <2>3, <2>6 DEF SameLoads, Agrees, LoadsAgree
      <4>3. \A n \in Turns : Waits(n, s)' => turn'.n = n
        BY <2>2, <2>5, <2>6 DEF Agrees, LoadsAgree
      <4> QED
        BY <2>6, <4>1, <4>2, <4>3 DEF Agrees, LoadsAgree, At
    <3>4. ShownAgrees(s)'
      BY <2>2, <3>2 DEF ShownAgrees
    <3> QED
      BY <2>2, <3>2, <3>3, <3>4 DEF Agrees
  <2> QED
    BY <2>7, <2>8
<1>4. ASSUME NEW p \in Tasks, ServeLoad(p)
     PROVE  StoredInv'
  <2>1. task[p] \in TaskRecord /\ task[p].pc = "load"
    BY <1>4, TaskFacts DEF ServeLoad, At, Base
  <2> DEFINE t == [task[p] EXCEPT !.pc = "loaded", !.got = stored[task[p].s]]
  <2>2. task' = [task EXCEPT ![p] = t] /\ t.pc = "loaded" /\ t.s = task[p].s /\ t.got = stored[task[p].s]
    BY <1>4, <2>1 DEF ServeLoad, TaskRecord
  <2> HIDE DEF t
  <2>3. task'[p] = t /\ \A q \in Tasks : q # p => task'[q] = task[q]
    BY <2>2 DEF Base, TaskTypes
  <2>4. \A s \in Sessions : SameLoads(s)
    BY <2>1, <2>2, <2>3 DEF SameLoads, Loads, At
  <2>5. UNCHANGED <<status, stored, served, shown, turn, astray>> /\ current' = current
    BY <1>4 DEF ServeLoad, backend, history
  <2> QED
    BY <2>4, <2>5, StoredTask
<1>5. ASSUME NEW p \in Tasks, ServeDelete(p)
     PROVE  StoredInv'
  <2> DEFINE t == [task[p] EXCEPT !.pc = "deleted"]
  <2>1. task' = [task EXCEPT ![p] = t] /\ t.pc \notin {"load", "loaded"} /\ task[p].pc \notin {"load", "loaded"}
    BY <1>5, TaskFacts DEF ServeDelete, At, Base, TaskRecord
  <2>2. UNCHANGED <<stored, served, shown, turn, current, astray>>
    BY <1>5 DEF ServeDelete, history
  <2> HIDE DEF t
  <2>3. \A s \in Sessions : SameLoads(s)
    BY <2>1, LoadsSame DEF Base, Loads
  <2>4. \A s \in Sessions : status'[s] = status[s] \/ status'[s] = "gone"
    BY <1>5 DEF ServeDelete, Base, BackendTypes
  <2>5. \A n \in Turns, s \in Sessions : Waits(n, s)' <=> Waits(n, s)
    BY <2>2 DEF Waits
  <2> SUFFICES ASSUME NEW s \in Sessions \ astray PROVE Agrees(s)'
    BY <2>2 DEF StoredInv
  <2>6. Agrees(s)
    BY DEF StoredInv
  <2> QED
    BY <2>2, <2>3, <2>4, <2>5, <2>6, AgreesKept
<1>6. ASSUME NEW p \in Tasks, ServeUpload(p)
     PROVE  StoredInv'
  <2>0. PICK f \in Files : task' = [task EXCEPT ![p] = [@ EXCEPT !.pc = "uploaded", !.got = <<f>>]]
    BY <1>6 DEF ServeUpload
  <2> DEFINE t == [task[p] EXCEPT !.pc = "uploaded", !.got = <<f>>]
  <2>1. task[p].pc = "upload" /\ task[p] \in TaskRecord
    BY <1>6, TaskFacts DEF ServeUpload, At, Base
  <2>2. t.pc \notin {"load", "loaded"}
    BY <2>1 DEF TaskRecord
  <2>3. task' = [task EXCEPT ![p] = t]
    BY <2>0
  <2>4. UNCHANGED <<status, stored, served, shown, turn, astray>> /\ current' = current
    BY <1>6 DEF ServeUpload, backend, history
  <2> HIDE DEF t
  <2>5. \A s \in Sessions : SameLoads(s)
    BY <2>1, <2>2, <2>3, LoadsSame DEF Base, Loads
  <2> QED
    BY <2>4, <2>5, StoredTask
<1>7. ASSUME NEW p \in Tasks, Started(p)
     PROVE  StoredInv'
  <2>1. /\ task[p].pc \notin {"load", "loaded"} /\ task[p].s \in Sessions /\ Known(task[p].s)
    BY <1>7, TaskFacts DEF Started, At, Fits, Known, Base
  <2>2. LoadMessages(p, task[p].s) /\ current' = task[p].s /\ UNCHANGED <<status, stored, served>>
    BY <1>7 DEF Started, backend
  <2>3. shown' = shown /\ turn' = turn
    BY <1>7 DEF Started
  <2> QED
    BY <2>1, <2>2, <2>3, StoredLoad
<1>8. ASSUME NEW p \in Tasks, Listed(p)
     PROVE  StoredInv'
  <2>1. CASE task[p].got = <<>>
    <3> DEFINE t == [task[p] EXCEPT !.pc = "tokens"]
    <3>1. task' = [task EXCEPT ![p] = t] /\ t.pc \notin {"load", "loaded"} /\ task[p].pc \notin {"load", "loaded"}
      BY <1>8, <2>1, TaskFacts DEF Listed, At, Base, TaskRecord
    <3>2. UNCHANGED <<status, stored, served, shown, turn, astray>> /\ current' = current
      BY <1>8, <2>1 DEF Listed, backend
    <3> HIDE DEF t
    <3>3. \A s \in Sessions : SameLoads(s)
      BY <3>1, LoadsSame DEF Base, Loads
    <3> QED
      BY <3>2, <3>3, StoredTask
  <2>2. CASE task[p].got # <<>>
    <3> DEFINE x == Head(task[p].got)
    <3>1. task[p].pc = "listed" /\ x \in ToSet(task[p].got)
      BY <1>8, <2>2, TaskFacts, ToSetTail DEF Listed, At, Base, Fits
    <3>2. x \in Sessions /\ Known(x)
      BY <3>1, TaskFacts DEF Base, Fits, Known
    <3>3. LoadMessages(p, x) /\ current' = x /\ UNCHANGED <<status, stored, served, shown, turn>>
      BY <1>8, <2>2 DEF Listed, backend
    <3> HIDE DEF x
    <3> QED
      BY <3>1, <3>2, <3>3, StoredLoad
  <2> QED
    BY <2>1, <2>2
<1>9. ASSUME NEW p \in Tasks, Deleted(p)
     PROVE  StoredInv'
  <2> DEFINE d == task[p].s
             remaining == Sublist(sessions, {i \in DOMAIN sessions : sessions[i] # d})
  <2>1. d \in Sessions /\ Known(d) /\ status[d] = "gone" /\ task[p].pc = "deleted"
    BY <1>9, TaskFacts DEF Deleted, At, Base, Fits, Known
  <2>2. /\ shown' = [shown EXCEPT ![d] = None] /\ LetGo(d)
        /\ UNCHANGED <<status, stored, served>>
        /\ IF remaining = <<>> THEN current' = None /\ End(p) /\ UNCHANGED astray
           ELSE current' = Head(remaining) /\ LoadMessages(p, Head(remaining))
    BY <1>9 DEF Deleted, backend
  <2>3. /\ turn'.n = turn.n /\ turn'.s = turn.s /\ (turn.s # d => turn' = turn)
        /\ \A s \in Sessions : status[s] = "here" => shown'[s] = shown[s] /\ s # d
    BY <2>1, <2>2 DEF LetGo, Base, TurnTypes, TurnRecord, ShownTypes
  <2>4. CASE remaining = <<>>
    <3>1. task' = [task EXCEPT ![p] = NoTask] /\ NoTask.pc \notin {"load", "loaded"}
      BY <2>2, <2>4 DEF End, NoTask
    <3>2. \A s \in Sessions : SameLoads(s)
      BY <2>1, <3>1, LoadsSame DEF Base, Loads
    <3>3. \A n \in Turns, s \in Sessions : Waits(n, s)' <=> Waits(n, s)
      BY <2>2 DEF Waits
    <3>4. current' = None /\ astray' = astray
      BY <2>2, <2>4
    <3> SUFFICES ASSUME NEW s \in Sessions \ astray PROVE Agrees(s)'
      BY <3>4 DEF StoredInv
    <3>5. Agrees(s) /\ s # None
      BY NoneIsNot DEF StoredInv
    <3> HIDE DEF d, remaining
    <3> QED
      BY <2>2, <2>3, <3>2, <3>3, <3>4, <3>5, AgreesKept
  <2>5. CASE remaining # <<>>
    <3>1. Head(remaining) \in Sessions /\ Known(Head(remaining))
      <4>1. /\ remaining \in Seq(Sessions)
            /\ \A s \in ToSet(remaining) : Known(s)
        BY Remaining DEF Base, BarTypes
      <4>2. Head(remaining) \in ToSet(remaining) /\ Head(remaining) \in Sessions
        BY <2>5, <4>1, ToSetTail
      <4> QED
        BY <4>1, <4>2
    <3>2. current' = Head(remaining) /\ LoadMessages(p, Head(remaining))
      BY <2>2, <2>5
    <3> HIDE DEF d, remaining
    <3> QED
      BY <2>1, <2>2, <2>3, <3>1, <3>2, StoredLoad
  <2> QED
    BY <2>4, <2>5
<1>10. ASSUME NEW p \in Tasks, Loaded(p)
     PROVE  StoredInv'
  <2>1. At(p, "loaded") /\ task[p].s \in Sessions
    BY <1>10, TaskFacts DEF Loaded, At, Fits, Known, Base
  <2> DEFINE t == IF task[p].op = "list" THEN [task[p] EXCEPT !.pc = "tokens"] ELSE NoTask
  <2>2. task' = [task EXCEPT ![p] = t] /\ t.pc \notin {"load", "loaded"}
    BY <1>10, TaskFacts DEF Loaded, End, NoTask, Base, TaskRecord
  <2>3. shown' = [shown EXCEPT ![task[p].s] = task[p].got] /\ LetGo(task[p].s)
        /\ UNCHANGED <<status, stored, served, current, astray>>
    BY <1>10 DEF Loaded, backend, history
  <2> HIDE DEF t
  <2> QED
    BY <2>1, <2>2, <2>3, StoredLoaded
<1>11. ASSUME NEW p \in Tasks, TokensFetched(p)
     PROVE  StoredInv'
  <2> DEFINE t == NoTask
  <2>1. task' = [task EXCEPT ![p] = t] /\ t.pc \notin {"load", "loaded"} /\ task[p].pc \notin {"load", "loaded"} /\ p \in Tasks
    BY <1>11, TasksAre, TaskFacts
       DEF TokensFetched, At, Free, Base, Fits, TaskRecord, NoTask, Run, End
  <2>2. UNCHANGED <<status, stored, served, shown, turn, astray>> /\ current' = current
    BY <1>11 DEF TokensFetched, backend, history
  <2> HIDE DEF t
  <2>3. \A x \in Sessions : SameLoads(x)
    BY <2>1, LoadsSame DEF Base, Loads
  <2> QED
    BY <2>2, <2>3, StoredTask
<1>12. ASSUME NEW p \in Tasks, CallFails(p)
     PROVE  StoredInv'
  <2>1. task' = [task EXCEPT ![p] = NoTask] /\ NoTask.pc \notin {"load", "loaded"}
    BY <1>12 DEF CallFails, End, NoTask
  <2>2. UNCHANGED <<status, stored, served, shown, turn, current>>
    BY <1>12 DEF CallFails, backend
  <2>3. astray' = IF task[p].pc \in {"load", "loaded"} THEN astray \cup {task[p].s} ELSE astray
    BY <1>12 DEF CallFails
  <2>4. \A s \in Sessions \ astray' : SameLoads(s)
    BY <2>1, <2>3, LoadsSame DEF Base, Loads
  <2> QED
    BY <2>2, <2>3, <2>4, StoredTask
<1>13. ASSUME NEW n \in Turns, ServeAck(n)
     PROVE  StoredInv'
  <2> DEFINE x == served[n].s
             es == <<"ack">>
             D == Append(stored[x], <<n, "user">>)
  <2>1. /\ x \in Sessions /\ Known(x) /\ served[n].pc \in {"asked", "acked"} /\ Emit(n, es)
        /\ served'[n].pc = "acked" /\ served'[n].s = x /\ \A m \in Turns : m # n => served'[m] = served[m]
    BY <1>13 DEF ServeAck, Base, BackendTypes, ServedRecord, Known
  <2>2. stored'[x] = D /\ \A s \in Sessions : s # x => stored'[s] = stored[s]
    BY <1>13, <2>1 DEF ServeAck, Base, BackendTypes, backend
  <2>3. UNCHANGED <<status, shown, task, current, astray>>
    BY <1>13 DEF ServeAck, backend, history
  <2>4. ASSUME turn.n = n, turn.held, Mirrors(shown[x], stored[x], turn.temp, turn.events, served[n].pc, n)
        PROVE  Mirrors(shown[x], D, turn.temp, turn.events \o es, "acked", n)
    <3>1. /\ turn.events \in Seq(Events) /\ EventsFit(turn.events, served[n].pc) /\ turn.s = x
          /\ shown[x] \in Seq(Notes) /\ stored[x] \in Seq(Notes)
      BY <2>1, <2>4, HeldFacts DEF Base, TurnTypes, TurnRecord, BackendTypes, ListInv, EventsInv
    <3>2. turn.events = <<>> /\ served[n].pc = "asked"
      BY <1>13, <3>1 DEF ServeAck, EventsFit
    <3>3. turn.events \o es = <<"ack">>
      BY <3>2
    <3> QED
      BY <2>4, <3>2, <3>3, MirrorsAck
  <2> HIDE DEF x, es, D
  <2> QED
    BY <2>1, <2>2, <2>3, <2>4, StoredServe DEF x
<1>14. ASSUME NEW n \in Turns, ServeChunk(n)
     PROVE  StoredInv'
  <2> DEFINE x == served[n].s
             es == <<"stream">>
             D == stored[x]
  <2>1. /\ x \in Sessions /\ Known(x) /\ served[n].pc \in {"asked", "acked"} /\ Emit(n, es)
        /\ served'[n].pc = "acked" /\ served'[n].s = x /\ \A m \in Turns : m # n => served'[m] = served[m]
    BY <1>14 DEF ServeChunk, Base, BackendTypes, ServedRecord, Known
  <2>2. stored'[x] = D /\ \A s \in Sessions : s # x => stored'[s] = stored[s]
    BY <1>14, <2>1 DEF ServeChunk, Base, BackendTypes, backend
  <2>3. UNCHANGED <<status, shown, task, current, astray>>
    BY <1>14 DEF ServeChunk, backend, history
  <2>4. ASSUME turn.n = n, turn.held, Mirrors(shown[x], stored[x], turn.temp, turn.events, served[n].pc, n)
        PROVE  Mirrors(shown[x], D, turn.temp, turn.events \o es, "acked", n)
    <3>1. /\ turn.events \in Seq(Events) /\ EventsFit(turn.events, served[n].pc) /\ turn.s = x
          /\ shown[x] \in Seq(Notes) /\ stored[x] \in Seq(Notes)
      BY <2>1, <2>4, HeldFacts DEF Base, TurnTypes, TurnRecord, BackendTypes, ListInv, EventsInv
    <3>2. served[n].pc = "acked"
      BY <1>14 DEF ServeChunk
    <3> QED
      BY <2>4, <3>1, <3>2, MirrorsChunk
  <2> HIDE DEF x, es, D
  <2> QED
    BY <2>1, <2>2, <2>3, <2>4, StoredServe DEF x
<1>15. ASSUME NEW n \in Turns, ServeDone(n)
     PROVE  StoredInv'
  <2>0. PICK d \in {"titled", "done"} : Emit(n, <<d, "end">>)
    BY <1>15 DEF ServeDone
  <2> DEFINE x == served[n].s
             es == <<d, "end">>
             D == Append(stored[x], <<n, "ai">>)
  <2>1. /\ x \in Sessions /\ Known(x) /\ served[n].pc \in {"asked", "acked"} /\ Emit(n, es)
        /\ served'[n].pc = "over" /\ served'[n].s = x /\ \A m \in Turns : m # n => served'[m] = served[m]
    BY <1>15, <2>0 DEF ServeDone, Base, BackendTypes, ServedRecord, Known
  <2>2. stored'[x] = D /\ \A s \in Sessions : s # x => stored'[s] = stored[s]
    BY <1>15, <2>1 DEF ServeDone, Base, BackendTypes, backend
  <2>3. UNCHANGED <<status, shown, task, current, astray>>
    BY <1>15 DEF ServeDone, backend, history
  <2>4. ASSUME turn.n = n, turn.held, Mirrors(shown[x], stored[x], turn.temp, turn.events, served[n].pc, n)
        PROVE  Mirrors(shown[x], D, turn.temp, turn.events \o es, "over", n)
    <3>1. /\ turn.events \in Seq(Events) /\ EventsFit(turn.events, served[n].pc) /\ turn.s = x
          /\ shown[x] \in Seq(Notes) /\ stored[x] \in Seq(Notes)
      BY <2>1, <2>4, HeldFacts DEF Base, TurnTypes, TurnRecord, BackendTypes, ListInv, EventsInv
    <3>2. served[n].pc = "acked"
      BY <1>15 DEF ServeDone
    <3> QED
      BY <2>4, <3>1, <3>2, MirrorsDone
  <2> HIDE DEF x, es, D
  <2> QED
    BY <2>1, <2>2, <2>3, <2>4, StoredServe DEF x
<1>16. ASSUME NEW n \in Turns, ServeError(n)
     PROVE  StoredInv'
  <2> DEFINE x == served[n].s
             es == <<"error">>
             D == stored[x]
  <2>1. /\ x \in Sessions /\ Known(x) /\ served[n].pc \in {"asked", "acked"} /\ Emit(n, es)
        /\ served'[n].pc = "over" /\ served'[n].s = x /\ \A m \in Turns : m # n => served'[m] = served[m]
    BY <1>16 DEF ServeError, Base, BackendTypes, ServedRecord, Known
  <2>2. stored'[x] = D /\ \A s \in Sessions : s # x => stored'[s] = stored[s]
    BY <1>16, <2>1 DEF ServeError, Base, BackendTypes, backend
  <2>3. UNCHANGED <<status, shown, task, current, astray>>
    BY <1>16 DEF ServeError, backend, history
  <2>4. ASSUME turn.n = n, turn.held, Mirrors(shown[x], stored[x], turn.temp, turn.events, served[n].pc, n)
        PROVE  Mirrors(shown[x], D, turn.temp, turn.events \o es, "over", n)
    <3>1. /\ turn.events \in Seq(Events) /\ EventsFit(turn.events, served[n].pc) /\ turn.s = x
          /\ shown[x] \in Seq(Notes) /\ stored[x] \in Seq(Notes)
      BY <2>1, <2>4, HeldFacts DEF Base, TurnTypes, TurnRecord, BackendTypes, ListInv, EventsInv
    <3> QED
      BY <2>1, <2>4, <3>1, MirrorsError
  <2> HIDE DEF x, es, D
  <2> QED
    BY <2>1, <2>2, <2>3, <2>4, StoredServe DEF x
<1>17. ASSUME NEW p \in Clicks, CreateSession(p)
     PROVE  StoredInv'
  <2> DEFINE t == [NoTask EXCEPT !.op = "create", !.pc = "start", !.s = None]
  <2>1. task' = [task EXCEPT ![p] = t] /\ t.pc \notin {"load", "loaded"} /\ task[p].pc \notin {"load", "loaded"} /\ p \in Tasks
    BY <1>17, TasksAre, TaskFacts
       DEF CreateSession, At, Free, Base, Fits, TaskRecord, NoTask, Run, End
  <2>2. UNCHANGED <<status, stored, served, shown, turn, astray>> /\ current' = current
    BY <1>17 DEF CreateSession, backend, history
  <2> HIDE DEF t
  <2>3. \A x \in Sessions : SameLoads(x)
    BY <2>1, LoadsSame DEF Base, Loads
  <2> QED
    BY <2>2, <2>3, StoredTask
<1>18. ASSUME NEW p \in Clicks, NEW s \in Sessions, ResumeSession(p, s)
     PROVE  StoredInv'
  <2> DEFINE t == [NoTask EXCEPT !.op = "resume", !.pc = "start", !.s = s]
  <2>1. task' = [task EXCEPT ![p] = t] /\ t.pc \notin {"load", "loaded"} /\ task[p].pc \notin {"load", "loaded"} /\ p \in Tasks
    BY <1>18, TasksAre, TaskFacts
       DEF ResumeSession, At, Free, Base, Fits, TaskRecord, NoTask, Run, End
  <2>2. UNCHANGED <<status, stored, served, shown, turn, astray>> /\ current' = current
    BY <1>18 DEF ResumeSession, backend, history
  <2> HIDE DEF t
  <2>3. \A x \in Sessions : SameLoads(x)
    BY <2>1, LoadsSame DEF Base, Loads
  <2> QED
    BY <2>2, <2>3, StoredTask
<1>19. ASSUME NEW p \in Clicks, NEW s \in Sessions, RemoveSession(p, s)
     PROVE  StoredInv'
  <2> DEFINE t == [NoTask EXCEPT !.op = "remove", !.pc = "delete", !.s = s]
  <2>1. task' = [task EXCEPT ![p] = t] /\ t.pc \notin {"load", "loaded"} /\ task[p].pc \notin {"load", "loaded"} /\ p \in Tasks
    BY <1>19, TasksAre, TaskFacts
       DEF RemoveSession, At, Free, Base, Fits, TaskRecord, NoTask, Run, End
  <2>2. UNCHANGED <<status, stored, served, shown, turn, astray>> /\ current' = current
    BY <1>19 DEF RemoveSession, backend, history
  <2> HIDE DEF t
  <2>3. \A x \in Sessions : SameLoads(x)
    BY <2>1, LoadsSame DEF Base, Loads
  <2> QED
    BY <2>2, <2>3, StoredTask
<1>20. ASSUME SendMessage
     PROVE  StoredInv'
  <2>1. CASE current = None
    <3> DEFINE t == [NoTask EXCEPT !.op = "send", !.pc = "start", !.s = None]
    <3>1. task' = [task EXCEPT !["send"] = t] /\ t.pc \notin {"load", "loaded"} /\ "send" \in Tasks
      BY <1>20, <2>1, TasksAre DEF SendMessage, Run, NoTask
    <3>2. ~(task["send"].pc \in {"load", "loaded"})
      BY <1>20, TasksAre, TaskFacts DEF SendMessage, Base, SendingLocks, Free, Fits
    <3>3. UNCHANGED <<status, stored, served, shown, turn, astray>> /\ current' = current
      BY <1>20, <2>1 DEF SendMessage, history
    <3> HIDE DEF t
    <3>4. \A s \in Sessions : SameLoads(s)
      BY <3>1, <3>2, LoadsSame DEF Base, Loads
    <3> QED
      BY <3>3, <3>4, StoredTask
  <2>2. CASE current # None
    <3> DEFINE x == current
               list == EnsureMessageList(x)
    <3>1. x \in Sessions /\ Known(x) /\ ~Open /\ list \in Seq(Notes)
      BY <1>20, <2>2, EnsuredList DEF SendMessage, Base, BarTypes, Known, SendingLocks
    <3>2. BeginStream(x, list) /\ UNCHANGED <<status, stored, current, task>>
      BY <1>20, <2>2 DEF SendMessage
    <3>3. task["send"].pc \notin {"load", "loaded"}
      BY <1>20, TasksAre, TaskFacts DEF SendMessage, Base, SendingLocks, Free, Fits
    <3>4. ASSUME x \notin astray', status[x] = "here" PROVE list = stored[x]
      <4>1. x \notin astray /\ \A p \in Tasks : ~Loads(p, x)
        BY <3>2, <3>3, <3>4 DEF BeginStream, Loads
      <4>2. Agrees(x) /\ ~Loading(x)
        BY <3>1, <4>1 DEF StoredInv, Loading
      <4>3. turn.s # x /\ turn.n = 0
        BY <3>1, NoneIsNot, NoTurnType DEF Base, TurnTypes, Open
      <4>4. \A n \in Turns : n # 0
        BY ChatStoreAssumption DEF Turns
      <4>5. ~Asking(x)
        BY <4>2, <4>3, <4>4 DEF Agrees, LoadsAgree, Asking, Waits
      <4>6. shown[x] # None /\ shown[x] = stored[x]
        BY <3>4, <4>2, <4>5 DEF Agrees, ShownAgrees
      <4> QED
        BY <4>6 DEF EnsureMessageList
    <3>5. \A s \in Sessions : ~Loads("send", s)
      BY <3>3 DEF Loads
    <3> HIDE DEF x, list
    <3> QED
      BY <3>1, <3>2, <3>3, <3>4, <3>5, StoredBegin
  <2> QED
    BY <2>1, <2>2
<1>21. ASSUME SendLoaded
     PROVE  StoredInv'
  <2> DEFINE x == task["send"].s
             list == task["send"].got
  <2>1. x \in Sessions /\ Known(x) /\ ~Open /\ list \in Seq(Notes) /\ At("send", "loaded") /\ "send" \in Tasks
    BY <1>21, TasksAre, TaskFacts DEF SendLoaded, At, Free, Fits, Known, Base, SendingLocks
  <2>2. BeginStream(x, list) /\ UNCHANGED <<status, stored, current>>
    BY <1>21 DEF SendLoaded
  <2>3. task' = [task EXCEPT !["send"] = NoTask] /\ NoTask.pc \notin {"load", "loaded"}
    BY <1>21 DEF SendLoaded, End, NoTask
  <2>4. task'["send"] = NoTask /\ \A q \in Tasks : q # "send" => task'[q] = task[q]
    BY <2>1, <2>3 DEF Base, TaskTypes
  <2>5. \A s \in Sessions : s # x => ~Loads("send", s)
    BY DEF Loads
  <2>6. x \notin astray' => list = stored[x]
    <3>1. x \notin astray' => x \notin astray
      BY <2>2 DEF BeginStream
    <3> QED
      BY <2>1, <3>1 DEF StoredInv, Agrees, LoadsAgree
  <2> HIDE DEF x, list
  <2> QED
    BY <2>1, <2>2, <2>3, <2>4, <2>5, <2>6, StoredBegin
<1>22. ASSUME OnAck
     PROVE  StoredInv'
  <2>0. /\ Open /\ turn.events # <<>> /\ turn.events \in Seq(Events) /\ Messages \in Seq(Notes)
        /\ turn.n \in Turns /\ served[turn.n].pc \in {"asked", "acked", "over", "lost"}
        /\ EventsFit(turn.events, served[turn.n].pc) /\ turn.s \in Sessions /\ turn.temp \in Nat
    BY <1>22, HeldList, OpenFacts
       DEF OnAck, Reads, Base, TurnTypes, TurnRecord, BackendTypes, ServedRecord, ListInv,
           EventsInv
  <2> DEFINE list == Append(Messages, <<turn.n, "user">>)
             temp == turn.temp
  <2>1. list \in Seq(Notes)
    BY <2>0, AppendNote, ReplaceNote DEF Roles
  <2>2. /\ shown' = IF turn.held THEN [shown EXCEPT ![turn.s] = list] ELSE shown
        /\ turn' = [turn EXCEPT !.events = Tail(@), !.temp = temp]
        /\ UNCHANGED <<status, stored, served, task, astray>> /\ current' \in {current, turn.s}
    BY <1>22 DEF OnAck, Update, UpsertSession, backend, history
  <2>3. ASSUME turn.held, Mirrors(shown[turn.s], stored[turn.s], turn.temp, turn.events, served[turn.n].pc, turn.n)
        PROVE  Mirrors(list, stored[turn.s], temp, Tail(turn.events), served[turn.n].pc, turn.n)
    <3>1. Messages = shown[turn.s] /\ stored[turn.s] \in Seq(Notes)
      BY <2>0, <2>3 DEF Messages, Base, BackendTypes
    <3>2. Head(turn.events) = "ack"
      BY <1>22 DEF OnAck, Reads
    <3> QED
      BY <2>0, <2>3, <3>1, <3>2, MirrorsOnAck
  <2> HIDE DEF list, temp
  <2> QED
    BY <2>0, <2>1, <2>2, <2>3, StoredRead
<1>23. ASSUME OnStream
     PROVE  StoredInv'
  <2>0. /\ Open /\ turn.events # <<>> /\ turn.events \in Seq(Events) /\ Messages \in Seq(Notes)
        /\ turn.n \in Turns /\ served[turn.n].pc \in {"asked", "acked", "over", "lost"}
        /\ EventsFit(turn.events, served[turn.n].pc) /\ turn.s \in Sessions /\ turn.temp \in Nat
    BY <1>23, HeldList, OpenFacts
       DEF OnStream, Reads, Base, TurnTypes, TurnRecord, BackendTypes, ServedRecord, ListInv,
           EventsInv
  <2> DEFINE list == IF turn.temp = 0 THEN Append(Messages, <<turn.n, "temp">>) ELSE Messages
             temp == IF turn.temp = 0 THEN Len(Messages) + 1 ELSE turn.temp
  <2>1. list \in Seq(Notes)
    BY <2>0, AppendNote, ReplaceNote DEF Roles
  <2>2. /\ shown' = IF turn.held THEN [shown EXCEPT ![turn.s] = list] ELSE shown
        /\ turn' = [turn EXCEPT !.events = Tail(@), !.temp = temp]
        /\ UNCHANGED <<status, stored, served, task, astray>> /\ current' \in {current, turn.s}
    BY <1>23 DEF OnStream, Update, UpsertSession, backend, history
  <2>3. ASSUME turn.held, Mirrors(shown[turn.s], stored[turn.s], turn.temp, turn.events, served[turn.n].pc, turn.n)
        PROVE  Mirrors(list, stored[turn.s], temp, Tail(turn.events), served[turn.n].pc, turn.n)
    <3>1. Messages = shown[turn.s] /\ stored[turn.s] \in Seq(Notes)
      BY <2>0, <2>3 DEF Messages, Base, BackendTypes
    <3>2. Head(turn.events) = "stream"
      BY <1>23 DEF OnStream, Reads
    <3> QED
      BY <2>0, <2>3, <3>1, <3>2, MirrorsOnStream
  <2> HIDE DEF list, temp
  <2> QED
    BY <2>0, <2>1, <2>2, <2>3, StoredRead
<1>24. ASSUME OnDone
     PROVE  StoredInv'
  <2>0. /\ Open /\ turn.events # <<>> /\ turn.events \in Seq(Events) /\ Messages \in Seq(Notes)
        /\ turn.n \in Turns /\ served[turn.n].pc \in {"asked", "acked", "over", "lost"}
        /\ EventsFit(turn.events, served[turn.n].pc) /\ turn.s \in Sessions /\ turn.temp \in Nat
    BY <1>24, HeldList, OpenFacts
       DEF OnDone, Reads, Base, TurnTypes, TurnRecord, BackendTypes, ServedRecord, ListInv,
           EventsInv
  <2> DEFINE list == IF turn.temp = 0 THEN Append(Messages, <<turn.n, "ai">>)
                     ELSE Replaced(Messages, turn.temp, <<turn.n, "ai">>)
             temp == IF turn.temp = 0 THEN 0 ELSE turn.temp
  <2>1. list \in Seq(Notes)
    BY <2>0, AppendNote, ReplaceNote DEF Roles
  <2>2. /\ shown' = IF turn.held THEN [shown EXCEPT ![turn.s] = list] ELSE shown
        /\ turn' = [turn EXCEPT !.events = Tail(@), !.temp = temp]
        /\ UNCHANGED <<status, stored, served, task, astray>> /\ current' \in {current, turn.s}
    BY <1>24 DEF OnDone, Update, UpsertSession, backend, history, Replaced
  <2>3. ASSUME turn.held, Mirrors(shown[turn.s], stored[turn.s], turn.temp, turn.events, served[turn.n].pc, turn.n)
        PROVE  Mirrors(list, stored[turn.s], temp, Tail(turn.events), served[turn.n].pc, turn.n)
    <3>1. Messages = shown[turn.s] /\ stored[turn.s] \in Seq(Notes)
      BY <2>0, <2>3 DEF Messages, Base, BackendTypes
    <3>2. Head(turn.events) \in {"done", "titled"}
      BY <1>24 DEF OnDone, Reads
    <3> QED
      BY <2>0, <2>3, <3>1, <3>2, MirrorsOnDone
  <2> HIDE DEF list, temp
  <2> QED
    BY <2>0, <2>1, <2>2, <2>3, StoredRead
<1>25. ASSUME OnError
     PROVE  StoredInv'
  <2>1. Open /\ turn' = NoTurn /\ astray' = astray \cup {turn.s}
    BY <1>25 DEF OnError, Throws, Finally, Reads
  <2>2. UNCHANGED <<status, stored, served, shown, task, current>>
    BY <1>25 DEF OnError, Throws, backend
  <2> QED
    BY <2>1, <2>2, StoredClosed
<1>26. ASSUME StreamEnd
     PROVE  StoredInv'
  <2>1. Open /\ turn' = NoTurn /\ turn.events # <<>> /\ Head(turn.events) = "end" /\ turn.events \in Seq(Events)
    BY <1>26 DEF StreamEnd, Finally, Reads, Base, TurnTypes, TurnRecord
  <2>2. UNCHANGED <<status, stored, served, shown, task, current, astray>>
    BY <1>26 DEF StreamEnd, backend, history
  <2>3. turn.events[1] = "end" /\ 1 \in DOMAIN turn.events
    BY <2>1, OneFewer
  <2>4. EventsFit(turn.events, served[turn.n].pc) /\ served[turn.n].pc \in {"asked", "acked", "over", "lost"}
    BY <2>1, OpenFacts DEF ListInv, EventsInv, Base, TurnTypes, BackendTypes, ServedRecord
  <2>5. served[turn.n].pc = "over"
    BY <2>3, <2>4 DEF EventsFit
  <2> QED
    BY <2>1, <2>2, <2>3, <2>5, StoredClosed
<1>27. ASSUME StreamBreaks
     PROVE  StoredInv'
  <2>1. Open /\ turn' = NoTurn /\ astray' = astray \cup {turn.s}
    BY <1>27 DEF StreamBreaks, Throws, Finally, Reads
  <2>2. UNCHANGED <<status, stored, served, shown, task, current>>
    BY <1>27 DEF StreamBreaks, Throws, backend
  <2> QED
    BY <2>1, <2>2, StoredClosed
<1>28. ASSUME UploadFiles
     PROVE  StoredInv'
  <2>1. /\ task["upload"].pc = "none" /\ ~Open /\ "upload" \in Tasks
        /\ UNCHANGED <<status, stored, served, turn, current, astray>>
    BY <1>28, TasksAre, TaskFacts
       DEF UploadFiles, Free, Base, Fits, SendingLocks, backend, history
  <2>2. \A s \in Sessions : SameLoads(s)
    <3>1. Run("upload", "upload", "start", None) \/ BeginUpload(current)
      BY <1>28 DEF UploadFiles
    <3>2. ASSUME NEW t, task' = [task EXCEPT !["upload"] = t], t.pc \notin {"load", "loaded"}
          PROVE  \A s \in Sessions : SameLoads(s)
      BY <2>1, <3>2, LoadsSame DEF Base, Loads
    <3>3. CASE Run("upload", "upload", "start", None)
      <4>1. [NoTask EXCEPT !.op = "upload", !.pc = "start", !.s = None].pc = "start"
        BY DEF NoTask
      <4> QED
        BY <3>2, <3>3, <4>1 DEF Run
    <3>4. CASE BeginUpload(current)
      <4>1. [NoTask EXCEPT !.op = "upload", !.pc = "upload", !.s = current, !.copy = files[current]].pc = "upload"
        BY DEF NoTask
      <4> QED
        BY <3>2, <3>4, <4>1 DEF BeginUpload
    <3> QED
      BY <3>1, <3>3, <3>4
  <2>3. CASE shown' = shown
    BY <2>1, <2>2, <2>3, StoredTask
  <2>4. CASE current # None /\ shown' = [shown EXCEPT ![current] = EnsureMessageList(current)]
    <3>1. current \in Sessions /\ turn.s # current
      BY <2>1, <2>4, NoTurnType DEF Base, BarTypes, Known, TurnTypes
    <3>2. \A s \in Sessions : s # current \/ shown[s] # None => shown'[s] = shown[s]
      BY <2>4 DEF Base, ShownTypes, EnsureMessageList
    <3>3. \A n \in Turns, s \in Sessions : Waits(n, s)' <=> Waits(n, s)
      BY <2>1 DEF Waits
    <3> SUFFICES ASSUME NEW s \in Sessions \ astray PROVE Agrees(s)'
      BY <2>1 DEF StoredInv
    <3>4. Agrees(s)
      BY DEF StoredInv
    <3>5. CASE s # current \/ shown[s] # None
      BY <2>1, <2>2, <3>2, <3>3, <3>4, <3>5, AgreesKept
    <3>6. CASE s = current /\ shown[s] = None
      <4>1. (Loading(s)' <=> Loading(s)) /\ (Asking(s)' <=> Asking(s))
        BY <2>1, <2>2 DEF SameLoads, Loading, Asking
      <4>2. LoadsAgree(s)'
        BY <2>1, <2>2, <3>3, <3>4, <4>1 DEF SameLoads, Agrees, LoadsAgree, At
      <4>3. status[s] = "here" => Loading(s)
        BY <3>4, <3>6 DEF Agrees, ShownAgrees
      <4>4. status[s] = "here" => ShownAgrees(s)'
        BY <2>1, <3>1, <3>6, <4>1, <4>3 DEF ShownAgrees
      <4> QED
        BY <2>1, <3>4, <4>2, <4>4 DEF Agrees
    <3> QED
      BY <3>5, <3>6
  <2> QED
    BY <1>28, <2>3, <2>4 DEF UploadFiles
<1>29. ASSUME UploadLoaded
     PROVE  StoredInv'
  <2>1. At("upload", "loaded") /\ task["upload"].s \in Sessions /\ "upload" \in Tasks
    BY <1>29, TasksAre, TaskFacts DEF UploadLoaded, At, Fits, Known, Base
  <2> DEFINE s == task["upload"].s
             t == [NoTask EXCEPT !.op = "upload", !.pc = "upload", !.s = s, !.copy = files[s]]
  <2>2. task' = [task EXCEPT !["upload"] = t] /\ t.pc \notin {"load", "loaded"}
    BY <1>29 DEF UploadLoaded, BeginUpload, NoTask
  <2>3. shown' = [shown EXCEPT ![s] = task["upload"].got] /\ LetGo(s)
        /\ UNCHANGED <<status, stored, served, current, astray>>
    BY <1>29 DEF UploadLoaded, backend, history
  <2> HIDE DEF t
  <2> QED
    BY <2>1, <2>2, <2>3, StoredLoaded
<1>30. ASSUME Uploaded
     PROVE  StoredInv'
  <2>1. task["upload"].pc = "uploaded" /\ task["upload"] \in TaskRecord /\ "upload" \in Tasks
        /\ UNCHANGED <<status, stored, served, shown, turn, astray>> /\ current' = current
    BY <1>30, TasksAre, TaskFacts DEF Uploaded, At, Base, backend, history
  <2>2. ASSUME NEW t, task' = [task EXCEPT !["upload"] = t], t.pc \notin {"load", "loaded"}
        PROVE  StoredInv'
    <3>1. \A s \in Sessions : SameLoads(s)
      BY <2>1, <2>2, LoadsSame DEF Base, Loads
    <3> QED
      BY <2>1, <3>1, StoredTask
  <2>3. ASSUME NEW copy, NEW new,
               task' = [task EXCEPT !["upload"] = [task["upload"] EXCEPT
                 !.pc = "upload", !.got = <<>>, !.copy = copy, !.new = new]]
        PROVE  StoredInv'
    <3>1. [task["upload"] EXCEPT !.pc = "upload", !.got = <<>>, !.copy = copy, !.new = new].pc = "upload"
      BY <2>1 DEF TaskRecord
    <3> QED
      BY <2>2, <2>3, <3>1
  <2>4. CASE End("upload")
    <3>1. NoTask.pc = "none"
      BY DEF NoTask
    <3> QED
      BY <2>2, <2>4, <3>1 DEF End
  <2> QED
    BY <1>30, <2>3, <2>4 DEF Uploaded
<1>31. ASSUME NEW f \in Files, RemoveAttachment(f)
     PROVE  StoredInv'
  BY <1>31, <1>1 DEF RemoveAttachment, backend, history
<1>32. CASE UNCHANGED vars
  BY <1>32, <1>1 DEF vars, backend, history
<1>start. ASSUME NEW p \in Tasks, StartLost(p)
     PROVE  StoredInv'
  <2> DEFINE t == [task[p] EXCEPT !.pc = "lost"]
  <2>1. task[p].pc = "start" /\ task[p] \in TaskRecord
    BY <1>start, TaskFacts DEF StartLost, At, Base
  <2>2. t.pc \notin {"load", "loaded"}
    BY <2>1 DEF TaskRecord
  <2>3. task' = [task EXCEPT ![p] = t]
    BY <1>start DEF StartLost
  <2>4. UNCHANGED <<status, stored, served, shown, turn, astray>> /\ current' = current
    BY <1>start DEF StartLost, backend, history
  <2> HIDE DEF t
  <2>5. \A s \in Sessions : SameLoads(s)
    BY <2>1, <2>2, <2>3, LoadsSame DEF Base, Loads
  <2> QED
    BY <2>4, <2>5, StoredTask
<1>lost. ASSUME NEW n \in Turns, ServeLost(n)
     PROVE  StoredInv'
  <2> DEFINE x == served[n].s
             es == <<>>
             D == stored[x]
  <2>1. /\ x \in Sessions /\ Known(x) /\ served[n].pc \in {"asked", "acked"}
        /\ served'[n].pc = "lost" /\ served'[n].s = x /\ \A m \in Turns : m # n => served'[m] = served[m]
    BY <1>lost DEF ServeLost, Base, BackendTypes, ServedRecord, Known
  <2>2. /\ Emit(n, es) /\ stored'[x] = D /\ \A s \in Sessions : s # x => stored'[s] = stored[s]
    BY <1>lost, <2>1 DEF ServeLost, Emit, Base, TurnTypes, TurnRecord, BackendTypes, backend
  <2>3. UNCHANGED <<status, shown, task, current, astray>>
    BY <1>lost DEF ServeLost, backend, history
  <2>4. ASSUME turn.n = n, turn.held, Mirrors(shown[x], stored[x], turn.temp, turn.events, served[n].pc, n)
        PROVE  Mirrors(shown[x], D, turn.temp, turn.events \o es, "lost", n)
    <3>1. turn.events \in Seq(Events) /\ EventsFit(turn.events, served[n].pc)
      BY <2>1, <2>4, HeldFacts DEF Base, TurnTypes, TurnRecord, ListInv, EventsInv
    <3>2. turn.events \o es = turn.events /\ served[n].pc = "acked"
      BY <1>lost, <3>1 DEF ServeLost
    <3>3. \A i \in DOMAIN turn.events : turn.events[i] \in {"ack", "stream"}
      BY <3>1, <3>2 DEF EventsFit
    <3> QED
      BY <2>4, <3>2, <3>3 DEF Mirrors, Answered
  <2> HIDE DEF x, es, D
  <2> QED
    BY <2>1, <2>2, <2>3, <2>4, StoredServe DEF x
<1> QED
  BY <1>start, <1>lost, <1>1, <1>2, <1>3, <1>4, <1>5, <1>6, <1>7, <1>8, <1>9, <1>10, <1>11, <1>12, <1>13,
     <1>14, <1>15, <1>16, <1>17, <1>18, <1>19, <1>20, <1>21, <1>22, <1>23, <1>24, <1>25,
     <1>26, <1>27, <1>28, <1>29, <1>30, <1>31, <1>32 DEF Next, Answer, ServeQuestion, ReadStream

LEMMA StoredInvInit == Init => StoredInv
<1> SUFFICES ASSUME Init, NEW s \in Sessions PROVE Agrees(s)
  BY DEF StoredInv
<1>1. PICK S \in {{}} \cup {{x} : x \in Sessions} :
        /\ status = [x \in Sessions |-> IF x \in S THEN "here" ELSE "new"]
        /\ stored = [x \in Sessions |-> IF x \in S THEN Older ELSE <<>>]
  BY DEF Init
<1>2. \A p \in Tasks : task[p].pc \notin {"load", "loaded"}
  BY DEF Init, NoTask
<1>3. \A n \in Turns : ~Waits(n, s)
  BY DEF Init, Waits
<1>4. turn.s # s /\ current # s /\ shown[s] = None
  BY NoneIsNot, NoTurnType DEF Init
<1>5. LoadsAgree(s)
  BY <1>2, <1>3 DEF LoadsAgree, Loading, Loads, At
<1>6. ShownAgrees(s)
  BY <1>4 DEF ShownAgrees
<1>7. status[s] = "new" => stored[s] = <<>>
  BY <1>1
<1> QED
  BY <1>5, <1>6, <1>7 DEF Agrees

\* Once nothing is under way for a session, its list is what the database has,
\* unless it went astray and has not been loaded since.
THEOREM ChatStoreShownIsStored == Spec => []ShownIsStored
<1>1. Base /\ ListInv /\ StoredInv /\ [Next]_vars => StoredInv'
  BY StoredInvStep
<1>2. StoredInv => ShownIsStored
  BY DEF StoredInv, Agrees, ShownAgrees, ShownIsStored, Here
<1> QED
  BY StoredInvInit, <1>1, <1>2, ChatStoreBase, ChatStoreLists, PTL DEF Spec

=============================================================================
