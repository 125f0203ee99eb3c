------------------------------ MODULE ChatStore ------------------------------
(***************************************************************************)
(* The chat page of one user: the Pinia store of store/session.js with the *)
(* guards of the buttons that call it, and the requests of api/sessions.js.*)
(* JavaScript runs one function at a time, but each gives way at every     *)
(* await: a step of an async function is its code from one await to the    *)
(* next.  The backend carries out a request before the page hears of it,   *)
(* and a request may fail at either end.                                   *)
(*                                                                         *)
(* A message is <<n, role>>, n the question that brought it (0 for those   *)
(* of an earlier visit) and role "user", "ai" or, while it streams, "temp".*)
(* Left out: providers and their tokens, titles, previews, texts and       *)
(* clientMessageStates, which nothing reads.                               *)
(***************************************************************************)
EXTENDS Naturals, FiniteSets, Sequences, SequencesExt, Sublists

CONSTANTS
  Sessions,   \* the sessions that may ever be created
  Files,      \* the files that may be uploaded
  Clicks,     \* calls of the side bar and of the page at work at one time
  None,
  MaxTurns,   \* bound on the questions sent
  MaxChunks   \* bound on the stream events of one answer

Roles == {"user", "ai", "temp"}
Notes == (0..MaxTurns) \X Roles

ASSUME ChatStoreAssumption ==
  /\ IsFiniteSet(Sessions)
  /\ None \notin Sessions \cup Seq(Notes)
  /\ Clicks \cap {"send", "upload"} = {}
  /\ MaxTurns \in Nat
  /\ MaxChunks \in Nat

VARIABLES
  status,    \* backend: of each session, "new", "here" or "gone"
  stored,    \* backend: its messages, in order
  served,    \* backend: how far it is with each question
  home,      \* backend: the session a file was uploaded to, or None
  sessions,  \* sessions.value
  current,   \* currentSessionId.value
  shown,     \* messagesBySession.value: the list of a session, or None
  files,     \* attachmentsBySession.value
  sending,   \* sending.value
  task,      \* the async functions at work
  turn,      \* sendMessage from streamConversation on
  astray,    \* history: sessions whose list may differ from the stored one
  spent,     \* history: files sent or removed
  dropped,   \* history: files of a failed upload or of a removed session
  crossed,   \* history: files of an upload that a send or a removal crossed
  stuck      \* history: createSession failed inside sendMessage

backend == <<status, stored, served, home>>
history == <<astray, spent, dropped, crossed, stuck>>
vars    == <<backend, sessions, current, shown, files, sending, task, turn, history>>

Turns == 1..MaxTurns
Tasks == Clicks \cup {"send", "upload"}
Older == << <<0, "user">>, <<0, "ai">> >>

\* got: what the answer brings; copy, new: uploaded and the part of it this call added.
NoTask == [op |-> "none", pc |-> "none", s |-> None, got |-> <<>>, copy |-> {}, new |-> {}]
\* held: userMessages is still the list shown; temp: tempAssistantIndex, from 1;
\* out: file_ids; events: what the page has still to read, "end" for the end of the body.
NoTurn == [n |-> 0, s |-> None, held |-> FALSE, temp |-> 0, out |-> {}, events |-> <<>>]

\* DashboardView is mounted: loadSessions asks for the list.
Init ==
  /\ \E S \in {{}} \cup {{s} : s \in Sessions} :
       /\ status = [s \in Sessions |-> IF s \in S THEN "here" ELSE "new"]
       /\ stored = [s \in Sessions |-> IF s \in S THEN Older ELSE <<>>]
  /\ served = [n \in Turns |-> [pc |-> "none", s |-> None, chunks |-> 0]]
  /\ home = [f \in Files |-> None]
  /\ sessions = <<>>
  /\ current = None
  /\ shown = [s \in Sessions |-> None]
  /\ files = [s \in Sessions |-> {}]
  /\ sending = FALSE
  /\ \E c \in Clicks : task = [p \in Tasks |->
       IF p = c THEN [NoTask EXCEPT !.op = "list", !.pc = "list"] ELSE NoTask]
  /\ turn = NoTurn
  /\ astray = {} /\ spent = {} /\ dropped = {} /\ crossed = {}
  /\ stuck = FALSE

At(p, pc)  == task[p].pc = pc
Free(p)    == task[p].op = "none"
Open       == turn.n # 0
Here(s)    == s # None /\ status[s] = "here"
Loads(p, s) == task[p].pc \in {"load", "loaded"} /\ task[p].s = s
Loading(s) == \E p \in Tasks : Loads(p, s)
Asking(s)  == \/ turn.s = s
              \/ \E n \in Turns : served[n].pc \in {"asked", "acked"} /\ served[n].s = s

Run(p, op, pc, s) == task' = [task EXCEPT ![p] = [NoTask EXCEPT !.op = op, !.pc = pc, !.s = s]]
End(p)            == task' = [task EXCEPT ![p] = NoTask]

(* What the backend does with a request; its answer is then on the way. *)

ServeList(p) ==
  /\ At(p, "list")
  /\ \E list \in SetToSeqs({s \in Sessions : Here(s)}) :
       task' = [task EXCEPT ![p] = [@ EXCEPT !.pc = "listed", !.got = list]]
  /\ UNCHANGED <<backend, sessions, current, shown, files, sending, turn, history>>

\* A new session for session_id 0, else the one named.
ServeStart(p) ==
  /\ At(p, "start")
  /\ \E s \in Sessions :
       /\ IF task[p].s = None THEN status[s] = "new" ELSE s = task[p].s /\ Here(s)
       /\ status' = [status EXCEPT ![s] = "here"]
       /\ task' = [task EXCEPT ![p] = [@ EXCEPT !.pc = "started", !.s = s]]
  /\ UNCHANGED <<stored, served, home, sessions, current, shown, files, sending, turn, history>>

\* Its job is dropped from the queue of the user, by a logout elsewhere or by the
\* removal of a token: InitSession waits for its result ever after.  For a click
\* or an upload that is a start never served, which nothing here forbids.
StartLost(p) ==
  /\ p = "send"
  /\ At(p, "start")
  /\ task' = [task EXCEPT ![p].pc = "lost"]
  /\ UNCHANGED <<backend, sessions, current, shown, files, sending, turn, history>>

ServeLoad(p) ==
  LET s == task[p].s IN
  /\ At(p, "load")
  /\ Here(s)
  /\ task' = [task EXCEPT ![p] = [@ EXCEPT !.pc = "loaded", !.got = stored[s]]]
  /\ UNCHANGED <<backend, sessions, current, shown, files, sending, turn, history>>

ServeDelete(p) ==
  LET s == task[p].s IN
  /\ At(p, "delete")
  /\ Here(s)
  /\ status' = [status EXCEPT ![s] = "gone"]
  /\ task' = [task EXCEPT ![p].pc = "deleted"]
  /\ UNCHANGED <<stored, served, home, sessions, current, shown, files, sending, turn, history>>

ServeUpload(p) ==
  LET s == task[p].s IN
  /\ At(p, "upload")
  /\ Here(s)
  /\ \E f \in Files :
       /\ home[f] = None
       /\ home' = [home EXCEPT ![f] = s]
       /\ task' = [task EXCEPT ![p] = [@ EXCEPT !.pc = "uploaded", !.got = <<f>>]]
  /\ UNCHANGED <<status, stored, served, sessions, current, shown, files, sending, turn, history>>

\* captureInput goes on when the page has stopped listening.
Emit(n, es) == turn' = IF turn.n = n THEN [turn EXCEPT !.events = @ \o es] ELSE turn

ServeAck(n) ==
  LET s == served[n].s IN
  /\ served[n].pc = "asked"
  /\ Here(s)
  /\ stored' = [stored EXCEPT ![s] = Append(@, <<n, "user">>)]
  /\ served' = [served EXCEPT ![n].pc = "acked"]
  /\ Emit(n, <<"ack">>)
  /\ UNCHANGED <<status, home, sessions, current, shown, files, sending, task, history>>

ServeChunk(n) ==
  /\ served[n].pc = "acked"
  /\ served[n].chunks < MaxChunks
  /\ served' = [served EXCEPT ![n].chunks = @ + 1]
  /\ Emit(n, <<"stream">>)
  /\ UNCHANGED <<status, stored, home, sessions, current, shown, files, sending, task, history>>

\* The backend titles a session at its first answer, as far as it can tell:
\* after a failure it may do so at a later one, or never.
ServeDone(n) ==
  LET s == served[n].s IN
  /\ served[n].pc = "acked"
  /\ Here(s)
  /\ stored' = [stored EXCEPT ![s] = Append(@, <<n, "ai">>)]
  /\ served' = [served EXCEPT ![n] = [@ EXCEPT !.pc = "over", !.chunks = 0]]
  /\ \E e \in {"titled", "done"} : Emit(n, <<e, "end">>)
  /\ UNCHANGED <<status, home, sessions, current, shown, files, sending, task, history>>

ServeError(n) ==
  /\ served[n].pc \in {"asked", "acked"}
  /\ served' = [served EXCEPT ![n] = [@ EXCEPT !.pc = "over", !.chunks = 0]]
  /\ Emit(n, <<"error">>)
  /\ UNCHANGED <<status, stored, home, sessions, current, shown, files, sending, task, history>>

\* Its job is dropped as that of StartLost may be: Stream waits ever after.
ServeLost(n) ==
  /\ served[n].pc = "acked"
  /\ served[n].chunks = 0
  /\ served' = [served EXCEPT ![n].pc = "lost"]
  /\ UNCHANGED <<status, stored, home, sessions, current, shown, files, sending, task, turn, history>>

(* createSession, resumeSession, loadSessions, removeSession *)

CreateSession(p) ==
  /\ Free(p)
  /\ Run(p, "create", "start", None)
  /\ UNCHANGED <<backend, sessions, current, shown, files, sending, turn, history>>

ResumeSession(p, s) ==
  /\ Free(p)
  /\ Contains(sessions, s)
  /\ Run(p, "resume", "start", s)
  /\ UNCHANGED <<backend, sessions, current, shown, files, sending, turn, history>>

RemoveSession(p, s) ==
  /\ Free(p)
  /\ Contains(sessions, s)
  /\ Run(p, "remove", "delete", s)
  /\ UNCHANGED <<backend, sessions, current, shown, files, sending, turn, history>>

\* loadMessages asks for the messages of s.
LoadMessages(p, s) ==
  /\ task' = [task EXCEPT ![p] = [@ EXCEPT !.pc = "load", !.s = s]]
  /\ astray' = IF Asking(s) THEN astray \cup {s}
               ELSE IF Loading(s) THEN astray ELSE astray \ {s}

\* Mutant: the session is not looked for.
UpsertUnchecked(s) == sessions' = <<s>> \o sessions

UpsertSession(s) ==
  sessions' = IF Contains(sessions, s) THEN sessions ELSE <<s>> \o sessions

Started(p) ==
  LET s == task[p].s IN
  /\ At(p, "started")
  /\ UpsertSession(s)
  /\ current' = s
  /\ LoadMessages(p, s)
  /\ UNCHANGED <<backend, shown, files, sending, turn, spent, dropped, crossed, stuck>>

Listed(p) ==
  LET list == task[p].got IN
  /\ At(p, "listed")
  /\ sessions' = list
  /\ IF list = <<>>
     THEN task' = [task EXCEPT ![p].pc = "tokens"] /\ UNCHANGED <<current, astray>>
     ELSE current' = Head(list) /\ LoadMessages(p, Head(list))
  /\ UNCHANGED <<backend, shown, files, sending, turn, spent, dropped, crossed, stuck>>

\* Mutant: the callbacks look the list up anew.
LetGoNever(s) == turn' = turn

\* A send at work keeps the array it holds, which is no longer the one shown.
LetGo(s) == turn' = IF turn.s = s THEN [turn EXCEPT !.held = FALSE] ELSE turn

Deleted(p) ==
  LET s == task[p].s
      remaining == Sublist(sessions, {i \in DOMAIN sessions : sessions[i] # s}) IN
  /\ At(p, "deleted")
  /\ sessions' = remaining
  /\ shown' = [shown EXCEPT ![s] = None]
  /\ LetGo(s)
  /\ files' = [files EXCEPT ![s] = {}]
  /\ dropped' = dropped \cup files[s]
  /\ IF remaining = <<>>
     THEN current' = None /\ End(p) /\ UNCHANGED astray
     ELSE current' = Head(remaining) /\ LoadMessages(p, Head(remaining))
  /\ UNCHANGED <<backend, sending, spent, crossed, stuck>>

\* The last await of a click; loadSessions goes on to fetchTokens.
Loaded(p) ==
  LET s == task[p].s IN
  /\ p \in Clicks
  /\ At(p, "loaded")
  /\ shown' = [shown EXCEPT ![s] = task[p].got]
  /\ LetGo(s)
  /\ IF task[p].op = "list" THEN task' = [task EXCEPT ![p].pc = "tokens"] ELSE End(p)
  /\ UNCHANGED <<backend, sessions, current, files, sending, history>>

TokensFetched(p) ==
  /\ At(p, "tokens")
  /\ End(p)
  /\ UNCHANGED <<backend, sessions, current, shown, files, sending, turn, history>>

(* sendMessage *)

\* The list of s, created when there is none.
EnsureMessageList(s) == IF shown[s] = None THEN <<>> ELSE shown[s]

Unasked(n) == served[n].pc = "none" /\ \A m \in 1..(n - 1) : served[m].pc # "none"

\* From the list and the attachments of s to streamConversation.
BeginStream(s, list) ==
  /\ shown' = [shown EXCEPT ![s] = list]
  /\ \E n \in Turns :
       /\ Unasked(n)
       /\ served' = [served EXCEPT ![n] = [@ EXCEPT !.pc = "asked", !.s = s]]
       /\ turn' = [NoTurn EXCEPT !.n = n, !.s = s, !.held = TRUE, !.out = files[s]]
  /\ spent' = spent \cup files[s]
  /\ crossed' = crossed \cup (IF task["upload"].s = s THEN task["upload"].copy ELSE {})
  /\ astray' = IF \E p \in Tasks \ {"send"} : Loads(p, s) THEN astray \cup {s} ELSE astray

SendMessage ==
  /\ ~sending
  /\ \E n \in Turns : Unasked(n)
  /\ sending' = TRUE
  /\ \/ /\ current = None
        /\ Run("send", "send", "start", None)
        /\ UNCHANGED <<served, shown, turn, history>>
     \/ /\ current # None
        /\ BeginStream(current, EnsureMessageList(current))
        /\ UNCHANGED <<task, dropped, stuck>>
  /\ UNCHANGED <<status, stored, home, sessions, current, files>>

SendLoaded ==
  /\ At("send", "loaded")
  /\ End("send")
  /\ BeginStream(task["send"].s, task["send"].got)
  /\ UNCHANGED <<status, stored, home, sessions, current, files, sending, dropped, stuck>>

Reads(e) == Open /\ turn.events # <<>> /\ Head(turn.events) = e

\* What a callback leaves in the list it holds, and what is left to read.
Update(list, temp) ==
  /\ shown' = IF turn.held THEN [shown EXCEPT ![turn.s] = list] ELSE shown
  /\ turn' = [turn EXCEPT !.events = Tail(@), !.temp = temp]

Messages == IF turn.held THEN shown[turn.s] ELSE <<>>

OnAck ==
  /\ Reads("ack")
  /\ Update(Append(Messages, <<turn.n, "user">>), turn.temp)
  /\ UNCHANGED <<backend, sessions, current, files, sending, task, history>>

\* Mutant: the index of the draft is one too high.
OnStreamBeyond ==
  /\ Reads("stream")
  /\ IF turn.temp = 0
     THEN Update(Append(Messages, <<turn.n, "temp">>), Len(Messages) + 2)
     ELSE Update(Messages, turn.temp)
  /\ UNCHANGED <<backend, sessions, current, files, sending, task, history>>

OnStream ==
  /\ Reads("stream")
  /\ IF turn.temp = 0
     THEN Update(Append(Messages, <<turn.n, "temp">>), Len(Messages) + 1)
     ELSE Update(Messages, turn.temp)
  /\ UNCHANGED <<backend, sessions, current, files, sending, task, history>>

OnDone ==
  /\ \/ /\ Reads("titled")
        /\ UpsertSession(turn.s)
        /\ current' = IF current = None THEN turn.s ELSE current
     \/ /\ Reads("done")
        /\ UNCHANGED <<sessions, current>>
  /\ IF turn.temp = 0
     THEN Update(Append(Messages, <<turn.n, "ai">>), 0)
     ELSE Update([i \in DOMAIN Messages |->
                    IF i = turn.temp THEN <<turn.n, "ai">> ELSE Messages[i]], turn.temp)
  /\ files' = [files EXCEPT ![turn.s] = {}]
  /\ UNCHANGED <<backend, sending, task, history>>

\* Mutant: the attachments are cleared by onDone only.
FinallyKeeps == sending' = FALSE /\ turn' = NoTurn /\ UNCHANGED files

Finally ==
  /\ sending' = FALSE
  /\ files' = [files EXCEPT ![turn.s] = {}]
  /\ turn' = NoTurn

StreamEnd ==
  /\ Reads("end")
  /\ Finally
  /\ UNCHANGED <<backend, sessions, current, shown, task, history>>

\* Mutant: sending is reset when the conversation succeeds only.
ThrowsLocked ==
  /\ turn' = NoTurn
  /\ files' = [files EXCEPT ![turn.s] = {}]
  /\ astray' = astray \cup {turn.s}
  /\ UNCHANGED <<backend, sessions, current, shown, sending, task, spent, dropped, crossed, stuck>>

\* The question or the answer may be stored and not shown, a draft shown and not stored.
Throws ==
  /\ Finally
  /\ astray' = astray \cup {turn.s}
  /\ UNCHANGED <<backend, sessions, current, shown, task, spent, dropped, crossed, stuck>>

OnError == Reads("error") /\ Throws

\* The connection fails before the end is read.
StreamBreaks == Open /\ turn.events # <<"end">> /\ Throws

(* uploadFiles, removeAttachment *)

\* The first file is sent; uploaded starts from the attachments of s.
BeginUpload(s) ==
  task' = [task EXCEPT !["upload"] = [NoTask EXCEPT !.op = "upload", !.pc = "upload",
                                                    !.s = s, !.copy = files[s]]]

UploadFiles ==
  /\ Free("upload")
  /\ ~sending
  /\ \E f \in Files : home[f] = None
  /\ \/ /\ current = None
        /\ Run("upload", "upload", "start", None)
        /\ UNCHANGED shown
     \/ /\ current # None
        /\ BeginUpload(current)
        /\ shown' = [shown EXCEPT ![current] = EnsureMessageList(current)]
  /\ UNCHANGED <<backend, sessions, current, files, sending, turn, history>>

UploadLoaded ==
  LET s == task["upload"].s IN
  /\ At("upload", "loaded")
  /\ BeginUpload(s)
  /\ shown' = [shown EXCEPT ![s] = task["upload"].got]
  /\ LetGo(s)
  /\ UNCHANGED <<backend, sessions, current, files, sending, history>>

\* The next file, or setAttachments after the last.
Uploaded ==
  LET up  == task["upload"]
      new == Range(up.got) IN
  /\ At("upload", "uploaded")
  /\ \/ /\ task' = [task EXCEPT !["upload"] =
             [up EXCEPT !.pc = "upload", !.got = <<>>, !.copy = @ \cup new, !.new = @ \cup new]]
        /\ UNCHANGED <<files, crossed>>
     \/ /\ files' = [files EXCEPT ![up.s] = up.copy \cup new]
        /\ crossed' = IF turn.s = up.s THEN crossed \cup up.copy \cup new ELSE crossed
        /\ End("upload")
  /\ UNCHANGED <<backend, sessions, current, shown, sending, turn, astray, spent, dropped, stuck>>

RemoveAttachment(f) ==
  /\ current # None
  /\ f \in files[current]
  /\ files' = [files EXCEPT ![current] = @ \ {f}]
  /\ spent' = spent \cup {f}
  /\ crossed' = IF f \in task["upload"].copy THEN crossed \cup {f} ELSE crossed
  /\ UNCHANGED <<backend, sessions, current, shown, sending, task, turn, astray, dropped, stuck>>

\* The request p waits for fails, or its answer is lost: the function throws.
\* loadSessions then empties the list; sendMessage has not reached its try.
CallFails(p) ==
  LET t == task[p] IN
  /\ ~Free(p)
  /\ End(p)
  /\ sessions' = IF t.op = "list" THEN <<>> ELSE sessions
  /\ stuck' = (stuck \/ t.op = "send")
  /\ astray' = IF t.pc \in {"load", "loaded"} THEN astray \cup {t.s} ELSE astray
  /\ dropped' = IF t.op = "upload" /\ t.pc \in {"upload", "uploaded"}
                THEN dropped \cup t.new \cup Range(t.got) ELSE dropped
  /\ UNCHANGED <<backend, current, shown, files, sending, turn, spent, crossed>>

Answer(p) ==
  \/ ServeList(p) \/ ServeStart(p) \/ StartLost(p)
  \/ ServeLoad(p) \/ ServeDelete(p) \/ ServeUpload(p)
  \/ Started(p) \/ Listed(p) \/ Deleted(p) \/ Loaded(p) \/ TokensFetched(p)
  \/ CallFails(p)

ServeQuestion(n) ==
  ServeAck(n) \/ ServeChunk(n) \/ ServeDone(n) \/ ServeError(n) \/ ServeLost(n)

ReadStream == OnAck \/ OnStream \/ OnDone \/ OnError \/ StreamEnd

Next ==
  \/ \E p \in Tasks : Answer(p)
  \/ \E n \in Turns : ServeQuestion(n)
  \/ \E c \in Clicks : \/ CreateSession(c)
                       \/ \E s \in Sessions : ResumeSession(c, s) \/ RemoveSession(c, s)
  \/ SendMessage \/ SendLoaded \/ ReadStream \/ StreamBreaks
  \/ UploadFiles \/ UploadLoaded \/ Uploaded
  \/ \E f \in Files : RemoveAttachment(f)

Spec == Init /\ [][Next]_vars

\* The backend lost the job of the request that the send waits for.
Lost == At("send", "lost") \/ (Open /\ served[turn.n].pc = "lost")

\* A request of a send is answered, fails or is lost, and the page reads an answer.
\* That a connection breaks, which alone ends the wait for a lost job, is not assumed.
Fairness ==
  /\ WF_vars((~Lost /\ Answer("send")) \/ SendLoaded)
  /\ \A n \in Turns : WF_vars(ServeQuestion(n))
  /\ WF_vars(ReadStream)

FairSpec == Spec /\ Fairness

-----------------------------------------------------------------------------

\* Types; a question is open only while sending is set, and the answer being
\* streamed stands where onStream put it as long as its list is the one shown.
TypeOK ==
  /\ status \in [Sessions -> {"new", "here", "gone"}]
  /\ stored \in [Sessions -> Seq(Notes)]
  /\ home \in [Files -> Sessions \cup {None}]
  /\ Range(sessions) \subseteq {s \in Sessions : status[s] # "new"} /\ IsInjective(sessions)
  /\ current \in Sessions \cup {None}
  /\ shown \in [Sessions -> Seq(Notes) \cup {None}]
  /\ files \in [Sessions -> SUBSET Files]
  /\ Open => sending
  /\ turn.held => shown[turn.s] # None /\ turn.temp <= Len(shown[turn.s])

\* No list shows a message twice or an answer beside its draft, whatever loads,
\* removals and events cross: sendMessage keeps to the array it began with, and
\* a list that already holds its messages is another array.
ShownOnce ==
  \A s \in Sessions : shown[s] # None =>
    /\ IsInjective(shown[s])
    /\ \A n \in Turns : ~ ({<<n, "temp">>, <<n, "ai">>} \subseteq Range(shown[s]))

\* Once nothing is under way for a session, its list is what the database has,
\* unless a send crossed a load of that session, or one of the two failed, and
\* it has not been loaded since.
ShownIsStored ==
  \A s \in Sessions :
    Here(s) /\ shown[s] # None /\ ~Asking(s) /\ ~Loading(s) /\ s \notin astray =>
      shown[s] = stored[s]

\* An uploaded file is listed with the session it belongs to, in the hands of
\* uploadFiles, sent, removed, or lost with its batch or session; and one that
\* was sent or removed does not come back.  Excepted are the files of an upload
\* that a send or a removal crossed: it puts back a list read before its awaits.
FilesTracked ==
  LET up == task["upload"] IN
  \A f \in Files : home[f] # None /\ f \notin crossed =>
    /\ f \in files[home[f]] \cup up.copy \cup Range(up.got) \cup spent \cup dropped
    /\ f \in spent \cap files[home[f]] => turn.s = home[f] /\ f \in turn.out

\* The composer is locked only while a send is at work, and every send ends, but
\* for two: createSession failed inside it, a call that stands before the try,
\* or the backend dropped the job it waits for, which nothing then answers.
SendEnds == sending ~> (~sending \/ stuck \/ Lost)
=============================================================================
