---------------------------- MODULE SessionCache ----------------------------
(***************************************************************************)
(* One session of one user and its three copies: the rows of the database, *)
(* the userState in the memory of the backend (worker/state.go), and the   *)
(* two Redis keys worker:session and worker:history (worker/redis.go).     *)
(* Requests to /conversation/start and /conversation/msg read and write    *)
(* them through handleInit and handleStream of worker/manager.go, on as    *)
(* many workers as there are requests; ResetUser, Purge and the listener   *)
(* of the invalidation channel clear them.                                 *)
(*                                                                         *)
(* A request is also the name of its messages.  The queue of module        *)
(* Dispatcher is one place, "...Queued".  A Redis command may fail: it is  *)
(* logged, changes nothing, and its caller goes on.  A Redis that is not   *)
(* configured is one whose keys have expired.  Of the files of a session   *)
(* there are the summaries that handleStream adds to the conversation, at  *)
(* most one for a message.                                                 *)
(***************************************************************************)
EXTENDS Naturals, FiniteSets, Sequences, SequencesExt

CONSTANTS
  Creator,     \* the POST /conversation/start with session_id 0
  Resumes,     \* those that name the session
  Sends,       \* the POST /conversation/msg requests of the session
  NoTitle,     \* the title "New Conversation"
  Absent,      \* the worker:history key is not in Redis
  MaxActive,   \* bound on requests and cleaners at work at one time
  MaxUpsets    \* bound on resets, deletions, expired keys, restarts
               \* and Redis commands that fail

Requests == {Creator} \cup Resumes \cup Sends

ASSUME SessionCacheAssumption ==
  /\ Creator \notin Resumes \cup Sends
  /\ Resumes \cap Sends = {}
  /\ NoTitle \notin Sends
  /\ Absent \notin Seq([by : Sends, role : {"user", "system", "assistant"}])
  /\ MaxActive \in Nat
  /\ MaxUpsets \in Nat

VARIABLES
  rpc,       \* where each request is
  at,        \* the userState a handler got from getState, 0 for none
  local,     \* the local variable history of its handler
  row,       \* the session's row in the database
  title,     \* its title: NoTitle, or the message it was generated from
  messages,  \* the messages of the session in the database
  rSession,  \* the worker:session key is in Redis
  rHistory,  \* the worker:history key
  behind,    \* (history) a change of memory was not followed by Redis: its SET
             \* failed, or the handler ended first; until the next SET
  gap,       \* (history) a history was loaded from Redis while that was behind,
             \* gone, or not to be read; until one is loaded from the database
  mem,       \* every userState made since the start, as seen by this session
  current,   \* Manager.state of the user, 0 for no entry
  cleaner,   \* where each goroutine that clears copies is
  echoes,    \* published invalidations the listener has not received
  upsets     \* resets, deletions, expired keys, restarts and failed commands so far

dbVars     == <<row, title, messages>>
redisVars  == <<rSession, rHistory, behind, gap>>
memVars    == <<mem, current>>
clearVars  == <<cleaner, echoes>>
vars == <<rpc, at, local, dbVars, redisVars, memVars, clearVars, upsets>>

Entry    == [by : Sends, role : {"user", "system", "assistant"}]
History  == Seq(Entry)
Question(r) == [by |-> r, role |-> "user"]
Summary(r)  == [by |-> r, role |-> "system"]    \* of a file
Answer(r)   == [by |-> r, role |-> "assistant"]

UserState == [ready : BOOLEAN, session : BOOLEAN, history : History]
NewState  == [ready |-> FALSE, session |-> FALSE, history |-> <<>>]

InitPc   == {"loadSession", "loadHistory", "loadDatabase", "setSession",
             "setHistory", "cacheSession", "cacheLoaded", "markReady"}
StreamPc == {"read", "title", "question",
             "summary", "kept", "cacheSummaries", "summarized",  \* attachFileSummaries
             "cacheQuestion", "ask", "answer", "readBack", "cacheAnswer"}
Ended    == {"ok", "failed",
             "lost",      \* CancelUser dropped its job: it waits for ever
             "crashed"}
Pc == {"new", "called", "initQueued", "streamQueued", "storeAnswer"}
        \cup InitPc \cup StreamPc \cup Ended

Cleaners == {"reset",    \* Manager.ResetUser
             "delete",   \* Handler.deleteSession
             "listener"} \* Manager.applyInvalidation
NotCleaning  == [pc |-> "idle", state |-> 0]
CleanerState == [pc : {"idle", "cancel", "clear", "purge", "del", "publish"}, state : Nat]

Init ==
  /\ rpc = [r \in Requests |-> "new"]
  /\ at = [r \in Requests |-> 0]
  /\ local = [r \in Requests |-> <<>>]
  /\ row = "none"
  /\ title = NoTitle
  /\ messages = <<>>
  /\ rSession = FALSE
  /\ rHistory = Absent
  /\ behind = FALSE
  /\ gap = FALSE
  /\ mem = <<>>
  /\ current = 0
  /\ cleaner = [c \in Cleaners |-> NotCleaning]
  /\ echoes = <<>>
  /\ upsets = 0

-----------------------------------------------------------------------------
InProgress(r) == rpc[r] \notin Ended \cup {"new"}
Cleaning(c)   == cleaner[c].pc # "idle"
Active == Cardinality({r \in Requests : InProgress(r)})
            + Cardinality({c \in Cleaners : Cleaning(c)})
Begin == Active < MaxActive
Upset == upsets < MaxUpsets /\ upsets' = upsets + 1

Goto(r, from, to) == rpc[r] = from /\ rpc' = [rpc EXCEPT ![r] = to]

\* The handler of r is over: its local variables are gone.
Leave(r) ==
  /\ at' = [at EXCEPT ![r] = 0]
  /\ local' = [local EXCEPT ![r] = <<>>]

\* Manager.getState: the entry of the user, made if there is none.
GetState ==
  IF current = 0
  THEN mem' = Append(mem, NewState) /\ current' = Len(mem) + 1
  ELSE UNCHANGED memVars

\* Manager.getState, kept by the handler of r.
GetStateOf(r) ==
  /\ GetState
  /\ at' = [at EXCEPT ![r] = current']

-----------------------------------------------------------------------------
(* The requests, up to their first job.                                    *)

\* startConversation; a client resumes a session it has seen.
Start(r) ==
  /\ r = Creator \/ (r \in Resumes /\ row # "none")
  /\ Goto(r, "new", "called")
  /\ Begin
  /\ UNCHANGED <<at, local, dbVars, redisVars, memVars, clearVars, upsets>>

\* captureInput stores the question before anything else.
StoreQuestion(r) ==
  /\ r \in Sends
  /\ row = "live"
  /\ Goto(r, "new", "called")
  /\ messages' = Append(messages, Question(r))
  /\ Begin
  /\ UNCHANGED <<at, local, row, title, redisVars, memVars, clearVars, upsets>>

\* Stream and InitSession test whether the session is ready in memory.
CheckReady(r) ==
  /\ GetState
  /\ LET known   == r # Creator /\ current # 0 /\ mem[current].ready
         skipsTo == IF r \in Sends THEN "streamQueued" ELSE "ok"
         skips   == known /\ (r \in Sends \/ mem[current].session)
     IN  Goto(r, "called", IF skips THEN skipsTo ELSE "initQueued")
  /\ UNCHANGED <<at, local, dbVars, redisVars, clearVars, upsets>>

-----------------------------------------------------------------------------
(* Manager.handleInit.                                                     *)

CreateSession(r) ==
  /\ r = Creator
  /\ Goto(r, "initQueued", "setSession")
  /\ GetStateOf(r)
  /\ row' = "live"
  /\ UNCHANGED <<local, title, messages, redisVars, clearVars, upsets>>

StartInit(r) ==
  /\ r # Creator
  /\ Goto(r, "initQueued", "loadSession")
  /\ GetStateOf(r)
  /\ UNCHANGED <<local, dbVars, redisVars, clearVars, upsets>>

\* stateRedis.loadSession: the session key decides about a hit, a GET that
\* fails is a miss ...
LoadSession(r) ==
  /\ \/ rSession /\ Goto(r, "loadSession", "loadHistory") /\ UNCHANGED upsets
     \/ ~rSession /\ Goto(r, "loadSession", "loadDatabase") /\ UNCHANGED upsets
     \/ rSession /\ Goto(r, "loadSession", "loadDatabase") /\ Upset
  /\ UNCHANGED <<at, local, dbVars, redisVars, memVars, clearVars>>

\* ... and a history key that is missing, or whose GET fails, is a history of no
\* messages.
LoadHistory(r) ==
  /\ Goto(r, "loadHistory", "setSession")
  /\ \/ /\ local' = [local EXCEPT ![r] = IF rHistory = Absent THEN <<>> ELSE rHistory]
        /\ gap' = (gap \/ behind \/ rHistory = Absent)
        /\ UNCHANGED upsets
     \/ /\ local' = [local EXCEPT ![r] = <<>>]
        /\ gap' = TRUE
        /\ Upset
  /\ UNCHANGED <<at, rSession, rHistory, behind, dbVars, memVars, clearVars>>

\* GetSessionWithMessages; its two queries are one step, so that a session
\* deleted between them is deleted before or after.  A Redis that only failed to
\* answer still has the history it had.
LoadDatabase(r) ==
  /\ row = "live"
  /\ Goto(r, "loadDatabase", "setSession")
  /\ local' = [local EXCEPT ![r] = messages]
  /\ gap' = (gap /\ rSession)
  /\ UNCHANGED <<at, rSession, rHistory, behind, dbVars, memVars, clearVars, upsets>>

SetSession(r) ==
  /\ Goto(r, "setSession", "setHistory")
  /\ mem' = [mem EXCEPT ![at[r]].session = TRUE]
  /\ UNCHANGED <<at, local, current, dbVars, redisVars, clearVars, upsets>>

SetHistory(r) ==
  /\ Goto(r, "setHistory", "cacheSession")
  /\ mem' = [mem EXCEPT ![at[r]].history = local[r]]
  /\ UNCHANGED <<at, local, current, dbVars, redisVars, clearVars, upsets>>

\* stateRedis.cacheHistory of what the handler of r holds.
CacheHistory(r) ==
  /\ \/ rHistory' = local[r] /\ behind' = FALSE /\ UNCHANGED upsets
     \/ UNCHANGED rHistory /\ behind' = TRUE /\ Upset
  /\ UNCHANGED <<rSession, gap>>

\* stateRedis.cacheSession sets one key after the other, whether or not the
\* first SET failed.
CacheSession(r) ==
  /\ Goto(r, "cacheSession", "cacheLoaded")
  /\ \/ rSession' = TRUE /\ UNCHANGED upsets
     \/ UNCHANGED rSession /\ Upset
  /\ UNCHANGED <<at, local, rHistory, behind, gap, dbVars, memVars, clearVars>>

CacheLoaded(r) ==
  /\ Goto(r, "cacheLoaded", "markReady")
  /\ CacheHistory(r)
  /\ UNCHANGED <<at, local, dbVars, memVars, clearVars>>

MarkReady(r) ==
  /\ Goto(r, "markReady", IF r \in Sends THEN "streamQueued" ELSE "ok")
  /\ mem' = [mem EXCEPT ![at[r]].ready = TRUE]
  /\ Leave(r)
  /\ UNCHANGED <<current, dbVars, redisVars, clearVars, upsets>>

-----------------------------------------------------------------------------
(* Manager.handleStream.                                                   *)

StartStream(r) ==
  /\ Goto(r, "streamQueued", "read")
  /\ GetStateOf(r)
  /\ UNCHANGED <<local, dbVars, redisVars, clearVars, upsets>>

\* Mutant: only the last message is looked at.
LastIsUserMessage(h) == h # <<>> /\ Last(h).role = "user"

HasUserMessage(h) == \E i \in DOMAIN h : h[i].role = "user"

\* A history without a question needs a title.
ReadHistory(r) ==
  LET h == mem[at[r]].history
  IN  /\ Goto(r, "read", IF HasUserMessage(h) THEN "question" ELSE "title")
      /\ local' = [local EXCEPT ![r] = h]
      /\ UNCHANGED <<at, dbVars, redisVars, memVars, clearVars, upsets>>

\* GenerateTitle, which returns some title or fails, and UpdateSessionTitle.  The
\* title inside the session object in memory, and inside its Redis key, which
\* keeps the old one, is left out.
StoreTitle(r) ==
  /\ row = "live"
  /\ Goto(r, "title", "question")
  /\ title' = r
  /\ UNCHANGED <<at, local, row, messages, redisVars, memVars, clearVars, upsets>>

\* attachFileSummaries, for a text file that has no summary yet: its summary
\* becomes a message of the session, ...
StoreSummary(r) ==
  /\ row = "live"
  /\ Goto(r, "question", "summary")
  /\ messages' = Append(messages, Summary(r))
  /\ UNCHANGED <<at, local, row, title, redisVars, memVars, clearVars, upsets>>

\* ... and, once UpdateTempFileSummary has recorded it, of memory.
KeepSummary(r) ==
  /\ Goto(r, "summary", "kept")
  /\ mem' = [mem EXCEPT ![at[r]].history = Append(@, Summary(r))]
  /\ local' = [local EXCEPT ![r] = Append(@, Summary(r))]
  /\ UNCHANGED <<at, current, dbVars, redisVars, clearVars, upsets>>

\* handleStream after attachFileSummaries: every text file has its summary.
SetSummaries(r) ==
  /\ \E from \in {"question", "kept"} : Goto(r, from, "cacheSummaries")
  /\ mem' = [mem EXCEPT ![at[r]].history = local[r]]
  /\ UNCHANGED <<at, local, current, dbVars, redisVars, clearVars, upsets>>

CacheSummaries(r) ==
  /\ Goto(r, "cacheSummaries", "summarized")
  /\ CacheHistory(r)
  /\ UNCHANGED <<at, local, dbVars, memVars, clearVars>>

\* Straight away for a session without text files.
AddQuestion(r) ==
  LET h == Append(local[r], Question(r))
  IN  /\ \E from \in {"question", "summarized"} : Goto(r, from, "cacheQuestion")
      /\ local' = [local EXCEPT ![r] = h]
      /\ mem' = [mem EXCEPT ![at[r]].history = h]
      /\ UNCHANGED <<at, current, dbVars, redisVars, clearVars, upsets>>

\* Mutant: only the answer is cached.
CacheQuestionSkipped(r) ==
  /\ Goto(r, "cacheQuestion", "ask")
  /\ UNCHANGED <<at, local, dbVars, redisVars, memVars, clearVars, upsets>>

CacheQuestion(r) ==
  /\ Goto(r, "cacheQuestion", "ask")
  /\ CacheHistory(r)
  /\ UNCHANGED <<at, local, dbVars, memVars, clearVars>>

\* StreamChat with the history the handler holds.
StreamChat(r) ==
  /\ Goto(r, "ask", "answer")
  /\ UNCHANGED <<at, local, dbVars, redisVars, memVars, clearVars, upsets>>

\* Mutant: the answer is cached, but not kept in memory.
AppendAnswerSkipped(r) ==
  /\ Goto(r, "answer", "readBack")
  /\ UNCHANGED <<at, local, dbVars, redisVars, memVars, clearVars, upsets>>

AppendAnswer(r) ==
  /\ Goto(r, "answer", "readBack")
  /\ mem' = [mem EXCEPT ![at[r]].history = Append(@, Answer(r))]
  /\ UNCHANGED <<at, local, current, dbVars, redisVars, clearVars, upsets>>

ReadBack(r) ==
  /\ Goto(r, "readBack", "cacheAnswer")
  /\ local' = [local EXCEPT ![r] = mem[at[r]].history]
  /\ UNCHANGED <<at, dbVars, redisVars, memVars, clearVars, upsets>>

CacheAnswer(r) ==
  /\ Goto(r, "cacheAnswer", "storeAnswer")
  /\ CacheHistory(r)
  /\ Leave(r)
  /\ UNCHANGED <<dbVars, memVars, clearVars>>

\* captureInput stores the answer; touching the session's row, or writing the
\* done event, may still fail.
StoreAnswer(r) ==
  /\ row = "live"
  /\ \E end \in {"ok", "failed"} : Goto(r, "storeAnswer", end)
  /\ messages' = Append(messages, Answer(r))
  /\ UNCHANGED <<at, local, row, title, redisVars, memVars, clearVars, upsets>>

\* The error returns: the dispatcher is busy, the session cannot be loaded, no
\* resources (setSession, read), no title, no summary of a file (question), one
\* that is not recorded with its file (summary), none of a further file (kept:
\* memory has the first by then, and Redis is not told), no answer, an answer
\* that is not stored.
Fail(r) ==
  /\ rpc[r] \in {"called", "initQueued", "loadDatabase", "setSession", "streamQueued",
                 "read", "title", "question", "summary", "kept", "ask", "storeAnswer"}
  /\ rpc' = [rpc EXCEPT ![r] = "failed"]
  /\ behind' = (behind \/ rpc[r] = "kept")
  /\ Leave(r)
  /\ UNCHANGED <<dbVars, rSession, rHistory, gap, memVars, clearVars, upsets>>

-----------------------------------------------------------------------------
(* What clears the copies.                                                 *)

Clean(c, from, to) ==
  /\ cleaner[c].pc = from
  /\ cleaner' = [cleaner EXCEPT ![c].pc = to]

\* Mutant: the userState is cleared but stays the user's.
DetachKeepsEntry(c) ==
  /\ cleaner' = [cleaner EXCEPT ![c] = [pc |-> "cancel", state |-> current]]
  /\ UNCHANGED current

\* resetUserState, under Manager.mu: the entry leaves the map.
Detach(c) ==
  /\ cleaner' = [cleaner EXCEPT ![c] = [pc |-> "cancel", state |-> current]]
  /\ current' = 0

\* ResetUser on logout, on the deletion of a provider token or of the user.
ResetUser ==
  /\ cleaner["reset"].pc = "idle"
  /\ Detach("reset")
  /\ Upset
  /\ Begin
  /\ UNCHANGED <<rpc, at, local, dbVars, redisVars, mem, echoes>>

\* deleteSession: the rows, in one transaction.
DeleteSession ==
  /\ row = "live"
  /\ Clean("delete", "idle", "purge")
  /\ row' = "deleted"
  /\ messages' = <<>>
  /\ Upset
  /\ Begin
  /\ UNCHANGED <<rpc, at, local, title, redisVars, memVars, echoes>>

PurgedMem == IF current = 0 THEN mem ELSE [mem EXCEPT ![current] = NewState]

\* Purge: without an entry for the user it ends here.
Purge ==
  /\ Clean("delete", "purge", IF current = 0 THEN "idle" ELSE "del")
  /\ mem' = PurgedMem
  /\ UNCHANGED <<rpc, at, local, dbVars, redisVars, current, echoes, upsets>>

\* The listener receives the oldest message, also the backend's own.
Deliver ==
  /\ echoes # <<>>
  /\ cleaner["listener"].pc = "idle"
  /\ echoes' = Tail(echoes)
  /\ \/ /\ Head(echoes) = "user"
        /\ Detach("listener")
        /\ UNCHANGED mem
     \/ /\ Head(echoes) = "session"
        /\ Clean("listener", "idle", "del")
        /\ mem' = PurgedMem
        /\ UNCHANGED current
  /\ Begin
  /\ UNCHANGED <<rpc, at, local, dbVars, redisVars, upsets>>

AfterDel(c) == IF c = "listener" THEN "idle" ELSE "publish"

\* Dispatcher.CancelUser drops the user's queued job, of which there is at
\* most one (AtMostOneQueued of module Dispatcher); a user without an entry
\* has nothing to clear.
CancelUser(c) ==
  /\ IF cleaner[c].state = 0 THEN Clean(c, "cancel", AfterDel(c))
                             ELSE Clean(c, "cancel", "clear")
  /\ \/ UNCHANGED rpc
     \/ \E r \in Requests : \E q \in {"initQueued", "streamQueued"} : Goto(r, q, "lost")
  /\ UNCHANGED <<at, local, dbVars, redisVars, memVars, echoes, upsets>>

\* sessionIDs and reset: Redis is cleared of the sessions in this memory.
ClearState(c) ==
  LET s == cleaner[c].state
  IN  /\ cleaner[c].pc = "clear"
      /\ cleaner' = [cleaner EXCEPT ![c] =
           [pc |-> IF mem[s].session THEN "del" ELSE AfterDel(c), state |-> 0]]
      /\ mem' = [mem EXCEPT ![s] = NewState]
      /\ UNCHANGED <<rpc, at, local, dbVars, redisVars, current, echoes, upsets>>

\* Mutant: only the history key is deleted.
InvalidateHistory(c) ==
  /\ Clean(c, "del", AfterDel(c))
  /\ rHistory' = Absent
  /\ UNCHANGED <<rpc, at, local, rSession, behind, gap, dbVars, memVars, echoes, upsets>>

\* invalidateSession: one DEL of both keys.
InvalidateSession(c) ==
  /\ Clean(c, "del", AfterDel(c))
  /\ \/ rSession' = FALSE /\ rHistory' = Absent /\ UNCHANGED upsets
     \/ UNCHANGED <<rSession, rHistory>> /\ Upset
  /\ UNCHANGED <<rpc, at, local, behind, gap, dbVars, memVars, echoes>>

Publish(c) ==
  /\ Clean(c, "publish", "idle")
  /\ \/ /\ echoes' = Append(echoes, IF c = "delete" THEN "session" ELSE "user")
        /\ UNCHANGED upsets
     \/ UNCHANGED echoes /\ Upset
  /\ UNCHANGED <<rpc, at, local, dbVars, redisVars, memVars>>

\* The time to live of a key ends.  The history key is set after the session
\* key, and more often: it goes last, unless a SET of it failed.
Expire ==
  /\ \/ rSession /\ rSession' = FALSE /\ UNCHANGED rHistory
     \/ /\ rSession => behind
        /\ rHistory # Absent
        /\ rHistory' = Absent
        /\ UNCHANGED rSession
  /\ Upset
  /\ UNCHANGED <<rpc, at, local, behind, gap, dbVars, memVars, clearVars>>

\* Mutant: a userState survives.
RestartKeepsEntry ==
  /\ Upset
  /\ rpc' = [r \in Requests |-> IF InProgress(r) THEN "crashed" ELSE rpc[r]]
  /\ at' = [r \in Requests |-> 0]
  /\ local' = [r \in Requests |-> <<>>]
  /\ mem' = <<>>
  /\ cleaner' = [c \in Cleaners |-> NotCleaning]
  /\ echoes' = <<>>
  /\ UNCHANGED <<current, dbVars, redisVars>>

\* The backend stops, at any point, and starts again.  What only memory had is
\* lost; a stop between the SETs of cacheSession leaves the older history.
Restart ==
  /\ Upset
  /\ rpc' = [r \in Requests |-> IF InProgress(r) THEN "crashed" ELSE rpc[r]]
  /\ at' = [r \in Requests |-> 0]
  /\ local' = [r \in Requests |-> <<>>]
  /\ mem' = <<>>
  /\ current' = 0
  /\ cleaner' = [c \in Cleaners |-> NotCleaning]
  /\ echoes' = <<>>
  /\ behind' = (behind \/ \E r \in Requests : rpc[r] = "cacheLoaded")
  /\ UNCHANGED <<dbVars, rSession, rHistory, gap>>

-----------------------------------------------------------------------------
CallStep(r) == Start(r) \/ StoreQuestion(r) \/ CheckReady(r) \/ StoreAnswer(r) \/ Fail(r)

InitStep(r) ==
  \/ CreateSession(r) \/ StartInit(r)
  \/ LoadSession(r) \/ LoadHistory(r) \/ LoadDatabase(r)
  \/ SetSession(r) \/ SetHistory(r) \/ CacheSession(r) \/ CacheLoaded(r) \/ MarkReady(r)

StreamStep(r) ==
  \/ StartStream(r) \/ ReadHistory(r) \/ StoreTitle(r)
  \/ StoreSummary(r) \/ KeepSummary(r) \/ SetSummaries(r) \/ CacheSummaries(r)
  \/ AddQuestion(r) \/ CacheQuestion(r) \/ StreamChat(r)
  \/ AppendAnswer(r) \/ ReadBack(r) \/ CacheAnswer(r)

CleanStep(c) == CancelUser(c) \/ ClearState(c) \/ InvalidateSession(c) \/ Publish(c)

Next ==
  \/ \E r \in Requests : CallStep(r) \/ InitStep(r) \/ StreamStep(r)
  \/ ResetUser \/ DeleteSession \/ Purge \/ Deliver
  \/ \E c \in Cleaners : CleanStep(c)
  \/ Expire
  \/ Restart

Spec == Init /\ [][Next]_vars

-----------------------------------------------------------------------------
RequestTypes ==
  /\ rpc \in [Requests -> Pc]
  /\ local \in [Requests -> History]
  /\ at \in [Requests -> Nat]
  /\ \A r \in Requests : at[r] # 0 <=> rpc[r] \in InitPc \cup StreamPc

StoreTypes ==
  /\ row \in {"none", "live", "deleted"}
  /\ title \in Sends \cup {NoTitle}
  /\ messages \in History
  /\ rSession \in BOOLEAN
  /\ rHistory \in History \cup {Absent}
  /\ behind \in BOOLEAN
  /\ gap \in BOOLEAN
  /\ upsets \in 0..MaxUpsets

CleanerTypes ==
  /\ cleaner \in [Cleaners -> CleanerState]
  /\ \A c \in Cleaners : cleaner[c].pc = "clear" => cleaner[c].state # 0
  /\ echoes \in Seq({"user", "session"})

MemTypes ==
  /\ mem \in Seq(UserState)
  /\ current \in 0..Len(mem)
  /\ \A r \in Requests : at[r] <= Len(mem)
  /\ \A c \in Cleaners : cleaner[c].state <= Len(mem)

\* Types; a handler holds a userState exactly while it uses one.
TypeOK ==
  /\ RequestTypes
  /\ StoreTypes
  /\ CleanerTypes
  /\ MemTypes

\* A session that the memory in use says is ready is loaded there, whatever
\* ResetUser, the listener and other requests do between the steps of
\* handleInit: Stream then skips InitSession, and an empty history would pass
\* for a new session.  (Purge clears the memory in use, but after the row.)
ReadyMeansLoaded ==
  row = "live" /\ current # 0 => (mem[current].ready => mem[current].session)

\* Redis has a session without its history only between the two SETs of
\* cacheSession, or while it is behind: its last SET of the history failed or was
\* never sent.  loadSession takes such a session as one without messages.
HistoryFollowsSession ==
  rSession /\ rHistory = Absent =>
    behind \/ \E r \in Requests : rpc[r] = "cacheLoaded"

AnsweredSends == {r \in Sends : rpc[r] = "ok"}

\* In h the last f comes after the last e.
Follows(h, f, e) == \E i \in DOMAIN h : h[i] = f /\ \A k \in DOMAIN h : h[k] = e => k < i

\* The messages of S that the log has are all in h, questions and answers in the
\* order of the log.  (Memory has the summary of a file before the question, the
\* database after it.)
Covers(h, log, S) ==
  LET known == {i \in DOMAIN log : log[i].by \in S}
      said  == {i \in known : log[i].role # "system"}
  IN  /\ \A i \in known : log[i] \in ToSet(h)
      /\ \A i, k \in said : i < k => Follows(h, log[k], log[i])

\* One thing at a time (MaxActive = 1), the model is asked with every question
\* that was answered before, its answer and the summaries of its files, in the
\* order of the database: whichever copies were reset, expired or lost with the
\* memory in between, wherever earlier requests failed or the backend stopped,
\* and whichever SETs failed, unless a history was loaded from Redis before a
\* later SET made up for it (gap).
AnsweredInContext ==
  \A r \in Sends : rpc[r] = "ask" /\ ~gap => Covers(local[r], messages, AnsweredSends)

\* Likewise, whenever nothing is going on Redis holds the history that memory
\* holds, so that a restart then loses nothing: it is behind only until its next
\* SET, after one that failed or a request that failed between two summaries.
CachesAgree ==
  Active = 0 /\ rSession /\ current # 0 /\ mem[current].ready =>
    behind \/ rHistory = mem[current].history

\* backend/README.md, step by step under "Session Titles": the first user
\* message of a session gives it its title.
FirstMessageTitled ==
  \A r \in Sends :
    rpc[r] = "ok" /\ messages # <<>> => (messages[1] = Question(r) => title # NoTitle)

\* backend/README.md: "Existing sessions keep their stored titles".  One thing at
\* a time, a title stays once a question was answered, whatever was reset,
\* expired or stopped since, as long as memory has no gap (a history that Redis
\* lost or could not give counts as empty, and the next question is titled);
\* before, one that fails after its title leaves the next to generate another.
TitleKept ==
  [][AnsweredSends # {} /\ title # NoTitle /\ ~gap => title' = title]_title
=============================================================================
