---------------------------- MODULE Idempotency ----------------------------
(***************************************************************************)
(* POST /conversation/msg, Handler.captureInput of                         *)
(* src/backend/internal/api/handlers.go: concurrent requests with the same *)
(* session and client_msg_id share one entry of clientMessageTable.  The   *)
(* request that creates the entry stores the user's message, streams the   *)
(* answer and stores it; the others wait for the entry to be done.         *)
(*                                                                         *)
(* An entry is named by the request that created it.  Handlers run         *)
(* concurrently; only the table is locked.                                 *)
(***************************************************************************)
EXTENDS Naturals, FiniteSets

CONSTANTS
  Requests,  \* HTTP requests, each with a goroutine of its own
  Keys,      \* session id and client_msg_id
  KeyOf,     \* the key of each request
  NoEntry    \* the request has no entry yet

ASSUME IdempotencyAssumption ==
  /\ KeyOf \in [Requests -> Keys]
  /\ NoEntry \notin Requests

VARIABLES
  rpc,        \* where each handler is
  table,      \* clientMessageTable, a map from its present keys to entries
  entry,      \* the entry a request created or found
  closed,     \* the entries whose done channel is closed
  result,     \* entry.err, and the messages: what the waiters of an entry see
  verdict,    \* what the owner is about to publish
  userStored, \* the requests that stored a user message
  aiStored,   \* the requests that stored an answer
  reply       \* what the client is told, on an error path after Unlist

vars == <<rpc, table, entry, closed, result, verdict, userStored, aiStored, reply>>
sharedVars == <<table, entry, closed, result>>
storeVars == <<userStored, aiStored>>

OwnerPc == {"files", "append", "prepare", "stream", "lost", "save", "done",
            "publish", "unlist"}
Pc == {"new", "wait", "closed"} \cup OwnerPc

Outcome == {"none", "ok", "error"}

Reply == {"none",
          "done",    \* the done event
          "error",   \* the error event
          "status",  \* a JSON error with a status code
          "gone"}    \* the event could not be written: the client is gone

Init ==
  /\ rpc = [r \in Requests |-> "new"]
  /\ table = [k \in {} |-> NoEntry]
  /\ entry = [r \in Requests |-> NoEntry]
  /\ closed = {}
  /\ result = [r \in Requests |-> "none"]
  /\ verdict = [r \in Requests |-> "none"]
  /\ userStored = {}
  /\ aiStored = {}
  /\ reply = [r \in Requests |-> "none"]

Goto(r, from, to) == rpc[r] = from /\ rpc' = [rpc EXCEPT ![r] = to]

\* An error path: first complete the entry with the error, then tell the client.
Fail(r, from, answer) ==
  /\ Goto(r, from, "publish")
  /\ verdict' = [verdict EXCEPT ![r] = "error"]
  /\ reply' = [reply EXCEPT ![r] = answer]

-----------------------------------------------------------------------------
\* Mutant: the table is not consulted.
BeginUnchecked(r) ==
  /\ Goto(r, "new", "files")
  /\ table' = [k \in DOMAIN table \cup {KeyOf[r]} |->
                 IF k = KeyOf[r] THEN r ELSE table[k]]
  /\ entry' = [entry EXCEPT ![r] = r]
  /\ UNCHANGED <<closed, result, verdict, storeVars, reply>>

\* beginIdempotencyEntry, for a key nobody is working on.
BeginNew(r) ==
  /\ KeyOf[r] \notin DOMAIN table
  /\ Goto(r, "new", "files")
  /\ table' = [k \in DOMAIN table \cup {KeyOf[r]} |->
                 IF k = KeyOf[r] THEN r ELSE table[k]]
  /\ entry' = [entry EXCEPT ![r] = r]
  /\ UNCHANGED <<closed, result, verdict, storeVars, reply>>

\* beginIdempotencyEntry, for a key in the table.
BeginDuplicate(r) ==
  /\ KeyOf[r] \in DOMAIN table
  /\ Goto(r, "new", "wait")
  /\ entry' = [entry EXCEPT ![r] = table[KeyOf[r]]]
  /\ UNCHANGED <<table, closed, result, verdict, storeVars, reply>>

\* Mutant: the error path returns without completing the entry.
ResolveFilesLeaks(r) ==
  /\ \/ Goto(r, "files", "append") /\ UNCHANGED reply
     \/ Goto(r, "files", "closed") /\ reply' = [reply EXCEPT ![r] = "status"]
  /\ UNCHANGED <<sharedVars, storeVars, verdict>>

\* resolveTempFiles.
ResolveFiles(r) ==
  /\ \/ Goto(r, "files", "append") /\ UNCHANGED <<verdict, reply>>
     \/ Fail(r, "files", "status")
  /\ UNCHANGED <<sharedVars, storeVars>>

\* AppendMessageToSession with the user's message.  It may fail after its INSERT.
AppendUserMessage(r) ==
  /\ \/ /\ Goto(r, "append", "prepare")
        /\ userStored' = userStored \cup {r}
        /\ UNCHANGED <<verdict, reply>>
     \/ /\ Fail(r, "append", "status")
        /\ userStored' \in {userStored, userStored \cup {r}}
  /\ UNCHANGED <<sharedVars, aiStored>>

\* EnsureAIReady, prepareSSE and the ack event.
Prepare(r) ==
  /\ \/ Goto(r, "prepare", "stream") /\ UNCHANGED <<verdict, reply>>
     \/ \E a \in {"status", "gone"} : Fail(r, "prepare", a)
  /\ UNCHANGED <<sharedVars, storeVars>>

\* workers.Stream returns the answer, or an error (the server is busy, the
\* model failed, the two-minute deadline passed).
Stream(r) ==
  /\ \/ Goto(r, "stream", "save") /\ UNCHANGED <<verdict, reply>>
     \/ Fail(r, "stream", "error")
  /\ UNCHANGED <<sharedVars, storeVars>>

\* Manager.ResetUser drops the queued job (CancelUser of module Dispatcher):
\* workers.Stream never returns.
LoseJob(r) ==
  /\ Goto(r, "stream", "lost")
  /\ UNCHANGED <<sharedVars, storeVars, verdict, reply>>

\* AppendMessageToSession with the answer, likewise.
AppendAnswer(r) ==
  /\ \/ /\ Goto(r, "save", "done")
        /\ aiStored' = aiStored \cup {r}
        /\ UNCHANGED <<verdict, reply>>
     \/ /\ Fail(r, "save", "error")
        /\ aiStored' \in {aiStored, aiStored \cup {r}}
  /\ UNCHANGED <<sharedVars, userStored>>

\* Mutant: the entry is completed although the done event was not written.
SendDoneAnyway(r) ==
  /\ Goto(r, "done", "publish")
  /\ verdict' = [verdict EXCEPT ![r] = "ok"]
  /\ \E a \in {"done", "gone"} : reply' = [reply EXCEPT ![r] = a]
  /\ UNCHANGED <<sharedVars, storeVars>>

\* The done event; the entry is completed only after it is written.
SendDone(r) ==
  /\ \/ /\ Goto(r, "done", "publish")
        /\ verdict' = [verdict EXCEPT ![r] = "ok"]
        /\ reply' = [reply EXCEPT ![r] = "done"]
     \/ Fail(r, "done", "gone")
  /\ UNCHANGED <<sharedVars, storeVars>>

\* completeIdempotencyEntry: set the result and close the channel, once ...
Publish(r) ==
  /\ Goto(r, "publish", "unlist")
  /\ IF entry[r] \in closed
     THEN UNCHANGED <<closed, result>>
     ELSE /\ closed' = closed \cup {entry[r]}
          /\ result' = [result EXCEPT ![entry[r]] = verdict[r]]
  /\ UNCHANGED <<table, entry, verdict, storeVars, reply>>

\* Mutant: the key stays, without an entry.
UnlistClears(r) ==
  /\ Goto(r, "unlist", "closed")
  /\ table' = [table EXCEPT ![KeyOf[r]] = NoEntry]
  /\ UNCHANGED <<entry, closed, result, verdict, storeVars, reply>>

\* ... and then delete the key from the table.
Unlist(r) ==
  /\ Goto(r, "unlist", "closed")
  /\ table' = [k \in DOMAIN table \ {KeyOf[r]} |-> table[k]]
  /\ UNCHANGED <<entry, closed, result, verdict, storeVars, reply>>

\* respondWithCachedResult: wait for the entry, then repeat its outcome.
RespondCached(r) ==
  /\ entry[r] \in closed
  /\ Goto(r, "wait", "closed")
  /\ reply' = [reply EXCEPT ![r] = IF result[entry[r]] = "ok" THEN "done" ELSE "error"]
  /\ UNCHANGED <<sharedVars, verdict, storeVars>>

\* respondWithCachedResult without an http.Flusher does not wait.
RefuseDuplicate(r) ==
  /\ Goto(r, "wait", "closed")
  /\ reply' = [reply EXCEPT ![r] = "status"]
  /\ UNCHANGED <<sharedVars, verdict, storeVars>>

OwnerStep(r) ==
  \/ ResolveFiles(r) \/ AppendUserMessage(r) \/ Prepare(r) \/ Stream(r)
  \/ AppendAnswer(r) \/ SendDone(r) \/ Publish(r) \/ Unlist(r)

Next ==
  \E r \in Requests :
    \/ BeginNew(r) \/ BeginDuplicate(r)
    \/ OwnerStep(r) \/ LoseJob(r)
    \/ RespondCached(r) \/ RefuseDuplicate(r)

Spec == Init /\ [][Next]_vars

\* Handlers run on until they return; jobs need not be lost.
FairSpec ==
  /\ Spec
  /\ \A r \in Requests : WF_vars(OwnerStep(r)) /\ WF_vars(RespondCached(r))

-----------------------------------------------------------------------------
Owners == {r \in Requests : rpc[r] \in OwnerPc}

TypeOK ==
  /\ rpc \in [Requests -> Pc]
  /\ DOMAIN table \subseteq Keys
  /\ table \in [DOMAIN table -> Requests]
  /\ entry \in [Requests -> Requests \cup {NoEntry}]
  /\ closed \subseteq Requests
  /\ result \in [Requests -> Outcome]
  /\ verdict \in [Requests -> Outcome]
  /\ userStored \subseteq Requests
  /\ aiStored \subseteq Requests
  /\ reply \in [Requests -> Reply]

\* Of the requests with one key at most one works at a time, and the table names
\* it from before it stores anything until after its result is published: two
\* concurrent requests never both store the message or both ask the model.
SingleFlight ==
  /\ \A r, s \in Owners : KeyOf[r] = KeyOf[s] => r = s
  /\ \A r \in Owners : KeyOf[r] \in DOMAIN table /\ table[KeyOf[r]] = r
  /\ \A k \in DOMAIN table : table[k] \in Owners /\ KeyOf[table[k]] = k

\* A waiter hears what became of the request it waited for, although the entry
\* has left the table by then: done means that both messages are stored, error
\* that the owner did not report success.
SharedOutcome ==
  \A r \in Requests : entry[r] \notin {r, NoEntry} =>
    /\ KeyOf[entry[r]] = KeyOf[r]
    /\ reply[r] = "done" =>
         entry[r] \in userStored \cap aiStored /\ reply[entry[r]] = "done"
    /\ reply[r] = "error" => reply[entry[r]] \in {"error", "status", "gone"}

OwnerLost(r) == entry[r] # NoEntry /\ rpc[entry[r]] = "lost"

\* Every request is answered, but for those whose job, or whose owner's job, was
\* dropped by ResetUser: they wait for ever, and so does every later retry.
RequestsEnd ==
  \A r \in Requests :
    rpc[r] # "new" ~> rpc[r] = "closed" \/ OwnerLost(r)
=============================================================================
