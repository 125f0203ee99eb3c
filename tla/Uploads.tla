------------------------------- MODULE Uploads -------------------------------
(***************************************************************************)
(* The files of one user: the directory tree under fileBase, the table     *)
(* temp_files that records them, and what changes both: filesUpload of     *)
(* api/handlers.go, the cleaner goroutine of clean_assistant.go, the       *)
(* deletion of a session (DeleteSession of session_assistant.go) and of    *)
(* the user.  Each statement sent to the database and each file operation  *)
(* is a step of its own and may fail; the backend may stop at any step.    *)
(*                                                                         *)
(* The uploads of a session all bring the same file name: a path is the    *)
(* session and the name: the number of the candidate, 0 for the name       *)
(* itself and i for "name (i)", or the upload, for the time-stamped name   *)
(* it alone has.  The bytes of a file are the upload they come from.  The  *)
(* pruning of empty directories only decides whether a Save fails.         *)
(***************************************************************************)
EXTENDS Integers, FiniteSets

CONSTANTS
  Files,        \* the POST /uploads requests; also the files they bring
  Sessions,
  SessionOf,    \* the session_id of each
  Size,         \* the size of each, at most maxUploadBytes
  MaxBytes,     \* maxUploadBytes
  Limit,        \* userStorageLimit
  NoFile,
  ForeignKeys,  \* what a pooled connection enforces: {TRUE}, with SQLite BOOLEAN
  MaxActive,    \* bound on uploads at work at one time
  MaxCandidate  \* bound on the names tried, 1000 in the code

ASSUME UploadsAssumption ==
  /\ SessionOf \in [Files -> Sessions]
  /\ Size \in [Files -> 0..MaxBytes]
  /\ MaxBytes \in Nat
  /\ Limit \in Nat
  /\ NoFile \notin Files
  /\ Files \cap (0..MaxCandidate) = {}
  /\ ForeignKeys \subseteq BOOLEAN
  /\ MaxActive \in Nat \ {0}
  /\ MaxCandidate \in Nat

VARIABLES
  pc,        \* where each upload is
  cand,      \* the name it tries or uses
  disk,      \* what is stored at each path
  rows,      \* the files that have a record
  expired,   \* those of them whose expires_at has passed
  sessions,  \* the sessions that exist
  user,      \* whether the user exists
  cleaner,   \* the cleaner: its step, the records it still goes through, its record
  deleting,  \* the names each DeleteSession has still to remove
  shared,    \* history: files saved where something else had a claim to the path
  leaked     \* history: files left behind by a failure, a stop or DeleteUser

vars == <<pc, cand, disk, rows, expired, sessions, user, cleaner, deleting, shared, leaked>>

Candidates == 0..MaxCandidate
Names      == Candidates \cup Files
Path(f)    == <<SessionOf[f], cand[f]>>
AtWork     == {f \in Files : pc[f] \in {"checked", "named", "saved"}}

\* The bytes of the files in F, and SUM(size) of the records: one for each byte.
Bytes(F) == {b \in F \X (1..MaxBytes) : b[2] <= Size[b[1]]}
Usage    == Cardinality(Bytes(rows))

IdleCleaner == [pc |-> "idle", todo |-> {}, file |-> NoFile]

Init ==
  /\ pc = [f \in Files |-> "waiting"]
  /\ cand = [f \in Files |-> 0]
  /\ disk = [p \in Sessions \X Names |-> NoFile]
  /\ rows = {}
  /\ expired = {}
  /\ sessions = Sessions
  /\ user = TRUE
  /\ cleaner = IdleCleaner
  /\ deleting = [s \in Sessions |-> {}]
  /\ shared = {}
  /\ leaked = {}

At(f, p)   == pc[f] = p
Goto(f, p) == pc' = [pc EXCEPT ![f] = p]

\* The others that will still use or remove what is stored at the path of f.
Claimants(f) ==
  {g \in Files \ {f} :
     /\ Path(g) = Path(f)
     /\ g \in rows \/ pc[g] \in {"named", "saved"} \/ g \in cleaner.todo}

(* filesUpload *)

\* Mutant: the size of the new file is not counted.
CheckQuotaLoose(f) ==
  /\ At(f, "waiting")
  /\ Cardinality(AtWork) < MaxActive
  /\ Goto(f, IF Usage <= Limit THEN "checked" ELSE "done")
  /\ UNCHANGED <<cand, disk, rows, expired, sessions, user, cleaner, deleting, shared, leaked>>

\* TempStorageUsage counts expired records until the cleaner deletes them.
CheckQuota(f) ==
  /\ At(f, "waiting")
  /\ Cardinality(AtWork) < MaxActive
  /\ Goto(f, IF Usage + Size[f] <= Limit THEN "checked" ELSE "done")
  /\ UNCHANGED <<cand, disk, rows, expired, sessions, user, cleaner, deleting, shared, leaked>>

\* A content type that is not allowed, a directory or a file that cannot be made.
Refuse(f) ==
  /\ pc[f] \in {"checked", "named"}
  /\ Goto(f, "done")
  /\ UNCHANGED <<cand, disk, rows, expired, sessions, user, cleaner, deleting, shared, leaked>>

\* getUniqueFilePath asks for one candidate after the other.  One that cannot be
\* looked at is passed over like one that is taken; after the last the name is
\* the time-stamped one, used without a look.
Stat(f) ==
  /\ At(f, "checked")
  /\ \/ disk[Path(f)] = NoFile /\ Goto(f, "named") /\ UNCHANGED cand
     \/ /\ cand[f] < MaxCandidate
        /\ cand' = [cand EXCEPT ![f] = @ + 1]
        /\ UNCHANGED pc
     \/ /\ cand[f] = MaxCandidate
        /\ cand' = [cand EXCEPT ![f] = f]
        /\ Goto(f, "named")
  /\ UNCHANGED <<disk, rows, expired, sessions, user, cleaner, deleting, shared, leaked>>

\* The file is created over whatever has come to be there; copying into it may fail.
Save(f) ==
  LET claimed == Claimants(f) # {} \/ cand[f] \in deleting[SessionOf[f]] IN
  /\ At(f, "named")
  /\ disk' = [disk EXCEPT ![Path(f)] = f]
  /\ shared' = IF claimed THEN shared \cup Claimants(f) \cup {f} ELSE shared
  /\ \/ Goto(f, "saved") /\ UNCHANGED leaked
     \/ Goto(f, "done") /\ leaked' = leaked \cup {f}
  /\ UNCHANGED <<cand, rows, expired, sessions, user, cleaner, deleting>>

\* Mutant: the record is made before the session is looked for, and again after.
RecordTwice(f) ==
  /\ pc[f] \in {"named", "saved"}
  /\ rows' = rows \cup {f}
  /\ Goto(f, IF At(f, "named") THEN "saved" ELSE "done")
  /\ UNCHANGED <<cand, disk, expired, sessions, user, cleaner, deleting, shared, leaked>>

\* RecordTempFile: the row refers to its user and session, where the connection looks.
Record(f) ==
  /\ At(f, "saved")
  /\ \E enforced \in ForeignKeys : enforced => user /\ SessionOf[f] \in sessions
  /\ rows' = rows \cup {f}
  /\ Goto(f, "done")
  /\ UNCHANGED <<cand, disk, expired, sessions, user, cleaner, deleting, shared, leaked>>

\* The INSERT fails: the saved file stays.
RecordFails(f) ==
  /\ At(f, "saved")
  /\ leaked' = leaked \cup {f}
  /\ Goto(f, "done")
  /\ UNCHANGED <<cand, disk, rows, expired, sessions, user, cleaner, deleting, shared>>

Expire(f) ==
  /\ f \in rows \ expired
  /\ expired' = expired \cup {f}
  /\ UNCHANGED <<pc, cand, disk, rows, sessions, user, cleaner, deleting, shared, leaked>>

(* cleanupExpiredFiles *)

\* Mutant: expires_at is not compared.
CleanListAll ==
  /\ cleaner.pc = "idle"
  /\ rows # {}
  /\ cleaner' = [pc |-> "files", todo |-> rows, file |-> NoFile]
  /\ UNCHANGED <<pc, cand, disk, rows, expired, sessions, user, deleting, shared, leaked>>

CleanList ==
  /\ cleaner.pc = "idle"
  /\ rows \cap expired # {}
  /\ cleaner' = [pc |-> "files", todo |-> rows \cap expired, file |-> NoFile]
  /\ UNCHANGED <<pc, cand, disk, rows, expired, sessions, user, deleting, shared, leaked>>

\* Mutant: a file that does not exist is an error too.
CleanRemoveExisting(f) ==
  /\ cleaner.pc = "files"
  /\ f \in cleaner.todo
  /\ disk[Path(f)] # NoFile
  /\ disk' = [disk EXCEPT ![Path(f)] = NoFile]
  /\ cleaner' = [pc |-> "row", todo |-> cleaner.todo \ {f}, file |-> f]
  /\ UNCHANGED <<pc, cand, rows, expired, sessions, user, deleting, shared, leaked>>

\* The path is removed, whatever is there; that nothing is there is no error.
CleanRemove(f) ==
  /\ cleaner.pc = "files"
  /\ f \in cleaner.todo
  /\ disk' = [disk EXCEPT ![Path(f)] = NoFile]
  /\ cleaner' = [pc |-> "row", todo |-> cleaner.todo \ {f}, file |-> f]
  /\ UNCHANGED <<pc, cand, rows, expired, sessions, user, deleting, shared, leaked>>

\* Mutant: the record of a file that cannot be removed is deleted.
CleanSkipDeletes(f) ==
  /\ cleaner.pc = "files"
  /\ f \in cleaner.todo
  /\ cleaner' = [pc |-> "row", todo |-> cleaner.todo \ {f}, file |-> f]
  /\ UNCHANGED <<pc, cand, disk, rows, expired, sessions, user, deleting, shared, leaked>>

\* A file that cannot be removed keeps its record.
CleanSkip(f) ==
  /\ cleaner.pc = "files"
  /\ f \in cleaner.todo
  /\ cleaner' = [cleaner EXCEPT !.todo = @ \ {f}]
  /\ UNCHANGED <<pc, cand, disk, rows, expired, sessions, user, deleting, shared, leaked>>

DeleteRecord ==
  /\ cleaner.pc = "row"
  /\ rows' = rows \ {cleaner.file}
  /\ expired' = expired \ {cleaner.file}
  /\ cleaner' = [cleaner EXCEPT !.pc = "files", !.file = NoFile]
  /\ UNCHANGED <<pc, cand, disk, sessions, user, deleting, shared, leaked>>

\* The error of deleteTempFileRecord is logged: the record outlives its file.
DeleteRecordFails ==
  /\ cleaner.pc = "row"
  /\ cleaner' = [cleaner EXCEPT !.pc = "files", !.file = NoFile]
  /\ UNCHANGED <<pc, cand, disk, rows, expired, sessions, user, deleting, shared, leaked>>

CleanEnd ==
  /\ cleaner.pc = "files"
  /\ cleaner.todo = {}
  /\ cleaner' = IdleCleaner
  /\ UNCHANGED <<pc, cand, disk, rows, expired, sessions, user, deleting, shared, leaked>>

(* DeleteSession, DeleteUser *)

\* The transaction; what it read is removed after the commit.
DeleteSession(s) ==
  LET gone == {f \in rows : SessionOf[f] = s} IN
  /\ s \in sessions
  /\ sessions' = sessions \ {s}
  /\ rows' = rows \ gone
  /\ expired' = expired \ gone
  /\ deleting' = [deleting EXCEPT ![s] = {cand[f] : f \in gone}]
  /\ UNCHANGED <<user, pc, cand, disk, cleaner, shared, leaked>>

RemovePath(s, n) ==
  /\ n \in deleting[s]
  /\ deleting' = [deleting EXCEPT ![s] = @ \ {n}]
  /\ \/ disk' = [disk EXCEPT ![<<s, n>>] = NoFile] /\ UNCHANGED leaked
     \/ leaked' = leaked \cup ({disk[<<s, n>>]} \ {NoFile}) /\ UNCHANGED disk
  /\ UNCHANGED <<pc, cand, rows, expired, sessions, user, cleaner, shared>>

\* Sessions and records go with the user where the connection enforces it; files
\* never do.
DeleteUser ==
  /\ user
  /\ user' = FALSE
  /\ \/ /\ TRUE \in ForeignKeys
        /\ sessions' = {}
        /\ rows' = {}
        /\ expired' = {}
        /\ leaked' = leaked \cup rows
     \/ FALSE \in ForeignKeys /\ UNCHANGED <<sessions, rows, expired, leaked>>
  /\ UNCHANGED <<pc, cand, disk, cleaner, deleting, shared>>

\* The backend stops and starts.
Restart ==
  /\ pc' = [f \in Files |-> IF f \in AtWork THEN "done" ELSE pc[f]]
  /\ cleaner' = IdleCleaner
  /\ deleting' = [s \in Sessions |-> {}]
  /\ leaked' = leaked \cup {f \in Files : \/ At(f, "saved")
                                           \/ /\ disk[Path(f)] = f
                                              /\ cand[f] \in deleting[SessionOf[f]]}
  /\ UNCHANGED <<cand, disk, rows, expired, sessions, user, shared>>

UploadStep(f) ==
  CheckQuota(f) \/ Refuse(f) \/ Stat(f) \/ Save(f) \/ Record(f) \/ RecordFails(f)

CleanerStep ==
  \/ \E f \in Files : CleanRemove(f) \/ CleanSkip(f)
  \/ CleanList \/ DeleteRecord \/ DeleteRecordFails \/ CleanEnd

DeleteStep ==
  \/ \E s \in Sessions : DeleteSession(s) \/ \E n \in Names : RemovePath(s, n)
  \/ DeleteUser

Next ==
  \/ \E f \in Files : UploadStep(f) \/ Expire(f)
  \/ CleanerStep
  \/ DeleteStep
  \/ Restart

\* The cleaner goroutine goes on, and what it tries again and again succeeds at
\* some time: a file is not in use for ever, nor the database away.
CleanerFairness ==
  /\ SF_vars(CleanList)
  /\ WF_vars(CleanEnd)
  /\ \A f \in Files : SF_vars(CleanRemove(f))
  /\ SF_vars(DeleteRecord)

Spec == Init /\ [][Next]_vars /\ CleanerFairness

(* properties *)

\* Values have their types; a name is a candidate or, once the upload has done with
\* those, its own; only a request that has saved its file has made a record; the cleaner keeps no list
\* between its rounds.
TypeOK ==
  /\ pc \in [Files -> {"waiting", "checked", "named", "saved", "done"}]
  /\ cand \in [Files -> Names]
  /\ \A f \in Files :
       \/ cand[f] \in Candidates
       \/ cand[f] = f /\ pc[f] \in {"named", "saved", "done"}
  /\ disk \in [Sessions \X Names -> Files \cup {NoFile}]
  /\ rows \subseteq {f \in Files : At(f, "done")}
  /\ expired \subseteq rows
  /\ sessions \subseteq Sessions
  /\ user \in BOOLEAN
  /\ cleaner \in [pc : {"idle", "files", "row"}, todo : SUBSET Files, file : Files \cup {NoFile}]
  /\ (cleaner.pc = "row") <=> (cleaner.file # NoFile)
  /\ cleaner.pc = "idle" => cleaner.todo = {}
  /\ deleting \in [Sessions -> SUBSET Names]
  /\ shared \subseteq Files
  /\ leaked \subseteq Files

\* The records never exceed the quota by more than what the other uploads in
\* flight may bring: the quota is read before the file is saved and recorded
\* (handlers.go:761-793).
QuotaBound == Usage <= Limit + (MaxActive - 1) * MaxBytes

\* A record that has not expired has its own bytes at its path, unless its file
\* was saved while something else had a claim to the path: neither the cleaner
\* nor a deletion takes the file of a live record (clean_assistant.go:61,
\* session_assistant.go:158, handlers.go:825).
RecordsKept == \A f \in rows \ (expired \cup shared) : disk[Path(f)] = f

\* A stored file has a record, or is being uploaded or deleted, or a named
\* failure left it behind: nothing else makes files nobody will ever remove
\* (handlers.go:789-797, clean_assistant.go:61-67, session_assistant.go:153-161).
FilesAccounted ==
  \A p \in Sessions \X Names : disk[p] # NoFile =>
    \/ disk[p] \in rows \cup leaked \cup shared
    \/ At(disk[p], "saved")
    \/ p[2] \in deleting[p[1]]

\* Expired records go, though their files may be gone already, removals may fail
\* and the backend may stop: there is always a time ahead when none is left
\* (clean_assistant.go:38-73).
CleanedUp == []<>(rows \cap expired = {})
=============================================================================
