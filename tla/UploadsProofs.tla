--------------------------- MODULE UploadsProofs ---------------------------
(***************************************************************************)
(* Proofs about Uploads, for every set of uploads and sessions: no live    *)
(* record loses its file, and no file is left without a record, but for    *)
(* the causes that shared and leaked note.  Inv says who may touch a path: *)
(* each of its parts is preserved by a lemma with one step per action.     *)
(***************************************************************************)
EXTENDS Uploads, FiniteSetTheorems, TLAPS

\* The file has been saved, is not expired, and shares its path with nothing.
Held(f) == (f \in rows \ expired \/ At(f, "saved")) /\ f \notin shared

\* A held file is at its path.
Kept == \A f \in Files : Held(f) => disk[Path(f)] = f

\* Nothing else has a claim to the path of a held file.
Alone ==
  \A f \in Files : Held(f)
    => Claimants(f) = {} /\ cand[f] \notin deleting[SessionOf[f]]

\* The cleaner goes through records that have expired, or have gone since.
TodoOld ==
  \A f \in cleaner.todo : At(f, "done") /\ (f \in expired \/ f \notin rows)

\* A file is at its own path and nowhere else.
Located ==
  \A p \in Sessions \X Names : disk[p] # NoFile
    => Path(disk[p]) = p /\ pc[disk[p]] \in {"saved", "done"}

\* The record the cleaner is about to delete has lost its file.
CleanedFirst ==
  cleaner.pc = "row" => At(cleaner.file, "done") /\ disk[Path(cleaner.file)] # cleaner.file

\* Files are removed for a session only once it is gone.
DeletedFirst == \A s \in sessions : deleting[s] = {}

Inv == Kept /\ Alone /\ TodoOld /\ Located /\ CleanedFirst /\ DeletedFirst /\ FilesAccounted

\* The path of a file is one of the paths.
LEMMA PathType ==
  ASSUME TypeOK
  PROVE  \A f \in Files : Path(f) \in Sessions \X Names
BY UploadsAssumption DEF TypeOK, Path

\* Every step keeps the types.
LEMMA TypeStep ==
  ASSUME TypeOK, [Next]_vars
  PROVE  TypeOK'
<1> USE UploadsAssumption, PathType
<1>1. ASSUME NEW f \in Files, CheckQuota(f)
     PROVE  TypeOK'
  BY <1>1 DEF CheckQuota, At, Goto, TypeOK, At, Path
<1>2. ASSUME NEW f \in Files, Refuse(f)
     PROVE  TypeOK'
  BY <1>2 DEF Refuse, Goto, TypeOK, At, Path
<1>3. ASSUME NEW f \in Files, Stat(f)
     PROVE  TypeOK'
  BY <1>3 DEF Stat, At, Goto, TypeOK, Candidates, Names, At, Path
<1>4. ASSUME NEW f \in Files, Save(f)
     PROVE  TypeOK'
  BY <1>4 DEF Save, At, Goto, Claimants, TypeOK, At, Path
<1>5. ASSUME NEW f \in Files, Record(f)
     PROVE  TypeOK'
  BY <1>5 DEF Record, At, Goto, TypeOK, At, Path
<1>6. ASSUME NEW f \in Files, RecordFails(f)
     PROVE  TypeOK'
  BY <1>6 DEF RecordFails, At, Goto, TypeOK, At, Path
<1>7. ASSUME NEW f \in Files, Expire(f)
     PROVE  TypeOK'
  BY <1>7 DEF Expire, TypeOK, At, Path
<1>8. ASSUME CleanList
     PROVE  TypeOK'
  BY <1>8 DEF CleanList, TypeOK, At, Path
<1>9. ASSUME NEW f \in Files, CleanRemove(f)
     PROVE  TypeOK'
  BY <1>9 DEF CleanRemove, TypeOK, At, Path
<1>10. ASSUME NEW f \in Files, CleanSkip(f)
     PROVE  TypeOK'
  BY <1>10 DEF CleanSkip, TypeOK, At, Path
<1>11. ASSUME DeleteRecord
     PROVE  TypeOK'
  BY <1>11 DEF DeleteRecord, TypeOK, At, Path
<1>12. ASSUME DeleteRecordFails
     PROVE  TypeOK'
  BY <1>12 DEF DeleteRecordFails, TypeOK, At, Path
<1>13. ASSUME CleanEnd
     PROVE  TypeOK'
  BY <1>13 DEF CleanEnd, IdleCleaner, TypeOK, At, Path
<1>14. ASSUME NEW s \in Sessions, DeleteSession(s)
     PROVE  TypeOK'
  BY <1>14 DEF DeleteSession, TypeOK, At, Path
<1>15. ASSUME NEW s \in Sessions, NEW n \in Names, RemovePath(s, n)
     PROVE  TypeOK'
  BY <1>15 DEF RemovePath, TypeOK, At, Path
<1>16. ASSUME DeleteUser
     PROVE  TypeOK'
  BY <1>16 DEF DeleteUser, TypeOK, At, Path
<1>17. ASSUME Restart
     PROVE  TypeOK'
  BY <1>17 DEF Restart, IdleCleaner, AtWork, At, TypeOK, At, Path
<1>18. CASE UNCHANGED vars
  BY <1>18 DEF vars, TypeOK, At, Path
<1> QED
  BY <1>1, <1>2, <1>3, <1>4, <1>5, <1>6, <1>7, <1>8, <1>9, <1>10, <1>11, <1>12, <1>13, <1>14,
     <1>15, <1>16, <1>17, <1>18
     DEF Next, UploadStep, CleanerStep, DeleteStep

\* Every step keeps Kept.
LEMMA KeptStep ==
  ASSUME TypeOK, Kept, Alone, TodoOld, [Next]_vars
  PROVE  Kept'
<1> USE UploadsAssumption, PathType
<1>1. ASSUME NEW f \in Files, CheckQuota(f)
     PROVE  Kept'
  BY <1>1
     DEF CheckQuota, At, Goto, TypeOK, Kept, Alone, TodoOld, Held, Claimants, Path, At
<1>2. ASSUME NEW f \in Files, Refuse(f)
     PROVE  Kept'
  BY <1>2 DEF Refuse, Goto, TypeOK, Kept, Alone, TodoOld, Held, Claimants, Path, At
<1>3. ASSUME NEW f \in Files, Stat(f)
     PROVE  Kept'
  BY <1>3
     DEF Stat, At, Goto, TypeOK, Kept, Alone, TodoOld, Held, Claimants, Path, At, Candidates
<1>4. ASSUME NEW f \in Files, Save(f)
     PROVE  Kept'
  BY <1>4
     DEF Save, At, Goto, Claimants, TypeOK, Kept, Alone, TodoOld, Held, Claimants, Path, At
<1>5. ASSUME NEW f \in Files, Record(f)
     PROVE  Kept'
  BY <1>5
     DEF Record, At, Goto, TypeOK, Kept, Alone, TodoOld, Held, Claimants, Path, At
<1>6. ASSUME NEW f \in Files, RecordFails(f)
     PROVE  Kept'
  BY <1>6
     DEF RecordFails, At, Goto, TypeOK, Kept, Alone, TodoOld, Held, Claimants, Path, At
<1>7. ASSUME NEW f \in Files, Expire(f)
     PROVE  Kept'
  BY <1>7 DEF Expire, TypeOK, Kept, Alone, TodoOld, Held, Claimants, Path, At
<1>8. ASSUME CleanList
     PROVE  Kept'
  BY <1>8 DEF CleanList, TypeOK, Kept, Alone, TodoOld, Held, Claimants, Path, At
<1>9. ASSUME NEW f \in Files, CleanRemove(f)
     PROVE  Kept'
  BY <1>9 DEF CleanRemove, TypeOK, Kept, Alone, TodoOld, Held, Claimants, Path, At
<1>10. ASSUME NEW f \in Files, CleanSkip(f)
     PROVE  Kept'
  BY <1>10 DEF CleanSkip, TypeOK, Kept, Alone, TodoOld, Held, Claimants, Path, At
<1>11. ASSUME DeleteRecord
     PROVE  Kept'
  BY <1>11 DEF DeleteRecord, TypeOK, Kept, Alone, TodoOld, Held, Claimants, Path, At
<1>12. ASSUME DeleteRecordFails
     PROVE  Kept'
  BY <1>12
     DEF DeleteRecordFails, TypeOK, Kept, Alone, TodoOld, Held, Claimants, Path, At
<1>13. ASSUME CleanEnd
     PROVE  Kept'
  BY <1>13
     DEF CleanEnd, IdleCleaner, TypeOK, Kept, Alone, TodoOld, Held, Claimants, Path, At
<1>14. ASSUME NEW s \in Sessions, DeleteSession(s)
     PROVE  Kept'
  BY <1>14
     DEF DeleteSession, TypeOK, Kept, Alone, TodoOld, Held, Claimants, Path, At
<1>15. ASSUME NEW s \in Sessions, NEW n \in Names, RemovePath(s, n)
     PROVE  Kept'
  BY <1>15 DEF RemovePath, TypeOK, Kept, Alone, TodoOld, Held, Claimants, Path, At
<1>16. ASSUME DeleteUser
     PROVE  Kept'
  BY <1>16 DEF DeleteUser, TypeOK, Kept, Alone, TodoOld, Held, Claimants, Path, At
<1>17. ASSUME Restart
     PROVE  Kept'
  BY <1>17
     DEF Restart, IdleCleaner, AtWork, At, TypeOK, Kept, Alone, TodoOld, Held, Claimants, Path,
         At
<1>18. CASE UNCHANGED vars
  BY <1>18 DEF vars, TypeOK, Kept, Alone, TodoOld, Held, Claimants, Path, At
<1> QED
  BY <1>1, <1>2, <1>3, <1>4, <1>5, <1>6, <1>7, <1>8, <1>9, <1>10, <1>11, <1>12, <1>13, <1>14,
     <1>15, <1>16, <1>17, <1>18
     DEF Next, UploadStep, CleanerStep, DeleteStep

\* Every step keeps Alone.
LEMMA AloneStep ==
  ASSUME TypeOK, Kept, Alone, TodoOld, [Next]_vars
  PROVE  Alone'
<1> USE UploadsAssumption, PathType
<1>1. ASSUME NEW f \in Files, CheckQuota(f)
     PROVE  Alone'
  BY <1>1
     DEF CheckQuota, At, Goto, TypeOK, Kept, Alone, TodoOld, Held, Claimants, Path, At
<1>2. ASSUME NEW f \in Files, Refuse(f)
     PROVE  Alone'
  BY <1>2 DEF Refuse, Goto, TypeOK, Kept, Alone, TodoOld, Held, Claimants, Path, At
<1>3. ASSUME NEW f \in Files, Stat(f)
     PROVE  Alone'
  BY <1>3
     DEF Stat, At, Goto, TypeOK, Kept, Alone, TodoOld, Held, Claimants, Path, At, Candidates
<1>4. ASSUME NEW f \in Files, Save(f)
     PROVE  Alone'
  BY <1>4
     DEF Save, At, Goto, Claimants, TypeOK, Kept, Alone, TodoOld, Held, Claimants, Path, At
<1>5. ASSUME NEW f \in Files, Record(f)
     PROVE  Alone'
  BY <1>5
     DEF Record, At, Goto, TypeOK, Kept, Alone, TodoOld, Held, Claimants, Path, At
<1>6. ASSUME NEW f \in Files, RecordFails(f)
     PROVE  Alone'
  BY <1>6
     DEF RecordFails, At, Goto, TypeOK, Kept, Alone, TodoOld, Held, Claimants, Path, At
<1>7. ASSUME NEW f \in Files, Expire(f)
     PROVE  Alone'
  BY <1>7 DEF Expire, TypeOK, Kept, Alone, TodoOld, Held, Claimants, Path, At
<1>8. ASSUME CleanList
     PROVE  Alone'
  BY <1>8 DEF CleanList, TypeOK, Kept, Alone, TodoOld, Held, Claimants, Path, At
<1>9. ASSUME NEW f \in Files, CleanRemove(f)
     PROVE  Alone'
  BY <1>9 DEF CleanRemove, TypeOK, Kept, Alone, TodoOld, Held, Claimants, Path, At
<1>10. ASSUME NEW f \in Files, CleanSkip(f)
     PROVE  Alone'
  BY <1>10 DEF CleanSkip, TypeOK, Kept, Alone, TodoOld, Held, Claimants, Path, At
<1>11. ASSUME DeleteRecord
     PROVE  Alone'
  BY <1>11 DEF DeleteRecord, TypeOK, Kept, Alone, TodoOld, Held, Claimants, Path, At
<1>12. ASSUME DeleteRecordFails
     PROVE  Alone'
  BY <1>12
     DEF DeleteRecordFails, TypeOK, Kept, Alone, TodoOld, Held, Claimants, Path, At
<1>13. ASSUME CleanEnd
     PROVE  Alone'
  BY <1>13
     DEF CleanEnd, IdleCleaner, TypeOK, Kept, Alone, TodoOld, Held, Claimants, Path, At
<1>14. ASSUME NEW s \in Sessions, DeleteSession(s)
     PROVE  Alone'
  BY <1>14
     DEF DeleteSession, TypeOK, Kept, Alone, TodoOld, Held, Claimants, Path, At
<1>15. ASSUME NEW s \in Sessions, NEW n \in Names, RemovePath(s, n)
     PROVE  Alone'
  BY <1>15 DEF RemovePath, TypeOK, Kept, Alone, TodoOld, Held, Claimants, Path, At
<1>16. ASSUME DeleteUser
     PROVE  Alone'
  <2>1. rows' \subseteq rows /\ rows' \ expired' \subseteq rows \ expired
    BY <1>16 DEF DeleteUser
  <2>2. ASSUME NEW f \in Files, Held(f)'
        PROVE  Held(f) /\ Claimants(f)' \subseteq Claimants(f)
    BY <1>16, <2>1, <2>2 DEF DeleteUser, Held, Claimants, Path, At
  <2> QED
    BY <1>16, <2>2 DEF DeleteUser, Alone
<1>17. ASSUME Restart
     PROVE  Alone'
  BY <1>17
     DEF Restart, IdleCleaner, AtWork, At, TypeOK, Kept, Alone, TodoOld, Held, Claimants, Path,
         At
<1>18. CASE UNCHANGED vars
  BY <1>18 DEF vars, TypeOK, Kept, Alone, TodoOld, Held, Claimants, Path, At
<1> QED
  BY <1>1, <1>2, <1>3, <1>4, <1>5, <1>6, <1>7, <1>8, <1>9, <1>10, <1>11, <1>12, <1>13, <1>14,
     <1>15, <1>16, <1>17, <1>18
     DEF Next, UploadStep, CleanerStep, DeleteStep

\* Every step keeps TodoOld.
LEMMA TodoStep ==
  ASSUME TypeOK, TodoOld, [Next]_vars
  PROVE  TodoOld'
<1> USE UploadsAssumption, PathType
<1>1. ASSUME NEW f \in Files, CheckQuota(f)
     PROVE  TodoOld'
  BY <1>1 DEF CheckQuota, At, Goto, TypeOK, TodoOld, At
<1>2. ASSUME NEW f \in Files, Refuse(f)
     PROVE  TodoOld'
  BY <1>2 DEF Refuse, Goto, TypeOK, TodoOld, At
<1>3. ASSUME NEW f \in Files, Stat(f)
     PROVE  TodoOld'
  BY <1>3 DEF Stat, At, Goto, TypeOK, TodoOld, At
<1>4. ASSUME NEW f \in Files, Save(f)
     PROVE  TodoOld'
  BY <1>4 DEF Save, At, Goto, Claimants, TypeOK, TodoOld, At
<1>5. ASSUME NEW f \in Files, Record(f)
     PROVE  TodoOld'
  BY <1>5 DEF Record, At, Goto, TypeOK, TodoOld, At
<1>6. ASSUME NEW f \in Files, RecordFails(f)
     PROVE  TodoOld'
  BY <1>6 DEF RecordFails, At, Goto, TypeOK, TodoOld, At
<1>7. ASSUME NEW f \in Files, Expire(f)
     PROVE  TodoOld'
  BY <1>7 DEF Expire, TypeOK, TodoOld, At
<1>8. ASSUME CleanList
     PROVE  TodoOld'
  BY <1>8 DEF CleanList, TypeOK, TodoOld, At
<1>9. ASSUME NEW f \in Files, CleanRemove(f)
     PROVE  TodoOld'
  BY <1>9 DEF CleanRemove, TypeOK, TodoOld, At
<1>10. ASSUME NEW f \in Files, CleanSkip(f)
     PROVE  TodoOld'
  BY <1>10 DEF CleanSkip, TypeOK, TodoOld, At
<1>11. ASSUME DeleteRecord
     PROVE  TodoOld'
  BY <1>11 DEF DeleteRecord, TypeOK, TodoOld, At
<1>12. ASSUME DeleteRecordFails
     PROVE  TodoOld'
  BY <1>12 DEF DeleteRecordFails, TypeOK, TodoOld, At
<1>13. ASSUME CleanEnd
     PROVE  TodoOld'
  BY <1>13 DEF CleanEnd, IdleCleaner, TypeOK, TodoOld, At
<1>14. ASSUME NEW s \in Sessions, DeleteSession(s)
     PROVE  TodoOld'
  BY <1>14 DEF DeleteSession, TypeOK, TodoOld, At
<1>15. ASSUME NEW s \in Sessions, NEW n \in Names, RemovePath(s, n)
     PROVE  TodoOld'
  BY <1>15 DEF RemovePath, TypeOK, TodoOld, At
<1>16. ASSUME DeleteUser
     PROVE  TodoOld'
  BY <1>16 DEF DeleteUser, TypeOK, TodoOld, At
<1>17. ASSUME Restart
     PROVE  TodoOld'
  BY <1>17 DEF Restart, IdleCleaner, AtWork, At, TypeOK, TodoOld, At
<1>18. CASE UNCHANGED vars
  BY <1>18 DEF vars, TypeOK, TodoOld, At
<1> QED
  BY <1>1, <1>2, <1>3, <1>4, <1>5, <1>6, <1>7, <1>8, <1>9, <1>10, <1>11, <1>12, <1>13, <1>14,
     <1>15, <1>16, <1>17, <1>18
     DEF Next, UploadStep, CleanerStep, DeleteStep

\* Every step keeps Located.
LEMMA LocatedStep ==
  ASSUME TypeOK, Located, [Next]_vars
  PROVE  Located'
<1> USE UploadsAssumption, PathType
<1>1. ASSUME NEW f \in Files, CheckQuota(f)
     PROVE  Located'
  BY <1>1 DEF CheckQuota, At, Goto, TypeOK, Located, Path, At
<1>2. ASSUME NEW f \in Files, Refuse(f)
     PROVE  Located'
  BY <1>2 DEF Refuse, Goto, TypeOK, Located, Path, At
<1>3. ASSUME NEW f \in Files, Stat(f)
     PROVE  Located'
  BY <1>3 DEF Stat, At, Goto, TypeOK, Located, Path, At
<1>4. ASSUME NEW f \in Files, Save(f)
     PROVE  Located'
  BY <1>4 DEF Save, At, Goto, Claimants, TypeOK, Located, Path, At
<1>5. ASSUME NEW f \in Files, Record(f)
     PROVE  Located'
  BY <1>5 DEF Record, At, Goto, TypeOK, Located, Path, At
<1>6. ASSUME NEW f \in Files, RecordFails(f)
     PROVE  Located'
  BY <1>6 DEF RecordFails, At, Goto, TypeOK, Located, Path, At
<1>7. ASSUME NEW f \in Files, Expire(f)
     PROVE  Located'
  BY <1>7 DEF Expire, TypeOK, Located, Path, At
<1>8. ASSUME CleanList
     PROVE  Located'
  BY <1>8 DEF CleanList, TypeOK, Located, Path, At
<1>9. ASSUME NEW f \in Files, CleanRemove(f)
     PROVE  Located'
  BY <1>9 DEF CleanRemove, TypeOK, Located, Path, At
<1>10. ASSUME NEW f \in Files, CleanSkip(f)
     PROVE  Located'
  BY <1>10 DEF CleanSkip, TypeOK, Located, Path, At
<1>11. ASSUME DeleteRecord
     PROVE  Located'
  BY <1>11 DEF DeleteRecord, TypeOK, Located, Path, At
<1>12. ASSUME DeleteRecordFails
     PROVE  Located'
  BY <1>12 DEF DeleteRecordFails, TypeOK, Located, Path, At
<1>13. ASSUME CleanEnd
     PROVE  Located'
  BY <1>13 DEF CleanEnd, IdleCleaner, TypeOK, Located, Path, At
<1>14. ASSUME NEW s \in Sessions, DeleteSession(s)
     PROVE  Located'
  BY <1>14 DEF DeleteSession, TypeOK, Located, Path, At
<1>15. ASSUME NEW s \in Sessions, NEW n \in Names, RemovePath(s, n)
     PROVE  Located'
  BY <1>15 DEF RemovePath, TypeOK, Located, Path, At
<1>16. ASSUME DeleteUser
     PROVE  Located'
  BY <1>16 DEF DeleteUser, TypeOK, Located, Path, At
<1>17. ASSUME Restart
     PROVE  Located'
  BY <1>17 DEF Restart, IdleCleaner, AtWork, At, TypeOK, Located, Path, At
<1>18. CASE UNCHANGED vars
  BY <1>18 DEF vars, TypeOK, Located, Path, At
<1> QED
  BY <1>1, <1>2, <1>3, <1>4, <1>5, <1>6, <1>7, <1>8, <1>9, <1>10, <1>11, <1>12, <1>13, <1>14,
     <1>15, <1>16, <1>17, <1>18
     DEF Next, UploadStep, CleanerStep, DeleteStep

\* Every step keeps CleanedFirst.
LEMMA CleanedStep ==
  ASSUME TypeOK, TodoOld, CleanedFirst, [Next]_vars
  PROVE  CleanedFirst'
<1> USE UploadsAssumption, PathType
<1>1. ASSUME NEW f \in Files, CheckQuota(f)
     PROVE  CleanedFirst'
  BY <1>1 DEF CheckQuota, At, Goto, TypeOK, TodoOld, CleanedFirst, Path, At
<1>2. ASSUME NEW f \in Files, Refuse(f)
     PROVE  CleanedFirst'
  BY <1>2 DEF Refuse, Goto, TypeOK, TodoOld, CleanedFirst, Path, At
<1>3. ASSUME NEW f \in Files, Stat(f)
     PROVE  CleanedFirst'
  BY <1>3 DEF Stat, At, Goto, TypeOK, TodoOld, CleanedFirst, Path, At
<1>4. ASSUME NEW f \in Files, Save(f)
     PROVE  CleanedFirst'
  BY <1>4 DEF Save, At, Goto, Claimants, TypeOK, TodoOld, CleanedFirst, Path, At
<1>5. ASSUME NEW f \in Files, Record(f)
     PROVE  CleanedFirst'
  BY <1>5 DEF Record, At, Goto, TypeOK, TodoOld, CleanedFirst, Path, At
<1>6. ASSUME NEW f \in Files, RecordFails(f)
     PROVE  CleanedFirst'
  BY <1>6 DEF RecordFails, At, Goto, TypeOK, TodoOld, CleanedFirst, Path, At
<1>7. ASSUME NEW f \in Files, Expire(f)
     PROVE  CleanedFirst'
  BY <1>7 DEF Expire, TypeOK, TodoOld, CleanedFirst, Path, At
<1>8. ASSUME CleanList
     PROVE  CleanedFirst'
  BY <1>8 DEF CleanList, TypeOK, TodoOld, CleanedFirst, Path, At
<1>9. ASSUME NEW f \in Files, CleanRemove(f)
     PROVE  CleanedFirst'
  BY <1>9 DEF CleanRemove, TypeOK, TodoOld, CleanedFirst, Path, At
<1>10. ASSUME NEW f \in Files, CleanSkip(f)
     PROVE  CleanedFirst'
  BY <1>10 DEF CleanSkip, TypeOK, TodoOld, CleanedFirst, Path, At
<1>11. ASSUME DeleteRecord
     PROVE  CleanedFirst'
  BY <1>11 DEF DeleteRecord, TypeOK, TodoOld, CleanedFirst, Path, At
<1>12. ASSUME DeleteRecordFails
     PROVE  CleanedFirst'
  BY <1>12 DEF DeleteRecordFails, TypeOK, TodoOld, CleanedFirst, Path, At
<1>13. ASSUME CleanEnd
     PROVE  CleanedFirst'
  BY <1>13 DEF CleanEnd, IdleCleaner, TypeOK, TodoOld, CleanedFirst, Path, At
<1>14. ASSUME NEW s \in Sessions, DeleteSession(s)
     PROVE  CleanedFirst'
  BY <1>14 DEF DeleteSession, TypeOK, TodoOld, CleanedFirst, Path, At
<1>15. ASSUME NEW s \in Sessions, NEW n \in Names, RemovePath(s, n)
     PROVE  CleanedFirst'
  BY <1>15 DEF RemovePath, TypeOK, TodoOld, CleanedFirst, Path, At
<1>16. ASSUME DeleteUser
     PROVE  CleanedFirst'
  BY <1>16 DEF DeleteUser, TypeOK, TodoOld, CleanedFirst, Path, At
<1>17. ASSUME Restart
     PROVE  CleanedFirst'
  BY <1>17
     DEF Restart, IdleCleaner, AtWork, At, TypeOK, TodoOld, CleanedFirst, Path, At
<1>18. CASE UNCHANGED vars
  BY <1>18 DEF vars, TypeOK, TodoOld, CleanedFirst, Path, At
<1> QED
  BY <1>1, <1>2, <1>3, <1>4, <1>5, <1>6, <1>7, <1>8, <1>9, <1>10, <1>11, <1>12, <1>13, <1>14,
     <1>15, <1>16, <1>17, <1>18
     DEF Next, UploadStep, CleanerStep, DeleteStep

\* Every step keeps DeletedFirst.
LEMMA DeletedStep ==
  ASSUME TypeOK, DeletedFirst, [Next]_vars
  PROVE  DeletedFirst'
<1> USE UploadsAssumption, PathType
<1>1. ASSUME NEW f \in Files, CheckQuota(f)
     PROVE  DeletedFirst'
  BY <1>1 DEF CheckQuota, At, Goto, TypeOK, DeletedFirst
<1>2. ASSUME NEW f \in Files, Refuse(f)
     PROVE  DeletedFirst'
  BY <1>2 DEF Refuse, Goto, TypeOK, DeletedFirst
<1>3. ASSUME NEW f \in Files, Stat(f)
     PROVE  DeletedFirst'
  BY <1>3 DEF Stat, At, Goto, TypeOK, DeletedFirst
<1>4. ASSUME NEW f \in Files, Save(f)
     PROVE  DeletedFirst'
  BY <1>4 DEF Save, At, Goto, Claimants, TypeOK, DeletedFirst
<1>5. ASSUME NEW f \in Files, Record(f)
     PROVE  DeletedFirst'
  BY <1>5 DEF Record, At, Goto, TypeOK, DeletedFirst
<1>6. ASSUME NEW f \in Files, RecordFails(f)
     PROVE  DeletedFirst'
  BY <1>6 DEF RecordFails, At, Goto, TypeOK, DeletedFirst
<1>7. ASSUME NEW f \in Files, Expire(f)
     PROVE  DeletedFirst'
  BY <1>7 DEF Expire, TypeOK, DeletedFirst
<1>8. ASSUME CleanList
     PROVE  DeletedFirst'
  BY <1>8 DEF CleanList, TypeOK, DeletedFirst
<1>9. ASSUME NEW f \in Files, CleanRemove(f)
     PROVE  DeletedFirst'
  BY <1>9 DEF CleanRemove, TypeOK, DeletedFirst
<1>10. ASSUME NEW f \in Files, CleanSkip(f)
     PROVE  DeletedFirst'
  BY <1>10 DEF CleanSkip, TypeOK, DeletedFirst
<1>11. ASSUME DeleteRecord
     PROVE  DeletedFirst'
  BY <1>11 DEF DeleteRecord, TypeOK, DeletedFirst
<1>12. ASSUME DeleteRecordFails
     PROVE  DeletedFirst'
  BY <1>12 DEF DeleteRecordFails, TypeOK, DeletedFirst
<1>13. ASSUME CleanEnd
     PROVE  DeletedFirst'
  BY <1>13 DEF CleanEnd, IdleCleaner, TypeOK, DeletedFirst
<1>14. ASSUME NEW s \in Sessions, DeleteSession(s)
     PROVE  DeletedFirst'
  BY <1>14 DEF DeleteSession, TypeOK, DeletedFirst
<1>15. ASSUME NEW s \in Sessions, NEW n \in Names, RemovePath(s, n)
     PROVE  DeletedFirst'
  BY <1>15 DEF RemovePath, TypeOK, DeletedFirst
<1>16. ASSUME DeleteUser
     PROVE  DeletedFirst'
  BY <1>16 DEF DeleteUser, TypeOK, DeletedFirst
<1>17. ASSUME Restart
     PROVE  DeletedFirst'
  BY <1>17 DEF Restart, IdleCleaner, AtWork, At, TypeOK, DeletedFirst
<1>18. CASE UNCHANGED vars
  BY <1>18 DEF vars, TypeOK, DeletedFirst
<1> QED
  BY <1>1, <1>2, <1>3, <1>4, <1>5, <1>6, <1>7, <1>8, <1>9, <1>10, <1>11, <1>12, <1>13, <1>14,
     <1>15, <1>16, <1>17, <1>18
     DEF Next, UploadStep, CleanerStep, DeleteStep

\* Every step keeps FilesAccounted.
LEMMA AccountedStep ==
  ASSUME TypeOK, Located, CleanedFirst, DeletedFirst, FilesAccounted, [Next]_vars
  PROVE  FilesAccounted'
<1> USE UploadsAssumption, PathType
<1>1. ASSUME NEW f \in Files, CheckQuota(f)
     PROVE  FilesAccounted'
  BY <1>1
     DEF CheckQuota, At, Goto, TypeOK, Located, CleanedFirst, DeletedFirst, FilesAccounted,
         Path, At
<1>2. ASSUME NEW f \in Files, Refuse(f)
     PROVE  FilesAccounted'
  BY <1>2
     DEF Refuse, Goto, TypeOK, Located, CleanedFirst, DeletedFirst, FilesAccounted, Path, At
<1>3. ASSUME NEW f \in Files, Stat(f)
     PROVE  FilesAccounted'
  BY <1>3
     DEF Stat, At, Goto, TypeOK, Located, CleanedFirst, DeletedFirst, FilesAccounted, Path, At
<1>4. ASSUME NEW f \in Files, Save(f)
     PROVE  FilesAccounted'
  BY <1>4
     DEF Save, At, Goto, Claimants, TypeOK, Located, CleanedFirst, DeletedFirst, FilesAccounted,
         Path, At
<1>5. ASSUME NEW f \in Files, Record(f)
     PROVE  FilesAccounted'
  BY <1>5
     DEF Record, At, Goto, TypeOK, Located, CleanedFirst, DeletedFirst, FilesAccounted, Path,
         At
<1>6. ASSUME NEW f \in Files, RecordFails(f)
     PROVE  FilesAccounted'
  BY <1>6
     DEF RecordFails, At, Goto, TypeOK, Located, CleanedFirst, DeletedFirst, FilesAccounted,
         Path, At
<1>7. ASSUME NEW f \in Files, Expire(f)
     PROVE  FilesAccounted'
  BY <1>7
     DEF Expire, TypeOK, Located, CleanedFirst, DeletedFirst, FilesAccounted, Path, At
<1>8. ASSUME CleanList
     PROVE  FilesAccounted'
  BY <1>8
     DEF CleanList, TypeOK, Located, CleanedFirst, DeletedFirst, FilesAccounted, Path, At
<1>9. ASSUME NEW f \in Files, CleanRemove(f)
     PROVE  FilesAccounted'
  BY <1>9
     DEF CleanRemove, TypeOK, Located, CleanedFirst, DeletedFirst, FilesAccounted, Path, At
<1>10. ASSUME NEW f \in Files, CleanSkip(f)
     PROVE  FilesAccounted'
  BY <1>10
     DEF CleanSkip, TypeOK, Located, CleanedFirst, DeletedFirst, FilesAccounted, Path, At
<1>11. ASSUME DeleteRecord
     PROVE  FilesAccounted'
  BY <1>11
     DEF DeleteRecord, TypeOK, Located, CleanedFirst, DeletedFirst, FilesAccounted, Path, At
<1>12. ASSUME DeleteRecordFails
     PROVE  FilesAccounted'
  BY <1>12
     DEF DeleteRecordFails, TypeOK, Located, CleanedFirst, DeletedFirst, FilesAccounted, Path,
         At
<1>13. ASSUME CleanEnd
     PROVE  FilesAccounted'
  BY <1>13
     DEF CleanEnd, IdleCleaner, TypeOK, Located, CleanedFirst, DeletedFirst, FilesAccounted,
         Path, At
<1>14. ASSUME NEW s \in Sessions, DeleteSession(s)
     PROVE  FilesAccounted'
  BY <1>14
     DEF DeleteSession, TypeOK, Located, CleanedFirst, DeletedFirst, FilesAccounted, Path, At
<1>15. ASSUME NEW s \in Sessions, NEW n \in Names, RemovePath(s, n)
     PROVE  FilesAccounted'
  <2>1. CASE disk' = [disk EXCEPT ![<<s, n>>] = NoFile] /\ UNCHANGED leaked
    BY <1>15, <2>1 DEF RemovePath, TypeOK, FilesAccounted, At
  <2>2. CASE leaked' = leaked \cup ({disk[<<s, n>>]} \ {NoFile}) /\ UNCHANGED disk
    BY <1>15, <2>2 DEF RemovePath, TypeOK, FilesAccounted, At
  <2> QED
    BY <1>15, <2>1, <2>2 DEF RemovePath
<1>16. ASSUME DeleteUser
     PROVE  FilesAccounted'
  BY <1>16
     DEF DeleteUser, TypeOK, Located, CleanedFirst, DeletedFirst, FilesAccounted, Path, At
<1>17. ASSUME Restart
     PROVE  FilesAccounted'
  BY <1>17
     DEF Restart, IdleCleaner, AtWork, At, TypeOK, Located, CleanedFirst, DeletedFirst,
         FilesAccounted, Path, At
<1>18. CASE UNCHANGED vars
  BY <1>18
     DEF vars, TypeOK, Located, CleanedFirst, DeletedFirst, FilesAccounted, Path, At
<1> QED
  BY <1>1, <1>2, <1>3, <1>4, <1>5, <1>6, <1>7, <1>8, <1>9, <1>10, <1>11, <1>12, <1>13, <1>14,
     <1>15, <1>16, <1>17, <1>18
     DEF Next, UploadStep, CleanerStep, DeleteStep

\* The initial states satisfy the types and Inv.
LEMMA InitInv ==
  ASSUME Init
  PROVE  TypeOK /\ Inv
<1> USE UploadsAssumption DEF Init, IdleCleaner
<1>1. TypeOK
  <2>1. 0 \in Candidates /\ Candidates \subseteq Names
    BY DEF Candidates, Names
  <2> QED
    BY <2>1 DEF TypeOK, At
<1>2. Kept /\ Alone /\ TodoOld
  BY DEF Kept, Alone, Held, TodoOld, At
<1>3. Located /\ CleanedFirst /\ DeletedFirst /\ FilesAccounted
  BY DEF Located, CleanedFirst, DeletedFirst, FilesAccounted
<1> QED
  BY <1>1, <1>2, <1>3 DEF Inv

\* TypeOK /\ Inv is inductive.
LEMMA InvStep ==
  ASSUME TypeOK, Inv, [Next]_vars
  PROVE  TypeOK' /\ Inv'
<1>1. Kept /\ Alone /\ TodoOld /\ Located /\ CleanedFirst /\ DeletedFirst /\ FilesAccounted
  BY DEF Inv
<1>2. TypeOK' /\ Kept' /\ Alone' /\ TodoOld'
  BY <1>1, TypeStep, KeptStep, AloneStep, TodoStep
<1>3. Located' /\ CleanedFirst' /\ DeletedFirst' /\ FilesAccounted'
  BY <1>1, LocatedStep, CleanedStep, DeletedStep, AccountedStep
<1> QED
  BY <1>2, <1>3 DEF Inv

\* The types and Inv hold throughout.
THEOREM UploadsInvariant == Spec => [](TypeOK /\ Inv)
<1>1. Init => TypeOK /\ Inv
  BY InitInv
<1>2. TypeOK /\ Inv /\ [Next]_vars => (TypeOK /\ Inv)'
  BY InvStep
<1> QED
  BY <1>1, <1>2, PTL DEF Spec

\* Values have their types, and a record is made after its file was saved
\* (handlers.go:789-793).
THEOREM UploadsTyped == Spec => []TypeOK
  BY UploadsInvariant, PTL

\* A record that has not expired keeps its file, unless its path was shared
\* (clean_assistant.go:61, session_assistant.go:158, handlers.go:825).
THEOREM UploadsRecordsKept == Spec => []RecordsKept
<1>1. TypeOK /\ Inv => RecordsKept
  BY DEF TypeOK, Inv, Kept, Held, RecordsKept
<1> QED
  BY <1>1, UploadsInvariant, PTL

\* A file without a record is being saved or deleted, or one of the noted
\* failures left it (handlers.go:789-797, session_assistant.go:153-161).
THEOREM UploadsFilesAccounted == Spec => []FilesAccounted
<1>1. Inv => FilesAccounted
  BY DEF Inv
<1> QED
  BY <1>1, UploadsInvariant, PTL

-----------------------------------------------------------------------------
(* The quota.  What is recorded and what is at work never weigh more than   *)
(* the quota and the uploads a check does not see.                          *)

\* The most the records and the uploads at work may weigh.
Ceiling == Limit + (MaxActive - 1) * MaxBytes

QuotaInv ==
  /\ IsFiniteSet(rows \cup AtWork)
  /\ Cardinality(Bytes(rows \cup AtWork)) <= Ceiling

\* A finite set of files has finitely many bytes, at most MaxBytes each.
LEMMA BytesBound ==
  ASSUME NEW F \in SUBSET Files, IsFiniteSet(F)
  PROVE  /\ IsFiniteSet(Bytes(F)) /\ Cardinality(Bytes(F)) \in Nat
         /\ Cardinality(F) \in Nat
         /\ Cardinality(Bytes(F)) <= Cardinality(F) * MaxBytes
<1>1. MaxBytes \in Nat
  BY UploadsAssumption
<1>2. IsFiniteSet(1..MaxBytes) /\ Cardinality(1..MaxBytes) = MaxBytes
  BY <1>1, FS_Interval
<1>3. /\ IsFiniteSet(F \X (1..MaxBytes))
      /\ Cardinality(F \X (1..MaxBytes)) = Cardinality(F) * MaxBytes
  BY <1>2, FS_Product
<1>4. Bytes(F) \in SUBSET (F \X (1..MaxBytes))
  BY DEF Bytes
<1>5. IsFiniteSet(Bytes(F)) /\ Cardinality(Bytes(F)) <= Cardinality(F) * MaxBytes
  BY <1>3, <1>4, FS_Subset
<1> QED
  BY <1>5, FS_CardinalityType

\* The bytes of one file number its size.
LEMMA BytesOfOne ==
  ASSUME NEW f \in Files
  PROVE  Cardinality(Bytes({f})) = Size[f]
<1>1. Size[f] \in 0..MaxBytes /\ MaxBytes \in Nat
  BY UploadsAssumption
<1>2. Bytes({f}) = {f} \X (1..Size[f])
  BY <1>1 DEF Bytes
<1>3. IsFiniteSet(1..Size[f]) /\ Cardinality(1..Size[f]) = Size[f]
  <2>1. \A n \in Nat : IsFiniteSet(1..n) /\ Cardinality(1..n) = n
    BY FS_Interval
  <2> QED
    BY <1>1, <2>1
<1>4. IsFiniteSet({f}) /\ Cardinality({f}) = 1
  BY FS_Singleton
<1>5. Cardinality({f} \X (1..Size[f])) = 1 * Size[f]
  BY <1>3, <1>4, FS_Product
<1> QED
  BY <1>1, <1>2, <1>5

\* Two sets of files weigh no more together than apart.
LEMMA BytesOfUnion ==
  ASSUME NEW F \in SUBSET Files, IsFiniteSet(F), NEW G \in SUBSET Files, IsFiniteSet(G)
  PROVE  Cardinality(Bytes(F \cup G)) <= Cardinality(Bytes(F)) + Cardinality(Bytes(G))
<1>1. Bytes(F \cup G) = Bytes(F) \cup Bytes(G)
  BY DEF Bytes
<1>2. IsFiniteSet(Bytes(F)) /\ IsFiniteSet(Bytes(G))
  BY BytesBound
<1>3. Bytes(F) \cap Bytes(G) \in SUBSET Bytes(F)
  OBVIOUS
<1>4. Cardinality(Bytes(F) \cap Bytes(G)) \in Nat
  BY <1>2, <1>3, FS_Subset, FS_CardinalityType
<1>5. Cardinality(Bytes(F)) \in Nat /\ Cardinality(Bytes(G)) \in Nat
  BY <1>2, FS_CardinalityType
<1>6. Cardinality(Bytes(F) \cup Bytes(G))
        = Cardinality(Bytes(F)) + Cardinality(Bytes(G)) - Cardinality(Bytes(F) \cap Bytes(G))
  BY <1>2, FS_Union
<1>7. \A a, b, c \in Nat : a + b - c <= a + b
  OBVIOUS
<1> QED
  BY <1>1, <1>4, <1>5, <1>6, <1>7

\* A part of a set of files weighs no more than the whole.
LEMMA BytesOfPart ==
  ASSUME NEW G \in SUBSET Files, IsFiniteSet(G), NEW F \in SUBSET G
  PROVE  IsFiniteSet(F) /\ Cardinality(Bytes(F)) <= Cardinality(Bytes(G))
<1>1. Bytes(F) \in SUBSET Bytes(G)
  BY DEF Bytes
<1>2. IsFiniteSet(Bytes(G))
  BY BytesBound
<1> QED
  BY <1>1, <1>2, FS_Subset

\* An upload that passes its check leaves room for the others at work.
LEMMA QuotaCheck ==
  ASSUME TypeOK, QuotaInv, NEW f \in Files, CheckQuota(f)
  PROVE  QuotaInv'
<1> DEFINE Others == AtWork
<1>1. rows \in SUBSET Files /\ Others \in SUBSET Files /\ rows' = rows
  BY DEF TypeOK, AtWork, CheckQuota
<1>2. /\ MaxActive \in Nat \ {0} /\ MaxBytes \in Nat /\ Limit \in Nat
      /\ Size[f] \in 0..MaxBytes
  BY UploadsAssumption
<1>3. IsFiniteSet(rows) /\ IsFiniteSet(Others)
  BY <1>1, FS_Subset DEF QuotaInv
<1>4. CASE Usage + Size[f] <= Limit
  <2>1. AtWork' = Others \cup {f}
    BY <1>4 DEF CheckQuota, AtWork, At, Goto, TypeOK
  <2>2. Cardinality(Others) \in Nat /\ Cardinality(Others) <= MaxActive - 1
    BY <1>2, <1>3, FS_CardinalityType DEF CheckQuota
  <2>3. Cardinality(Bytes(Others)) \in Nat
        /\ Cardinality(Bytes(Others)) <= Cardinality(Others) * MaxBytes
    BY <1>1, <1>3, BytesBound
  <2>4. Cardinality(Others) * MaxBytes <= (MaxActive - 1) * MaxBytes
    <3> HIDE DEF Others
    <3>1. \A a, b, c \in Nat : a <= b => a * c <= b * c
      OBVIOUS
    <3> QED
      BY <1>2, <2>2, <3>1
  <2>5. IsFiniteSet(rows \cup {f})
        /\ Cardinality(Bytes(rows \cup {f})) <= Usage + Size[f]
    <3>1. IsFiniteSet({f}) /\ {f} \in SUBSET Files
      BY FS_Singleton
    <3> QED
      BY <1>1, <1>3, <3>1, BytesOfOne, BytesOfUnion, FS_Union DEF Usage
  <2>6. rows \cup {f} \in SUBSET Files
    BY <1>1
  <2>7. rows' \cup AtWork' = (rows \cup {f}) \cup Others
    BY <1>1, <2>1
  <2>8. /\ IsFiniteSet((rows \cup {f}) \cup Others)
        /\ Cardinality(Bytes((rows \cup {f}) \cup Others))
             <= Cardinality(Bytes(rows \cup {f})) + Cardinality(Bytes(Others))
    BY <1>1, <1>3, <2>5, <2>6, BytesOfUnion, FS_Union
  <2>9. /\ Cardinality(Bytes(rows \cup {f})) \in Nat
        /\ Cardinality(Bytes((rows \cup {f}) \cup Others)) \in Nat
        /\ Usage \in Nat
    BY <1>1, <1>3, <2>5, <2>6, <2>8, BytesBound DEF Usage
  <2>10. Cardinality(Bytes((rows \cup {f}) \cup Others)) <= Ceiling
    <3> HIDE DEF Others
    <3>1. Cardinality(Others) * MaxBytes \in Nat /\ (MaxActive - 1) * MaxBytes \in Nat
      BY <1>2, <2>2
    <3> QED
      BY <1>2, <1>4, <2>3, <2>4, <2>5, <2>8, <2>9, <3>1 DEF Ceiling
  <2> QED
    BY <2>7, <2>8, <2>10 DEF QuotaInv, Ceiling, Bytes
<1>5. CASE ~(Usage + Size[f] <= Limit)
  <2>1. AtWork' = AtWork
    BY <1>5 DEF CheckQuota, AtWork, At, Goto, TypeOK
  <2> QED
    BY <1>1, <2>1 DEF QuotaInv, Ceiling, Bytes
<1> QED
  BY <1>4, <1>5

\* No other step adds to what is recorded or at work.
LEMMA OnlyCheckAdds ==
  ASSUME TypeOK, [Next]_vars, \A f \in Files : ~CheckQuota(f)
  PROVE  (rows \cup AtWork)' \subseteq rows \cup AtWork
<1> DEFINE Grows == ~((rows \cup AtWork)' \subseteq rows \cup AtWork)
<1>1. ASSUME NEW f \in Files, Refuse(f)
     PROVE  ~Grows
  BY <1>1 DEF Refuse, AtWork, At, Goto, TypeOK
<1>2. ASSUME NEW f \in Files, Stat(f)
     PROVE  ~Grows
  BY <1>2 DEF Stat, AtWork, At, Goto, TypeOK
<1>3. ASSUME NEW f \in Files, Save(f)
     PROVE  ~Grows
  BY <1>3 DEF Save, AtWork, At, Goto, TypeOK
<1>4. ASSUME NEW f \in Files, Record(f)
     PROVE  ~Grows
  BY <1>4 DEF Record, AtWork, At, Goto, TypeOK
<1>5. ASSUME NEW f \in Files, RecordFails(f)
     PROVE  ~Grows
  BY <1>5 DEF RecordFails, AtWork, At, Goto, TypeOK
<1>6. ASSUME NEW f \in Files, Expire(f)
     PROVE  ~Grows
  BY <1>6 DEF Expire, AtWork, At, Goto, TypeOK
<1>7. ASSUME CleanList
     PROVE  ~Grows
  BY <1>7 DEF CleanList, AtWork, At, Goto, TypeOK
<1>8. ASSUME NEW f \in Files, CleanRemove(f)
     PROVE  ~Grows
  BY <1>8 DEF CleanRemove, AtWork, At, Goto, TypeOK
<1>9. ASSUME NEW f \in Files, CleanSkip(f)
     PROVE  ~Grows
  BY <1>9 DEF CleanSkip, AtWork, At, Goto, TypeOK
<1>10. ASSUME DeleteRecord
     PROVE  ~Grows
  BY <1>10 DEF DeleteRecord, AtWork, At, Goto, TypeOK
<1>11. ASSUME DeleteRecordFails
     PROVE  ~Grows
  BY <1>11 DEF DeleteRecordFails, AtWork, At, Goto, TypeOK
<1>12. ASSUME CleanEnd
     PROVE  ~Grows
  BY <1>12 DEF CleanEnd, AtWork, At, Goto, TypeOK
<1>13. ASSUME NEW s \in Sessions, DeleteSession(s)
     PROVE  ~Grows
  BY <1>13 DEF DeleteSession, AtWork, At, Goto, TypeOK
<1>14. ASSUME NEW s \in Sessions, NEW n \in Names, RemovePath(s, n)
     PROVE  ~Grows
  BY <1>14 DEF RemovePath, AtWork, At, Goto, TypeOK
<1>15. ASSUME DeleteUser
     PROVE  ~Grows
  BY <1>15 DEF DeleteUser, AtWork, At, Goto, TypeOK
<1>16. ASSUME Restart
     PROVE  ~Grows
  BY <1>16 DEF Restart, AtWork, At, Goto, TypeOK
<1>17. CASE UNCHANGED vars
  BY <1>17 DEF vars, AtWork, At
<1> QED
  BY <1>1, <1>2, <1>3, <1>4, <1>5, <1>6, <1>7, <1>8, <1>9, <1>10, <1>11, <1>12, <1>13, <1>14,
     <1>15, <1>16, <1>17
     DEF Next, UploadStep, CleanerStep, DeleteStep

\* Every step keeps QuotaInv.
LEMMA QuotaStep ==
  ASSUME TypeOK, QuotaInv, [Next]_vars
  PROVE  QuotaInv'
<1>1. CASE \E f \in Files : CheckQuota(f)
  BY <1>1, QuotaCheck
<1>2. CASE \A f \in Files : ~CheckQuota(f)
  <2>1. (rows \cup AtWork)' \in SUBSET (rows \cup AtWork)
    BY <1>2, OnlyCheckAdds
  <2>2. rows \cup AtWork \in SUBSET Files
    BY DEF TypeOK, AtWork
  <2>3. /\ IsFiniteSet((rows \cup AtWork)')
        /\ Cardinality(Bytes((rows \cup AtWork)')) <= Cardinality(Bytes(rows \cup AtWork))
    BY <2>1, <2>2, BytesOfPart DEF QuotaInv
  <2>4. /\ Cardinality(Bytes(rows \cup AtWork)) \in Nat
        /\ Cardinality(Bytes((rows \cup AtWork)')) \in Nat
    BY <2>1, <2>2, <2>3, BytesBound DEF QuotaInv
  <2>5. Ceiling \in Int
    BY UploadsAssumption DEF Ceiling
  <2> QED
    BY <2>3, <2>4, <2>5 DEF QuotaInv, Ceiling, Bytes
<1> QED
  BY <1>1, <1>2

\* The records pass the quota by no more than the other uploads in flight may
\* bring (handlers.go:761-793).
THEOREM UploadsQuotaBound == Spec => []QuotaBound
<1>1. Init => QuotaInv
  <2> SUFFICES ASSUME Init PROVE QuotaInv
    OBVIOUS
  <2>1. rows \cup AtWork = {} /\ Bytes({}) = {}
    BY DEF Init, AtWork, At, Bytes
  <2>2. Ceiling \in Nat
    BY UploadsAssumption DEF Ceiling
  <2> QED
    BY <2>1, <2>2, FS_EmptySet DEF QuotaInv
<1>2. TypeOK /\ QuotaInv /\ [Next]_vars => QuotaInv'
  BY QuotaStep
<1>3. TypeOK /\ QuotaInv => QuotaBound
  <2> SUFFICES ASSUME TypeOK, QuotaInv PROVE QuotaBound
    OBVIOUS
  <2>1. rows \cup AtWork \in SUBSET Files /\ rows \in SUBSET (rows \cup AtWork)
    BY DEF TypeOK, AtWork
  <2>2. Usage <= Cardinality(Bytes(rows \cup AtWork)) /\ IsFiniteSet(rows)
    BY <2>1, BytesOfPart DEF QuotaInv, Usage
  <2>3. Usage \in Nat /\ Cardinality(Bytes(rows \cup AtWork)) \in Nat
    BY <2>1, <2>2, BytesBound DEF QuotaInv, Usage, TypeOK
  <2>4. Ceiling \in Int
    BY UploadsAssumption DEF Ceiling
  <2> QED
    BY <2>2, <2>3, <2>4 DEF QuotaInv, QuotaBound, Ceiling
<1> QED
  BY <1>1, <1>2, <1>3, UploadsTyped, PTL DEF Spec
=============================================================================
