-------------------------- MODULE AuthTokensProofs --------------------------
(***************************************************************************)
(* Proofs about AuthTokens, for every number of users, tokens and requests *)
(* at work.  Inv strengthens the properties with what the requests know    *)
(* while they are between two statements; each of its parts is preserved   *)
(* by a lemma of its own, with one step per action.                        *)
(***************************************************************************)
EXTENDS AuthTokens, TLAPS

\* A request that works for a token or a user has one that was issued to it.
Known ==
  /\ \A t \in Tokens : t \in rows \/ keys[t] # 0 \/ t \in held => owner[t] # NoUser
  /\ \A r \in Slots :
       /\ req[r].pc \in {"issue", "cacheIssued", "cacheRead", "ok", "purgeRows", "purgeKeys", "dropUser"}
            => req[r].user \in Users
       /\ req[r].pc \in {"cacheIssued", "lookup", "select", "dropRow", "dropKey", "cacheRead", "ok"}
            => req[r].token \in Tokens /\ owner[req[r].token] # NoUser

\* A key about to be written has its row, or the race was noted.
CachersNoted ==
  \A r \in Slots, t \in Tokens : Caches(r, t) => t \in rows \/ t \in exposed

\* How long ago a request took the time it uses.
InTime ==
  \A r \in Slots :
    LET s == req[r].since IN
    /\ At(r, "issue") => now <= s + MaxWait
    /\ At(r, "cacheIssued") => now <= s + MaxWait /\ expires[req[r].token] = s + TokenTTL
    /\ At(r, "cacheRead") => now <= s + MaxWait /\ s <= expires[req[r].token]

\* The rows of a user being deleted are listed, or were issued since.
RowsListed ==
  \A r \in Slots, t \in Tokens :
    /\ Removes(r, owner[t]) /\ t \in rows => t \in exposed \/ (At(r, "purgeRows") /\ t \in req[r].todo)

\* The rows of a deleted user were issued too late.
NoRowsLeft ==
  \A t \in Tokens : owner[t] # NoUser /\ t \in rows
    => status[owner[t]] # "gone" \/ t \in exposed

Inv == Known /\ CachersNoted /\ InTime /\ RowsListed /\ NoRowsLeft /\ KeysFollowRows /\ KeysLapse

\* Every step keeps the types.
LEMMA TypeStep ==
  ASSUME TypeOK, Known, [Next]_vars
  PROVE  TypeOK'
<1> USE AuthTokensAssumption
<1>1. ASSUME NEW r \in Slots, NEW u \in Users, Login(r, u)
     PROVE  TypeOK'
  BY <1>1 DEF Login, At, dbVars, TypeOK, Known, Request, Pcs, Ops, Idle
<1>2. ASSUME NEW r \in Slots, NEW t \in Tokens, IssueInsert(r, t)
     PROVE  TypeOK'
  <2>1. req[r].user \in Users /\ req[r].since + TokenTTL \in Nat
    BY <1>2 DEF IssueInsert, At, TypeOK, Known, Request
  <2>2. [req[r] EXCEPT !.pc = "cacheIssued", !.token = t] \in Request
    BY <2>1 DEF TypeOK, Request, Pcs
  <2>3. req' \in [Slots -> Request]
    BY <1>2, <2>2 DEF IssueInsert, TypeOK
  <2>4. exposed' \subseteq Tokens
    BY <1>2 DEF IssueInsert, TypeOK
  <2>5. TypeOK'
    BY <1>2, <2>1, <2>3, <2>4 DEF IssueInsert, dbVars, TypeOK
  <2> QED BY <2>5
<1>3. ASSUME NEW r \in Slots, IssueFails(r)
     PROVE  TypeOK'
  BY <1>3 DEF IssueFails, At, End, dbVars, TypeOK, Known, Request, Pcs, Ops, Idle
<1>4. ASSUME NEW r \in Slots, CacheIssued(r)
     PROVE  TypeOK'
  BY <1>4 DEF CacheIssued, At, End, SetKey, dbVars, TypeOK, Known, Request, Pcs, Ops, Idle
<1>5. ASSUME NEW r \in Slots, NEW t \in Tokens, NEW op \in Ops \ {"login"}, Present(r, t, op)
     PROVE  TypeOK'
  BY <1>5 DEF Present, At, dbVars, TypeOK, Known, Request, Pcs, Ops, Idle
<1>6. ASSUME NEW r \in Slots, LookupHit(r)
     PROVE  TypeOK'
  <2>1. req[r].token \in Tokens /\ owner[req[r].token] \in Users \cup {NoUser}
    BY <1>6 DEF LookupHit, At, TypeOK, Known, Request
  <2>2. [req[r] EXCEPT !.pc = "ok", !.user = owner[req[r].token]] \in Request
    BY <2>1 DEF TypeOK, Request, Pcs
  <2>3. req' \in [Slots -> Request]
    BY <1>6, <2>2 DEF LookupHit, TypeOK
  <2>4. exposed' \subseteq Tokens
    BY <1>6 DEF LookupHit, TypeOK
  <2>5. TypeOK'
    BY <1>6, <2>1, <2>3, <2>4 DEF LookupHit, dbVars, TypeOK
  <2> QED BY <2>5
<1>7. ASSUME NEW r \in Slots, LookupMiss(r)
     PROVE  TypeOK'
  BY <1>7 DEF LookupMiss, At, Goto, dbVars, TypeOK, Known, Request, Pcs, Ops, Idle
<1>8. ASSUME NEW r \in Slots, SelectFails(r)
     PROVE  TypeOK'
  BY <1>8 DEF SelectFails, At, End, dbVars, TypeOK, Known, Request, Pcs, Ops, Idle
<1>9. ASSUME NEW r \in Slots, SelectExpired(r)
     PROVE  TypeOK'
  BY <1>9 DEF SelectExpired, At, Goto, dbVars, TypeOK, Known, Request, Pcs, Ops, Idle
<1>10. ASSUME NEW r \in Slots, SelectLive(r)
     PROVE  TypeOK'
  <2>1. req[r].token \in Tokens /\ owner[req[r].token] \in Users \cup {NoUser}
    BY <1>10 DEF SelectLive, At, TypeOK, Known, Request
  <2>2. [req[r] EXCEPT !.pc = "cacheRead", !.user = owner[req[r].token], !.since = now] \in Request
    BY <2>1 DEF TypeOK, Request, Pcs
  <2>3. req' \in [Slots -> Request]
    BY <1>10, <2>2 DEF SelectLive, TypeOK
  <2>4. exposed' \subseteq Tokens
    BY <1>10 DEF SelectLive, TypeOK
  <2>5. TypeOK'
    BY <1>10, <2>1, <2>3, <2>4 DEF SelectLive, dbVars, TypeOK
  <2> QED BY <2>5
<1>11. ASSUME NEW r \in Slots, CacheRead(r)
     PROVE  TypeOK'
  BY <1>11 DEF CacheRead, At, Goto, SetKey, dbVars, TypeOK, Known, Request, Pcs, Ops, Idle
<1>12. ASSUME NEW r \in Slots, DropRow(r)
     PROVE  TypeOK'
  BY <1>12 DEF DropRow, At, Goto, DeleteRows, dbVars, TypeOK, Known, Request, Pcs, Ops, Idle
<1>13. ASSUME NEW r \in Slots, DropKey(r)
     PROVE  TypeOK'
  BY <1>13 DEF DropKey, At, End, DelKey, dbVars, TypeOK, Known, Request, Pcs, Ops, Idle
<1>14. ASSUME NEW r \in Slots, Serve(r)
     PROVE  TypeOK'
  BY <1>14 DEF Serve, At, End, dbVars, TypeOK, Known, Request, Pcs, Ops, Idle
<1>15. ASSUME NEW r \in Slots, RevokeToken(r)
     PROVE  TypeOK'
  BY <1>15 DEF RevokeToken, At, Goto, DeleteRows, dbVars, TypeOK, Known, Request, Pcs, Ops, Idle
<1>16. ASSUME NEW r \in Slots, RevokeFails(r)
     PROVE  TypeOK'
  BY <1>16 DEF RevokeFails, At, End, dbVars, TypeOK, Known, Request, Pcs, Ops, Idle
<1>17. ASSUME NEW r \in Slots, Collect(r)
     PROVE  TypeOK'
  <2>1. \A S \in SUBSET (rows \cap OwnedBy(req[r].user)) : S \in SUBSET Tokens
    BY DEF TypeOK
  <2>2. PICK listed \in SUBSET (rows \cap OwnedBy(req[r].user)) :
           req' = [req EXCEPT ![r] = [req[r] EXCEPT !.pc = "purgeRows", !.todo = listed]]
    BY <1>17 DEF Collect
  <2>3. req' \in [Slots -> Request]
    <3>1. [req[r] EXCEPT !.pc = "purgeRows", !.todo = listed] \in Request
      <4>1. listed \in SUBSET Tokens /\ req[r] \in Request
        BY <2>1 DEF TypeOK
      <4> QED BY <4>1 DEF Request, Pcs
    <3> QED BY <3>1, <2>2 DEF TypeOK
  <2>4. exposed' \subseteq Tokens
    BY <1>17 DEF Collect, TypeOK
  <2>5. TypeOK'
    BY <1>17, <2>1, <2>3, <2>4 DEF Collect, dbVars, TypeOK
  <2> QED BY <2>5
<1>18. ASSUME NEW r \in Slots, PurgeRows(r)
     PROVE  TypeOK'
  BY <1>18 DEF PurgeRows, At, Goto, DeleteRows, dbVars, TypeOK, Known, Request, Pcs, Ops, Idle
<1>19. ASSUME NEW r \in Slots, PurgeEnd(r)
     PROVE  TypeOK'
  BY <1>19 DEF PurgeEnd, At, Goto, dbVars, TypeOK, Known, Request, Pcs, Ops, Idle
<1>20. ASSUME NEW r \in Slots, DropUser(r)
     PROVE  TypeOK'
  BY <1>20 DEF DropUser, At, End, DeleteRows, dbVars, TypeOK, Known, Request, Pcs, Ops, Idle
<1>21. ASSUME NEW r \in Slots, NEW t \in Tokens, PurgeKey(r, t)
     PROVE  TypeOK'
  BY <1>21 DEF PurgeKey, At, DelKey, dbVars, TypeOK, Known, Request, Pcs, Ops, Idle
<1>22. ASSUME NEW u \in Users, Register(u)
     PROVE  TypeOK'
  BY <1>22 DEF Register, dbVars, TypeOK, Known, Request, Pcs, Ops, Idle
<1>23. ASSUME NEW t \in Tokens, LoseKey(t)
     PROVE  TypeOK'
  BY <1>23 DEF LoseKey, dbVars, TypeOK, Known, Request, Pcs, Ops, Idle
<1>24. ASSUME Tick
     PROVE  TypeOK'
  BY <1>24 DEF Tick, dbVars, TypeOK, Known, Request, Pcs, Ops, Idle
<1>25. ASSUME Restart
     PROVE  TypeOK'
  BY <1>25 DEF Restart, dbVars, Idle, Deletes, TypeOK, Known, Request, Pcs, Ops, Idle
<1>26. CASE UNCHANGED vars
  BY <1>26 DEF vars, dbVars, TypeOK, Known, Request, Pcs, Ops, Idle
<1> QED
  BY <1>1, <1>2, <1>3, <1>4, <1>5, <1>6, <1>7, <1>8, <1>9, <1>10, <1>11, <1>12, <1>13, <1>14,
     <1>15, <1>16, <1>17, <1>18, <1>19, <1>20, <1>21, <1>22, <1>23, <1>24, <1>25, <1>26
     DEF Next, LoginStep, ValidateStep, HandlerStep

\* Every step keeps Known.
LEMMA KnownStep ==
  ASSUME TypeOK, Known, [Next]_vars
  PROVE  Known'
<1> USE AuthTokensAssumption
<1>1. ASSUME NEW r \in Slots, NEW u \in Users, Login(r, u)
     PROVE  Known'
  BY <1>1 DEF Login, At, dbVars, TypeOK, Known, Request, Pcs, Ops, Idle
<1>2. ASSUME NEW r \in Slots, NEW t \in Tokens, IssueInsert(r, t)
     PROVE  Known'
  BY <1>2 DEF IssueInsert, At, dbVars, TypeOK, Known, Request, Pcs, Ops, Idle
<1>3. ASSUME NEW r \in Slots, IssueFails(r)
     PROVE  Known'
  BY <1>3 DEF IssueFails, At, End, dbVars, TypeOK, Known, Request, Pcs, Ops, Idle
<1>4. ASSUME NEW r \in Slots, CacheIssued(r)
     PROVE  Known'
  BY <1>4 DEF CacheIssued, At, End, SetKey, dbVars, TypeOK, Known, Request, Pcs, Ops, Idle
<1>5. ASSUME NEW r \in Slots, NEW t \in Tokens, NEW op \in Ops \ {"login"}, Present(r, t, op)
     PROVE  Known'
  BY <1>5 DEF Present, At, dbVars, TypeOK, Known, Request, Pcs, Ops, Idle
<1>6. ASSUME NEW r \in Slots, LookupHit(r)
     PROVE  Known'
  BY <1>6 DEF LookupHit, At, dbVars, TypeOK, Known, Request, Pcs, Ops, Idle
<1>7. ASSUME NEW r \in Slots, LookupMiss(r)
     PROVE  Known'
  BY <1>7 DEF LookupMiss, At, Goto, dbVars, TypeOK, Known, Request, Pcs, Ops, Idle
<1>8. ASSUME NEW r \in Slots, SelectFails(r)
     PROVE  Known'
  BY <1>8 DEF SelectFails, At, End, dbVars, TypeOK, Known, Request, Pcs, Ops, Idle
<1>9. ASSUME NEW r \in Slots, SelectExpired(r)
     PROVE  Known'
  BY <1>9 DEF SelectExpired, At, Goto, dbVars, TypeOK, Known, Request, Pcs, Ops, Idle
<1>10. ASSUME NEW r \in Slots, SelectLive(r)
     PROVE  Known'
  BY <1>10 DEF SelectLive, At, dbVars, TypeOK, Known, Request, Pcs, Ops, Idle
<1>11. ASSUME NEW r \in Slots, CacheRead(r)
     PROVE  Known'
  BY <1>11 DEF CacheRead, At, Goto, SetKey, dbVars, TypeOK, Known, Request, Pcs, Ops, Idle
<1>12. ASSUME NEW r \in Slots, DropRow(r)
     PROVE  Known'
  BY <1>12 DEF DropRow, At, Goto, DeleteRows, dbVars, TypeOK, Known, Request, Pcs, Ops, Idle
<1>13. ASSUME NEW r \in Slots, DropKey(r)
     PROVE  Known'
  BY <1>13 DEF DropKey, At, End, DelKey, dbVars, TypeOK, Known, Request, Pcs, Ops, Idle
<1>14. ASSUME NEW r \in Slots, Serve(r)
     PROVE  Known'
  BY <1>14 DEF Serve, At, End, dbVars, TypeOK, Known, Request, Pcs, Ops, Idle
<1>15. ASSUME NEW r \in Slots, RevokeToken(r)
     PROVE  Known'
  BY <1>15 DEF RevokeToken, At, Goto, DeleteRows, dbVars, TypeOK, Known, Request, Pcs, Ops, Idle
<1>16. ASSUME NEW r \in Slots, RevokeFails(r)
     PROVE  Known'
  BY <1>16 DEF RevokeFails, At, End, dbVars, TypeOK, Known, Request, Pcs, Ops, Idle
<1>17. ASSUME NEW r \in Slots, Collect(r)
     PROVE  Known'
  BY <1>17 DEF Collect, At, dbVars, TypeOK, Known, Request, Pcs, Ops, Idle
<1>18. ASSUME NEW r \in Slots, PurgeRows(r)
     PROVE  Known'
  BY <1>18 DEF PurgeRows, At, Goto, DeleteRows, dbVars, TypeOK, Known, Request, Pcs, Ops, Idle
<1>19. ASSUME NEW r \in Slots, PurgeEnd(r)
     PROVE  Known'
  BY <1>19 DEF PurgeEnd, At, Goto, dbVars, TypeOK, Known, Request, Pcs, Ops, Idle
<1>20. ASSUME NEW r \in Slots, DropUser(r)
     PROVE  Known'
  BY <1>20 DEF DropUser, At, End, DeleteRows, dbVars, TypeOK, Known, Request, Pcs, Ops, Idle
<1>21. ASSUME NEW r \in Slots, NEW t \in Tokens, PurgeKey(r, t)
     PROVE  Known'
  BY <1>21 DEF PurgeKey, At, DelKey, dbVars, TypeOK, Known, Request, Pcs, Ops, Idle
<1>22. ASSUME NEW u \in Users, Register(u)
     PROVE  Known'
  BY <1>22 DEF Register, dbVars, TypeOK, Known, Request, Pcs, Ops, Idle
<1>23. ASSUME NEW t \in Tokens, LoseKey(t)
     PROVE  Known'
  BY <1>23 DEF LoseKey, dbVars, TypeOK, Known, Request, Pcs, Ops, Idle
<1>24. ASSUME Tick
     PROVE  Known'
  BY <1>24 DEF Tick, dbVars, TypeOK, Known, Request, Pcs, Ops, Idle
<1>25. ASSUME Restart
     PROVE  Known'
  BY <1>25 DEF Restart, dbVars, Idle, Deletes, TypeOK, Known, Request, Pcs, Ops, Idle
<1>26. CASE UNCHANGED vars
  BY <1>26 DEF vars, dbVars, TypeOK, Known, Request, Pcs, Ops, Idle
<1> QED
  BY <1>1, <1>2, <1>3, <1>4, <1>5, <1>6, <1>7, <1>8, <1>9, <1>10, <1>11, <1>12, <1>13, <1>14,
     <1>15, <1>16, <1>17, <1>18, <1>19, <1>20, <1>21, <1>22, <1>23, <1>24, <1>25, <1>26
     DEF Next, LoginStep, ValidateStep, HandlerStep

\* Every step keeps CachersNoted.
LEMMA CachersStep ==
  ASSUME TypeOK, Known, CachersNoted, [Next]_vars
  PROVE  CachersNoted'
<1> USE AuthTokensAssumption
<1>1. ASSUME NEW r \in Slots, NEW u \in Users, Login(r, u)
     PROVE  CachersNoted'
  BY <1>1 DEF Login, At, dbVars, TypeOK, Known, CachersNoted, Caches, Request, Idle
<1>2. ASSUME NEW r \in Slots, NEW t \in Tokens, IssueInsert(r, t)
     PROVE  CachersNoted'
  BY <1>2 DEF IssueInsert, At, dbVars, TypeOK, Known, CachersNoted, Caches, Request, Idle
<1>3. ASSUME NEW r \in Slots, IssueFails(r)
     PROVE  CachersNoted'
  BY <1>3 DEF IssueFails, At, End, dbVars, TypeOK, Known, CachersNoted, Caches, Request, Idle
<1>4. ASSUME NEW r \in Slots, CacheIssued(r)
     PROVE  CachersNoted'
  BY <1>4
     DEF CacheIssued, At, End, SetKey, dbVars, TypeOK, Known, CachersNoted, Caches, Request,
         Idle
<1>5. ASSUME NEW r \in Slots, NEW t \in Tokens, NEW op \in Ops \ {"login"}, Present(r, t, op)
     PROVE  CachersNoted'
  BY <1>5 DEF Present, At, dbVars, TypeOK, Known, CachersNoted, Caches, Request, Idle
<1>6. ASSUME NEW r \in Slots, LookupHit(r)
     PROVE  CachersNoted'
  BY <1>6 DEF LookupHit, At, dbVars, TypeOK, Known, CachersNoted, Caches, Request, Idle
<1>7. ASSUME NEW r \in Slots, LookupMiss(r)
     PROVE  CachersNoted'
  BY <1>7 DEF LookupMiss, At, Goto, dbVars, TypeOK, Known, CachersNoted, Caches, Request, Idle
<1>8. ASSUME NEW r \in Slots, SelectFails(r)
     PROVE  CachersNoted'
  BY <1>8 DEF SelectFails, At, End, dbVars, TypeOK, Known, CachersNoted, Caches, Request, Idle
<1>9. ASSUME NEW r \in Slots, SelectExpired(r)
     PROVE  CachersNoted'
  BY <1>9
     DEF SelectExpired, At, Goto, dbVars, TypeOK, Known, CachersNoted, Caches, Request, Idle
<1>10. ASSUME NEW r \in Slots, SelectLive(r)
     PROVE  CachersNoted'
  BY <1>10 DEF SelectLive, At, dbVars, TypeOK, Known, CachersNoted, Caches, Request, Idle
<1>11. ASSUME NEW r \in Slots, CacheRead(r)
     PROVE  CachersNoted'
  BY <1>11
     DEF CacheRead, At, Goto, SetKey, dbVars, TypeOK, Known, CachersNoted, Caches, Request,
         Idle
<1>12. ASSUME NEW r \in Slots, DropRow(r)
     PROVE  CachersNoted'
  BY <1>12
     DEF DropRow, At, Goto, DeleteRows, dbVars, TypeOK, Known, CachersNoted, Caches, Request,
         Idle
<1>13. ASSUME NEW r \in Slots, DropKey(r)
     PROVE  CachersNoted'
  BY <1>13
     DEF DropKey, At, End, DelKey, dbVars, TypeOK, Known, CachersNoted, Caches, Request, Idle
<1>14. ASSUME NEW r \in Slots, Serve(r)
     PROVE  CachersNoted'
  BY <1>14 DEF Serve, At, End, dbVars, TypeOK, Known, CachersNoted, Caches, Request, Idle
<1>15. ASSUME NEW r \in Slots, RevokeToken(r)
     PROVE  CachersNoted'
  BY <1>15
     DEF RevokeToken, At, Goto, DeleteRows, dbVars, TypeOK, Known, CachersNoted, Caches,
         Request, Idle
<1>16. ASSUME NEW r \in Slots, RevokeFails(r)
     PROVE  CachersNoted'
  BY <1>16 DEF RevokeFails, At, End, dbVars, TypeOK, Known, CachersNoted, Caches, Request, Idle
<1>17. ASSUME NEW r \in Slots, Collect(r)
     PROVE  CachersNoted'
  BY <1>17 DEF Collect, At, dbVars, TypeOK, Known, CachersNoted, Caches, Request, Idle
<1>18. ASSUME NEW r \in Slots, PurgeRows(r)
     PROVE  CachersNoted'
  BY <1>18
     DEF PurgeRows, At, Goto, DeleteRows, dbVars, TypeOK, Known, CachersNoted, Caches, Request,
         Idle
<1>19. ASSUME NEW r \in Slots, PurgeEnd(r)
     PROVE  CachersNoted'
  BY <1>19 DEF PurgeEnd, At, Goto, dbVars, TypeOK, Known, CachersNoted, Caches, Request, Idle
<1>20. ASSUME NEW r \in Slots, DropUser(r)
     PROVE  CachersNoted'
  BY <1>20
     DEF DropUser, At, End, DeleteRows, dbVars, TypeOK, Known, CachersNoted, Caches, Request,
         Idle
<1>21. ASSUME NEW r \in Slots, NEW t \in Tokens, PurgeKey(r, t)
     PROVE  CachersNoted'
  BY <1>21 DEF PurgeKey, At, DelKey, dbVars, TypeOK, Known, CachersNoted, Caches, Request, Idle
<1>22. ASSUME NEW u \in Users, Register(u)
     PROVE  CachersNoted'
  BY <1>22 DEF Register, dbVars, TypeOK, Known, CachersNoted, Caches, Request, Idle
<1>23. ASSUME NEW t \in Tokens, LoseKey(t)
     PROVE  CachersNoted'
  BY <1>23 DEF LoseKey, dbVars, TypeOK, Known, CachersNoted, Caches, Request, Idle
<1>24. ASSUME Tick
     PROVE  CachersNoted'
  BY <1>24 DEF Tick, dbVars, TypeOK, Known, CachersNoted, Caches, Request, Idle
<1>25. ASSUME Restart
     PROVE  CachersNoted'
  BY <1>25
     DEF Restart, dbVars, Idle, Deletes, TypeOK, Known, CachersNoted, Caches, Request, Idle
<1>26. CASE UNCHANGED vars
  BY <1>26 DEF vars, dbVars, TypeOK, Known, CachersNoted, Caches, Request, Idle
<1> QED
  BY <1>1, <1>2, <1>3, <1>4, <1>5, <1>6, <1>7, <1>8, <1>9, <1>10, <1>11, <1>12, <1>13, <1>14,
     <1>15, <1>16, <1>17, <1>18, <1>19, <1>20, <1>21, <1>22, <1>23, <1>24, <1>25, <1>26
     DEF Next, LoginStep, ValidateStep, HandlerStep

\* Every step keeps InTime.
LEMMA InTimeStep ==
  ASSUME TypeOK, Known, InTime, [Next]_vars
  PROVE  InTime'
<1> USE AuthTokensAssumption
<1>1. ASSUME NEW r \in Slots, NEW u \in Users, Login(r, u)
     PROVE  InTime'
  BY <1>1 DEF Login, At, dbVars, TypeOK, Known, InTime, Request, Idle, At
<1>2. ASSUME NEW r \in Slots, NEW t \in Tokens, IssueInsert(r, t)
     PROVE  InTime'
  BY <1>2 DEF IssueInsert, At, dbVars, TypeOK, Known, InTime, Request, Idle, At
<1>3. ASSUME NEW r \in Slots, IssueFails(r)
     PROVE  InTime'
  BY <1>3 DEF IssueFails, At, End, dbVars, TypeOK, Known, InTime, Request, Idle, At
<1>4. ASSUME NEW r \in Slots, CacheIssued(r)
     PROVE  InTime'
  BY <1>4 DEF CacheIssued, At, End, SetKey, dbVars, TypeOK, Known, InTime, Request, Idle, At
<1>5. ASSUME NEW r \in Slots, NEW t \in Tokens, NEW op \in Ops \ {"login"}, Present(r, t, op)
     PROVE  InTime'
  BY <1>5 DEF Present, At, dbVars, TypeOK, Known, InTime, Request, Idle, At
<1>6. ASSUME NEW r \in Slots, LookupHit(r)
     PROVE  InTime'
  BY <1>6 DEF LookupHit, At, dbVars, TypeOK, Known, InTime, Request, Idle, At
<1>7. ASSUME NEW r \in Slots, LookupMiss(r)
     PROVE  InTime'
  BY <1>7 DEF LookupMiss, At, Goto, dbVars, TypeOK, Known, InTime, Request, Idle, At
<1>8. ASSUME NEW r \in Slots, SelectFails(r)
     PROVE  InTime'
  BY <1>8 DEF SelectFails, At, End, dbVars, TypeOK, Known, InTime, Request, Idle, At
<1>9. ASSUME NEW r \in Slots, SelectExpired(r)
     PROVE  InTime'
  BY <1>9 DEF SelectExpired, At, Goto, dbVars, TypeOK, Known, InTime, Request, Idle, At
<1>10. ASSUME NEW r \in Slots, SelectLive(r)
     PROVE  InTime'
  BY <1>10 DEF SelectLive, At, dbVars, TypeOK, Known, InTime, Request, Idle, At
<1>11. ASSUME NEW r \in Slots, CacheRead(r)
     PROVE  InTime'
  BY <1>11 DEF CacheRead, At, Goto, SetKey, dbVars, TypeOK, Known, InTime, Request, Idle, At
<1>12. ASSUME NEW r \in Slots, DropRow(r)
     PROVE  InTime'
  BY <1>12 DEF DropRow, At, Goto, DeleteRows, dbVars, TypeOK, Known, InTime, Request, Idle, At
<1>13. ASSUME NEW r \in Slots, DropKey(r)
     PROVE  InTime'
  BY <1>13 DEF DropKey, At, End, DelKey, dbVars, TypeOK, Known, InTime, Request, Idle, At
<1>14. ASSUME NEW r \in Slots, Serve(r)
     PROVE  InTime'
  BY <1>14 DEF Serve, At, End, dbVars, TypeOK, Known, InTime, Request, Idle, At
<1>15. ASSUME NEW r \in Slots, RevokeToken(r)
     PROVE  InTime'
  BY <1>15
     DEF RevokeToken, At, Goto, DeleteRows, dbVars, TypeOK, Known, InTime, Request, Idle, At
<1>16. ASSUME NEW r \in Slots, RevokeFails(r)
     PROVE  InTime'
  BY <1>16 DEF RevokeFails, At, End, dbVars, TypeOK, Known, InTime, Request, Idle, At
<1>17. ASSUME NEW r \in Slots, Collect(r)
     PROVE  InTime'
  BY <1>17 DEF Collect, At, dbVars, TypeOK, Known, InTime, Request, Idle, At
<1>18. ASSUME NEW r \in Slots, PurgeRows(r)
     PROVE  InTime'
  BY <1>18 DEF PurgeRows, At, Goto, DeleteRows, dbVars, TypeOK, Known, InTime, Request, Idle, At
<1>19. ASSUME NEW r \in Slots, PurgeEnd(r)
     PROVE  InTime'
  BY <1>19 DEF PurgeEnd, At, Goto, dbVars, TypeOK, Known, InTime, Request, Idle, At
<1>20. ASSUME NEW r \in Slots, DropUser(r)
     PROVE  InTime'
  BY <1>20 DEF DropUser, At, End, DeleteRows, dbVars, TypeOK, Known, InTime, Request, Idle, At
<1>21. ASSUME NEW r \in Slots, NEW t \in Tokens, PurgeKey(r, t)
     PROVE  InTime'
  BY <1>21 DEF PurgeKey, At, DelKey, dbVars, TypeOK, Known, InTime, Request, Idle, At
<1>22. ASSUME NEW u \in Users, Register(u)
     PROVE  InTime'
  BY <1>22 DEF Register, dbVars, TypeOK, Known, InTime, Request, Idle, At
<1>23. ASSUME NEW t \in Tokens, LoseKey(t)
     PROVE  InTime'
  BY <1>23 DEF LoseKey, dbVars, TypeOK, Known, InTime, Request, Idle, At
<1>24. ASSUME Tick
     PROVE  InTime'
  BY <1>24 DEF Tick, dbVars, TypeOK, Known, InTime, Request, Idle, At
<1>25. ASSUME Restart
     PROVE  InTime'
  BY <1>25 DEF Restart, dbVars, Idle, Deletes, TypeOK, Known, InTime, Request, Idle, At
<1>26. CASE UNCHANGED vars
  BY <1>26 DEF vars, dbVars, TypeOK, Known, InTime, Request, Idle, At
<1> QED
  BY <1>1, <1>2, <1>3, <1>4, <1>5, <1>6, <1>7, <1>8, <1>9, <1>10, <1>11, <1>12, <1>13, <1>14,
     <1>15, <1>16, <1>17, <1>18, <1>19, <1>20, <1>21, <1>22, <1>23, <1>24, <1>25, <1>26
     DEF Next, LoginStep, ValidateStep, HandlerStep

\* Every step keeps RowsListed.
LEMMA ListedStep ==
  ASSUME TypeOK, Known, RowsListed, [Next]_vars
  PROVE  RowsListed'
<1> USE AuthTokensAssumption
<1>1. ASSUME NEW r \in Slots, NEW u \in Users, Login(r, u)
     PROVE  RowsListed'
  BY <1>1 DEF Login, At, dbVars, TypeOK, Known, RowsListed, Removes, OwnedBy, Request, Idle, At
<1>2. ASSUME NEW r \in Slots, NEW t \in Tokens, IssueInsert(r, t)
     PROVE  RowsListed'
  BY <1>2
     DEF IssueInsert, At, dbVars, TypeOK, Known, RowsListed, Removes, OwnedBy, Request, Idle,
         At
<1>3. ASSUME NEW r \in Slots, IssueFails(r)
     PROVE  RowsListed'
  BY <1>3
     DEF IssueFails, At, End, dbVars, TypeOK, Known, RowsListed, Removes, OwnedBy, Request,
         Idle, At
<1>4. ASSUME NEW r \in Slots, CacheIssued(r)
     PROVE  RowsListed'
  BY <1>4
     DEF CacheIssued, At, End, SetKey, dbVars, TypeOK, Known, RowsListed, Removes, OwnedBy,
         Request, Idle, At
<1>5. ASSUME NEW r \in Slots, NEW t \in Tokens, NEW op \in Ops \ {"login"}, Present(r, t, op)
     PROVE  RowsListed'
  BY <1>5
     DEF Present, At, dbVars, TypeOK, Known, RowsListed, Removes, OwnedBy, Request, Idle, At
<1>6. ASSUME NEW r \in Slots, LookupHit(r)
     PROVE  RowsListed'
  BY <1>6
     DEF LookupHit, At, dbVars, TypeOK, Known, RowsListed, Removes, OwnedBy, Request, Idle, At
<1>7. ASSUME NEW r \in Slots, LookupMiss(r)
     PROVE  RowsListed'
  BY <1>7
     DEF LookupMiss, At, Goto, dbVars, TypeOK, Known, RowsListed, Removes, OwnedBy, Request,
         Idle, At
<1>8. ASSUME NEW r \in Slots, SelectFails(r)
     PROVE  RowsListed'
  BY <1>8
     DEF SelectFails, At, End, dbVars, TypeOK, Known, RowsListed, Removes, OwnedBy, Request,
         Idle, At
<1>9. ASSUME NEW r \in Slots, SelectExpired(r)
     PROVE  RowsListed'
  BY <1>9
     DEF SelectExpired, At, Goto, dbVars, TypeOK, Known, RowsListed, Removes, OwnedBy, Request,
         Idle, At
<1>10. ASSUME NEW r \in Slots, SelectLive(r)
     PROVE  RowsListed'
  BY <1>10
     DEF SelectLive, At, dbVars, TypeOK, Known, RowsListed, Removes, OwnedBy, Request, Idle, At
<1>11. ASSUME NEW r \in Slots, CacheRead(r)
     PROVE  RowsListed'
  BY <1>11
     DEF CacheRead, At, Goto, SetKey, dbVars, TypeOK, Known, RowsListed, Removes, OwnedBy,
         Request, Idle, At
<1>12. ASSUME NEW r \in Slots, DropRow(r)
     PROVE  RowsListed'
  BY <1>12
     DEF DropRow, At, Goto, DeleteRows, dbVars, TypeOK, Known, RowsListed, Removes, OwnedBy,
         Request, Idle, At
<1>13. ASSUME NEW r \in Slots, DropKey(r)
     PROVE  RowsListed'
  BY <1>13
     DEF DropKey, At, End, DelKey, dbVars, TypeOK, Known, RowsListed, Removes, OwnedBy, Request,
         Idle, At
<1>14. ASSUME NEW r \in Slots, Serve(r)
     PROVE  RowsListed'
  BY <1>14
     DEF Serve, At, End, dbVars, TypeOK, Known, RowsListed, Removes, OwnedBy, Request, Idle, At
<1>15. ASSUME NEW r \in Slots, RevokeToken(r)
     PROVE  RowsListed'
  BY <1>15
     DEF RevokeToken, At, Goto, DeleteRows, dbVars, TypeOK, Known, RowsListed, Removes, OwnedBy,
         Request, Idle, At
<1>16. ASSUME NEW r \in Slots, RevokeFails(r)
     PROVE  RowsListed'
  BY <1>16
     DEF RevokeFails, At, End, dbVars, TypeOK, Known, RowsListed, Removes, OwnedBy, Request,
         Idle, At
<1>17. ASSUME NEW r \in Slots, Collect(r)
     PROVE  RowsListed'
  BY <1>17
     DEF Collect, At, dbVars, TypeOK, Known, RowsListed, Removes, OwnedBy, Request, Idle, At
<1>18. ASSUME NEW r \in Slots, PurgeRows(r)
     PROVE  RowsListed'
  BY <1>18
     DEF PurgeRows, At, Goto, DeleteRows, dbVars, TypeOK, Known, RowsListed, Removes, OwnedBy,
         Request, Idle, At
<1>19. ASSUME NEW r \in Slots, PurgeEnd(r)
     PROVE  RowsListed'
  BY <1>19
     DEF PurgeEnd, At, Goto, dbVars, TypeOK, Known, RowsListed, Removes, OwnedBy, Request, Idle,
         At
<1>20. ASSUME NEW r \in Slots, DropUser(r)
     PROVE  RowsListed'
  BY <1>20
     DEF DropUser, At, End, DeleteRows, dbVars, TypeOK, Known, RowsListed, Removes, OwnedBy,
         Request, Idle, At
<1>21. ASSUME NEW r \in Slots, NEW t \in Tokens, PurgeKey(r, t)
     PROVE  RowsListed'
  BY <1>21
     DEF PurgeKey, At, DelKey, dbVars, TypeOK, Known, RowsListed, Removes, OwnedBy, Request,
         Idle, At
<1>22. ASSUME NEW u \in Users, Register(u)
     PROVE  RowsListed'
  BY <1>22 DEF Register, dbVars, TypeOK, Known, RowsListed, Removes, OwnedBy, Request, Idle, At
<1>23. ASSUME NEW t \in Tokens, LoseKey(t)
     PROVE  RowsListed'
  BY <1>23 DEF LoseKey, dbVars, TypeOK, Known, RowsListed, Removes, OwnedBy, Request, Idle, At
<1>24. ASSUME Tick
     PROVE  RowsListed'
  BY <1>24 DEF Tick, dbVars, TypeOK, Known, RowsListed, Removes, OwnedBy, Request, Idle, At
<1>25. ASSUME Restart
     PROVE  RowsListed'
  BY <1>25
     DEF Restart, dbVars, Idle, Deletes, TypeOK, Known, RowsListed, Removes, OwnedBy, Request,
         Idle, At
<1>26. CASE UNCHANGED vars
  BY <1>26 DEF vars, dbVars, TypeOK, Known, RowsListed, Removes, OwnedBy, Request, Idle, At
<1> QED
  BY <1>1, <1>2, <1>3, <1>4, <1>5, <1>6, <1>7, <1>8, <1>9, <1>10, <1>11, <1>12, <1>13, <1>14,
     <1>15, <1>16, <1>17, <1>18, <1>19, <1>20, <1>21, <1>22, <1>23, <1>24, <1>25, <1>26
     DEF Next, LoginStep, ValidateStep, HandlerStep

\* Every step keeps NoRowsLeft.
LEMMA RowsLeftStep ==
  ASSUME TypeOK, Known, RowsListed, NoRowsLeft, [Next]_vars
  PROVE  NoRowsLeft'
<1> USE AuthTokensAssumption
<1>1. ASSUME NEW r \in Slots, NEW u \in Users, Login(r, u)
     PROVE  NoRowsLeft'
  BY <1>1
     DEF Login, At, dbVars, TypeOK, Known, RowsListed, NoRowsLeft, Removes, OwnedBy, Request,
         Idle, At
<1>2. ASSUME NEW r \in Slots, NEW t \in Tokens, IssueInsert(r, t)
     PROVE  NoRowsLeft'
  BY <1>2
     DEF IssueInsert, At, dbVars, TypeOK, Known, RowsListed, NoRowsLeft, Removes, OwnedBy,
         Request, Idle, At
<1>3. ASSUME NEW r \in Slots, IssueFails(r)
     PROVE  NoRowsLeft'
  BY <1>3
     DEF IssueFails, At, End, dbVars, TypeOK, Known, RowsListed, NoRowsLeft, Removes, OwnedBy,
         Request, Idle, At
<1>4. ASSUME NEW r \in Slots, CacheIssued(r)
     PROVE  NoRowsLeft'
  BY <1>4
     DEF CacheIssued, At, End, SetKey, dbVars, TypeOK, Known, RowsListed, NoRowsLeft, Removes,
         OwnedBy, Request, Idle, At
<1>5. ASSUME NEW r \in Slots, NEW t \in Tokens, NEW op \in Ops \ {"login"}, Present(r, t, op)
     PROVE  NoRowsLeft'
  BY <1>5
     DEF Present, At, dbVars, TypeOK, Known, RowsListed, NoRowsLeft, Removes, OwnedBy, Request,
         Idle, At
<1>6. ASSUME NEW r \in Slots, LookupHit(r)
     PROVE  NoRowsLeft'
  BY <1>6
     DEF LookupHit, At, dbVars, TypeOK, Known, RowsListed, NoRowsLeft, Removes, OwnedBy,
         Request, Idle, At
<1>7. ASSUME NEW r \in Slots, LookupMiss(r)
     PROVE  NoRowsLeft'
  BY <1>7
     DEF LookupMiss, At, Goto, dbVars, TypeOK, Known, RowsListed, NoRowsLeft, Removes, OwnedBy,
         Request, Idle, At
<1>8. ASSUME NEW r \in Slots, SelectFails(r)
     PROVE  NoRowsLeft'
  BY <1>8
     DEF SelectFails, At, End, dbVars, TypeOK, Known, RowsListed, NoRowsLeft, Removes, OwnedBy,
         Request, Idle, At
<1>9. ASSUME NEW r \in Slots, SelectExpired(r)
     PROVE  NoRowsLeft'
  BY <1>9
     DEF SelectExpired, At, Goto, dbVars, TypeOK, Known, RowsListed, NoRowsLeft, Removes,
         OwnedBy, Request, Idle, At
<1>10. ASSUME NEW r \in Slots, SelectLive(r)
     PROVE  NoRowsLeft'
  BY <1>10
     DEF SelectLive, At, dbVars, TypeOK, Known, RowsListed, NoRowsLeft, Removes, OwnedBy,
         Request, Idle, At
<1>11. ASSUME NEW r \in Slots, CacheRead(r)
     PROVE  NoRowsLeft'
  BY <1>11
     DEF CacheRead, At, Goto, SetKey, dbVars, TypeOK, Known, RowsListed, NoRowsLeft, Removes,
         OwnedBy, Request, Idle, At
<1>12. ASSUME NEW r \in Slots, DropRow(r)
     PROVE  NoRowsLeft'
  BY <1>12
     DEF DropRow, At, Goto, DeleteRows, dbVars, TypeOK, Known, RowsListed, NoRowsLeft, Removes,
         OwnedBy, Request, Idle, At
<1>13. ASSUME NEW r \in Slots, DropKey(r)
     PROVE  NoRowsLeft'
  BY <1>13
     DEF DropKey, At, End, DelKey, dbVars, TypeOK, Known, RowsListed, NoRowsLeft, Removes,
         OwnedBy, Request, Idle, At
<1>14. ASSUME NEW r \in Slots, Serve(r)
     PROVE  NoRowsLeft'
  BY <1>14
     DEF Serve, At, End, dbVars, TypeOK, Known, RowsListed, NoRowsLeft, Removes, OwnedBy,
         Request, Idle, At
<1>15. ASSUME NEW r \in Slots, RevokeToken(r)
     PROVE  NoRowsLeft'
  BY <1>15
     DEF RevokeToken, At, Goto, DeleteRows, dbVars, TypeOK, Known, RowsListed, NoRowsLeft,
         Removes, OwnedBy, Request, Idle, At
<1>16. ASSUME NEW r \in Slots, RevokeFails(r)
     PROVE  NoRowsLeft'
  BY <1>16
     DEF RevokeFails, At, End, dbVars, TypeOK, Known, RowsListed, NoRowsLeft, Removes, OwnedBy,
         Request, Idle, At
<1>17. ASSUME NEW r \in Slots, Collect(r)
     PROVE  NoRowsLeft'
  BY <1>17
     DEF Collect, At, dbVars, TypeOK, Known, RowsListed, NoRowsLeft, Removes, OwnedBy, Request,
         Idle, At
<1>18. ASSUME NEW r \in Slots, PurgeRows(r)
     PROVE  NoRowsLeft'
  BY <1>18
     DEF PurgeRows, At, Goto, DeleteRows, dbVars, TypeOK, Known, RowsListed, NoRowsLeft,
         Removes, OwnedBy, Request, Idle, At
<1>19. ASSUME NEW r \in Slots, PurgeEnd(r)
     PROVE  NoRowsLeft'
  BY <1>19
     DEF PurgeEnd, At, Goto, dbVars, TypeOK, Known, RowsListed, NoRowsLeft, Removes, OwnedBy,
         Request, Idle, At
<1>20. ASSUME NEW r \in Slots, DropUser(r)
     PROVE  NoRowsLeft'
  BY <1>20
     DEF DropUser, At, End, DeleteRows, dbVars, TypeOK, Known, RowsListed, NoRowsLeft, Removes,
         OwnedBy, Request, Idle, At
<1>21. ASSUME NEW r \in Slots, NEW t \in Tokens, PurgeKey(r, t)
     PROVE  NoRowsLeft'
  BY <1>21
     DEF PurgeKey, At, DelKey, dbVars, TypeOK, Known, RowsListed, NoRowsLeft, Removes, OwnedBy,
         Request, Idle, At
<1>22. ASSUME NEW u \in Users, Register(u)
     PROVE  NoRowsLeft'
  BY <1>22
     DEF Register, dbVars, TypeOK, Known, RowsListed, NoRowsLeft, Removes, OwnedBy, Request,
         Idle, At
<1>23. ASSUME NEW t \in Tokens, LoseKey(t)
     PROVE  NoRowsLeft'
  BY <1>23
     DEF LoseKey, dbVars, TypeOK, Known, RowsListed, NoRowsLeft, Removes, OwnedBy, Request,
         Idle, At
<1>24. ASSUME Tick
     PROVE  NoRowsLeft'
  BY <1>24
     DEF Tick, dbVars, TypeOK, Known, RowsListed, NoRowsLeft, Removes, OwnedBy, Request, Idle,
         At
<1>25. ASSUME Restart
     PROVE  NoRowsLeft'
  BY <1>25
     DEF Restart, dbVars, Idle, Deletes, TypeOK, Known, RowsListed, NoRowsLeft, Removes,
         OwnedBy, Request, Idle, At
<1>26. CASE UNCHANGED vars
  BY <1>26
     DEF vars, dbVars, TypeOK, Known, RowsListed, NoRowsLeft, Removes, OwnedBy, Request, Idle,
         At
<1> QED
  BY <1>1, <1>2, <1>3, <1>4, <1>5, <1>6, <1>7, <1>8, <1>9, <1>10, <1>11, <1>12, <1>13, <1>14,
     <1>15, <1>16, <1>17, <1>18, <1>19, <1>20, <1>21, <1>22, <1>23, <1>24, <1>25, <1>26
     DEF Next, LoginStep, ValidateStep, HandlerStep

\* Every step keeps KeysFollowRows.
LEMMA FollowStep ==
  ASSUME TypeOK, Known, CachersNoted, RowsListed, KeysFollowRows, [Next]_vars
  PROVE  KeysFollowRows'
<1> USE AuthTokensAssumption
<1>1. ASSUME NEW r \in Slots, NEW u \in Users, Login(r, u)
     PROVE  KeysFollowRows'
  BY <1>1
     DEF Login, At, dbVars, TypeOK, Known, CachersNoted, RowsListed, KeysFollowRows, Caches,
         Deletes, Removes, OwnedBy, Request, Idle, At
<1>2. ASSUME NEW r \in Slots, NEW t \in Tokens, IssueInsert(r, t)
     PROVE  KeysFollowRows'
  BY <1>2
     DEF IssueInsert, At, dbVars, TypeOK, Known, CachersNoted, RowsListed, KeysFollowRows,
         Caches, Deletes, Removes, OwnedBy, Request, Idle, At
<1>3. ASSUME NEW r \in Slots, IssueFails(r)
     PROVE  KeysFollowRows'
  BY <1>3
     DEF IssueFails, At, End, dbVars, TypeOK, Known, CachersNoted, RowsListed, KeysFollowRows,
         Caches, Deletes, Removes, OwnedBy, Request, Idle, At
<1>4. ASSUME NEW r \in Slots, CacheIssued(r)
     PROVE  KeysFollowRows'
  BY <1>4
     DEF CacheIssued, At, End, SetKey, dbVars, TypeOK, Known, CachersNoted, RowsListed,
         KeysFollowRows, Caches, Deletes, Removes, OwnedBy, Request, Idle, At
<1>5. ASSUME NEW r \in Slots, NEW t \in Tokens, NEW op \in Ops \ {"login"}, Present(r, t, op)
     PROVE  KeysFollowRows'
  BY <1>5
     DEF Present, At, dbVars, TypeOK, Known, CachersNoted, RowsListed, KeysFollowRows, Caches,
         Deletes, Removes, OwnedBy, Request, Idle, At
<1>6. ASSUME NEW r \in Slots, LookupHit(r)
     PROVE  KeysFollowRows'
  BY <1>6
     DEF LookupHit, At, dbVars, TypeOK, Known, CachersNoted, RowsListed, KeysFollowRows, Caches,
         Deletes, Removes, OwnedBy, Request, Idle, At
<1>7. ASSUME NEW r \in Slots, LookupMiss(r)
     PROVE  KeysFollowRows'
  BY <1>7
     DEF LookupMiss, At, Goto, dbVars, TypeOK, Known, CachersNoted, RowsListed, KeysFollowRows,
         Caches, Deletes, Removes, OwnedBy, Request, Idle, At
<1>8. ASSUME NEW r \in Slots, SelectFails(r)
     PROVE  KeysFollowRows'
  BY <1>8
     DEF SelectFails, At, End, dbVars, TypeOK, Known, CachersNoted, RowsListed, KeysFollowRows,
         Caches, Deletes, Removes, OwnedBy, Request, Idle, At
<1>9. ASSUME NEW r \in Slots, SelectExpired(r)
     PROVE  KeysFollowRows'
  BY <1>9
     DEF SelectExpired, At, Goto, dbVars, TypeOK, Known, CachersNoted, RowsListed,
         KeysFollowRows, Caches, Deletes, Removes, OwnedBy, Request, Idle, At
<1>10. ASSUME NEW r \in Slots, SelectLive(r)
     PROVE  KeysFollowRows'
  BY <1>10
     DEF SelectLive, At, dbVars, TypeOK, Known, CachersNoted, RowsListed, KeysFollowRows,
         Caches, Deletes, Removes, OwnedBy, Request, Idle, At
<1>11. ASSUME NEW r \in Slots, CacheRead(r)
     PROVE  KeysFollowRows'
  BY <1>11
     DEF CacheRead, At, Goto, SetKey, dbVars, TypeOK, Known, CachersNoted, RowsListed,
         KeysFollowRows, Caches, Deletes, Removes, OwnedBy, Request, Idle, At
<1>12. ASSUME NEW r \in Slots, DropRow(r)
     PROVE  KeysFollowRows'
  BY <1>12
     DEF DropRow, At, Goto, DeleteRows, dbVars, TypeOK, Known, CachersNoted, RowsListed,
         KeysFollowRows, Caches, Deletes, Removes, OwnedBy, Request, Idle, At
<1>13. ASSUME NEW r \in Slots, DropKey(r)
     PROVE  KeysFollowRows'
  BY <1>13
     DEF DropKey, At, End, DelKey, dbVars, TypeOK, Known, CachersNoted, RowsListed,
         KeysFollowRows, Caches, Deletes, Removes, OwnedBy, Request, Idle, At
<1>14. ASSUME NEW r \in Slots, Serve(r)
     PROVE  KeysFollowRows'
  BY <1>14
     DEF Serve, At, End, dbVars, TypeOK, Known, CachersNoted, RowsListed, KeysFollowRows,
         Caches, Deletes, Removes, OwnedBy, Request, Idle, At
<1>15. ASSUME NEW r \in Slots, RevokeToken(r)
     PROVE  KeysFollowRows'
  BY <1>15
     DEF RevokeToken, At, Goto, DeleteRows, dbVars, TypeOK, Known, CachersNoted, RowsListed,
         KeysFollowRows, Caches, Deletes, Removes, OwnedBy, Request, Idle, At
<1>16. ASSUME NEW r \in Slots, RevokeFails(r)
     PROVE  KeysFollowRows'
  BY <1>16
     DEF RevokeFails, At, End, dbVars, TypeOK, Known, CachersNoted, RowsListed, KeysFollowRows,
         Caches, Deletes, Removes, OwnedBy, Request, Idle, At
<1>17. ASSUME NEW r \in Slots, Collect(r)
     PROVE  KeysFollowRows'
  BY <1>17
     DEF Collect, At, dbVars, TypeOK, Known, CachersNoted, RowsListed, KeysFollowRows, Caches,
         Deletes, Removes, OwnedBy, Request, Idle, At
<1>18. ASSUME NEW r \in Slots, PurgeRows(r)
     PROVE  KeysFollowRows'
  BY <1>18
     DEF PurgeRows, At, Goto, DeleteRows, dbVars, TypeOK, Known, CachersNoted, RowsListed,
         KeysFollowRows, Caches, Deletes, Removes, OwnedBy, Request, Idle, At
<1>19. ASSUME NEW r \in Slots, PurgeEnd(r)
     PROVE  KeysFollowRows'
  BY <1>19
     DEF PurgeEnd, At, Goto, dbVars, TypeOK, Known, CachersNoted, RowsListed, KeysFollowRows,
         Caches, Deletes, Removes, OwnedBy, Request, Idle, At
<1>20. ASSUME NEW r \in Slots, DropUser(r)
     PROVE  KeysFollowRows'
  BY <1>20
     DEF DropUser, At, End, DeleteRows, dbVars, TypeOK, Known, CachersNoted, RowsListed,
         KeysFollowRows, Caches, Deletes, Removes, OwnedBy, Request, Idle, At
<1>21. ASSUME NEW r \in Slots, NEW t \in Tokens, PurgeKey(r, t)
     PROVE  KeysFollowRows'
  BY <1>21
     DEF PurgeKey, At, DelKey, dbVars, TypeOK, Known, CachersNoted, RowsListed, KeysFollowRows,
         Caches, Deletes, Removes, OwnedBy, Request, Idle, At
<1>22. ASSUME NEW u \in Users, Register(u)
     PROVE  KeysFollowRows'
  BY <1>22
     DEF Register, dbVars, TypeOK, Known, CachersNoted, RowsListed, KeysFollowRows, Caches,
         Deletes, Removes, OwnedBy, Request, Idle, At
<1>23. ASSUME NEW t \in Tokens, LoseKey(t)
     PROVE  KeysFollowRows'
  BY <1>23
     DEF LoseKey, dbVars, TypeOK, Known, CachersNoted, RowsListed, KeysFollowRows, Caches,
         Deletes, Removes, OwnedBy, Request, Idle, At
<1>24. ASSUME Tick
     PROVE  KeysFollowRows'
  BY <1>24
     DEF Tick, dbVars, TypeOK, Known, CachersNoted, RowsListed, KeysFollowRows, Caches, Deletes,
         Removes, OwnedBy, Request, Idle, At
<1>25. ASSUME Restart
     PROVE  KeysFollowRows'
  BY <1>25
     DEF Restart, dbVars, Idle, Deletes, TypeOK, Known, CachersNoted, RowsListed,
         KeysFollowRows, Caches, Deletes, Removes, OwnedBy, Request, Idle, At
<1>26. CASE UNCHANGED vars
  BY <1>26
     DEF vars, dbVars, TypeOK, Known, CachersNoted, RowsListed, KeysFollowRows, Caches, Deletes,
         Removes, OwnedBy, Request, Idle, At
<1> QED
  BY <1>1, <1>2, <1>3, <1>4, <1>5, <1>6, <1>7, <1>8, <1>9, <1>10, <1>11, <1>12, <1>13, <1>14,
     <1>15, <1>16, <1>17, <1>18, <1>19, <1>20, <1>21, <1>22, <1>23, <1>24, <1>25, <1>26
     DEF Next, LoginStep, ValidateStep, HandlerStep

\* Every step keeps KeysLapse.
LEMMA LapseStep ==
  ASSUME TypeOK, Known, InTime, KeysLapse, [Next]_vars
  PROVE  KeysLapse'
<1> USE AuthTokensAssumption
<1>1. ASSUME NEW r \in Slots, NEW u \in Users, Login(r, u)
     PROVE  KeysLapse'
  BY <1>1 DEF Login, At, dbVars, TypeOK, Known, InTime, KeysLapse, Request, Idle, At
<1>2. ASSUME NEW r \in Slots, NEW t \in Tokens, IssueInsert(r, t)
     PROVE  KeysLapse'
  BY <1>2 DEF IssueInsert, At, dbVars, TypeOK, Known, InTime, KeysLapse, Request, Idle, At
<1>3. ASSUME NEW r \in Slots, IssueFails(r)
     PROVE  KeysLapse'
  BY <1>3 DEF IssueFails, At, End, dbVars, TypeOK, Known, InTime, KeysLapse, Request, Idle, At
<1>4. ASSUME NEW r \in Slots, CacheIssued(r)
     PROVE  KeysLapse'
  BY <1>4
     DEF CacheIssued, At, End, SetKey, dbVars, TypeOK, Known, InTime, KeysLapse, Request, Idle,
         At
<1>5. ASSUME NEW r \in Slots, NEW t \in Tokens, NEW op \in Ops \ {"login"}, Present(r, t, op)
     PROVE  KeysLapse'
  BY <1>5 DEF Present, At, dbVars, TypeOK, Known, InTime, KeysLapse, Request, Idle, At
<1>6. ASSUME NEW r \in Slots, LookupHit(r)
     PROVE  KeysLapse'
  BY <1>6 DEF LookupHit, At, dbVars, TypeOK, Known, InTime, KeysLapse, Request, Idle, At
<1>7. ASSUME NEW r \in Slots, LookupMiss(r)
     PROVE  KeysLapse'
  BY <1>7 DEF LookupMiss, At, Goto, dbVars, TypeOK, Known, InTime, KeysLapse, Request, Idle, At
<1>8. ASSUME NEW r \in Slots, SelectFails(r)
     PROVE  KeysLapse'
  BY <1>8 DEF SelectFails, At, End, dbVars, TypeOK, Known, InTime, KeysLapse, Request, Idle, At
<1>9. ASSUME NEW r \in Slots, SelectExpired(r)
     PROVE  KeysLapse'
  BY <1>9
     DEF SelectExpired, At, Goto, dbVars, TypeOK, Known, InTime, KeysLapse, Request, Idle, At
<1>10. ASSUME NEW r \in Slots, SelectLive(r)
     PROVE  KeysLapse'
  BY <1>10 DEF SelectLive, At, dbVars, TypeOK, Known, InTime, KeysLapse, Request, Idle, At
<1>11. ASSUME NEW r \in Slots, CacheRead(r)
     PROVE  KeysLapse'
  BY <1>11
     DEF CacheRead, At, Goto, SetKey, dbVars, TypeOK, Known, InTime, KeysLapse, Request, Idle,
         At
<1>12. ASSUME NEW r \in Slots, DropRow(r)
     PROVE  KeysLapse'
  BY <1>12
     DEF DropRow, At, Goto, DeleteRows, dbVars, TypeOK, Known, InTime, KeysLapse, Request, Idle,
         At
<1>13. ASSUME NEW r \in Slots, DropKey(r)
     PROVE  KeysLapse'
  BY <1>13
     DEF DropKey, At, End, DelKey, dbVars, TypeOK, Known, InTime, KeysLapse, Request, Idle, At
<1>14. ASSUME NEW r \in Slots, Serve(r)
     PROVE  KeysLapse'
  BY <1>14 DEF Serve, At, End, dbVars, TypeOK, Known, InTime, KeysLapse, Request, Idle, At
<1>15. ASSUME NEW r \in Slots, RevokeToken(r)
     PROVE  KeysLapse'
  BY <1>15
     DEF RevokeToken, At, Goto, DeleteRows, dbVars, TypeOK, Known, InTime, KeysLapse, Request,
         Idle, At
<1>16. ASSUME NEW r \in Slots, RevokeFails(r)
     PROVE  KeysLapse'
  BY <1>16 DEF RevokeFails, At, End, dbVars, TypeOK, Known, InTime, KeysLapse, Request, Idle, At
<1>17. ASSUME NEW r \in Slots, Collect(r)
     PROVE  KeysLapse'
  BY <1>17 DEF Collect, At, dbVars, TypeOK, Known, InTime, KeysLapse, Request, Idle, At
<1>18. ASSUME NEW r \in Slots, PurgeRows(r)
     PROVE  KeysLapse'
  BY <1>18
     DEF PurgeRows, At, Goto, DeleteRows, dbVars, TypeOK, Known, InTime, KeysLapse, Request,
         Idle, At
<1>19. ASSUME NEW r \in Slots, PurgeEnd(r)
     PROVE  KeysLapse'
  BY <1>19 DEF PurgeEnd, At, Goto, dbVars, TypeOK, Known, InTime, KeysLapse, Request, Idle, At
<1>20. ASSUME NEW r \in Slots, DropUser(r)
     PROVE  KeysLapse'
  BY <1>20
     DEF DropUser, At, End, DeleteRows, dbVars, TypeOK, Known, InTime, KeysLapse, Request, Idle,
         At
<1>21. ASSUME NEW r \in Slots, NEW t \in Tokens, PurgeKey(r, t)
     PROVE  KeysLapse'
  BY <1>21 DEF PurgeKey, At, DelKey, dbVars, TypeOK, Known, InTime, KeysLapse, Request, Idle, At
<1>22. ASSUME NEW u \in Users, Register(u)
     PROVE  KeysLapse'
  BY <1>22 DEF Register, dbVars, TypeOK, Known, InTime, KeysLapse, Request, Idle, At
<1>23. ASSUME NEW t \in Tokens, LoseKey(t)
     PROVE  KeysLapse'
  BY <1>23 DEF LoseKey, dbVars, TypeOK, Known, InTime, KeysLapse, Request, Idle, At
<1>24. ASSUME Tick
     PROVE  KeysLapse'
  BY <1>24 DEF Tick, dbVars, TypeOK, Known, InTime, KeysLapse, Request, Idle, At
<1>25. ASSUME Restart
     PROVE  KeysLapse'
  BY <1>25
     DEF Restart, dbVars, Idle, Deletes, TypeOK, Known, InTime, KeysLapse, Request, Idle, At
<1>26. CASE UNCHANGED vars
  BY <1>26 DEF vars, dbVars, TypeOK, Known, InTime, KeysLapse, Request, Idle, At
<1> QED
  BY <1>1, <1>2, <1>3, <1>4, <1>5, <1>6, <1>7, <1>8, <1>9, <1>10, <1>11, <1>12, <1>13, <1>14,
     <1>15, <1>16, <1>17, <1>18, <1>19, <1>20, <1>21, <1>22, <1>23, <1>24, <1>25, <1>26
     DEF Next, LoginStep, ValidateStep, HandlerStep

\* What holds of one token in a step: if it is out it stays out, and is not
\* accepted by a request that has still to look it up.
StaysOut(t) ==
  Out(t) =>
    /\ Out(t)'
    /\ \A r \in Slots : req[r].token = t /\ req[r].pc \in {"lookup", "select"}
         => req'[r].pc \notin {"cacheRead", "ok"}

\* Every step lets a token that is out stay out.
LEMMA OutStep ==
  ASSUME TypeOK, Known, CachersNoted, RowsListed, [Next]_vars, NEW t \in Tokens
  PROVE  StaysOut(t)
<1> USE AuthTokensAssumption DEF StaysOut, Out, TypeOK, Known, CachersNoted, Caches
<1>1. ASSUME NEW r \in Slots, NEW u \in Users, Login(r, u)
     PROVE  StaysOut(t)
  BY <1>1 DEF Login, At, dbVars, Request, Idle
<1>2. ASSUME NEW r \in Slots, NEW s \in Tokens, IssueInsert(r, s)
     PROVE  StaysOut(t)
  BY <1>2 DEF IssueInsert, At, dbVars, Request, Idle
<1>3. ASSUME NEW r \in Slots, IssueFails(r)
     PROVE  StaysOut(t)
  BY <1>3 DEF IssueFails, At, End, dbVars, Request, Idle
<1>4. ASSUME NEW r \in Slots, CacheIssued(r)
     PROVE  StaysOut(t)
  BY <1>4 DEF CacheIssued, At, End, SetKey, dbVars, Request, Idle
<1>5. ASSUME NEW r \in Slots, NEW s \in Tokens, NEW op \in Ops \ {"login"}, Present(r, s, op)
     PROVE  StaysOut(t)
  BY <1>5 DEF Present, At, dbVars, Request, Idle
<1>6. ASSUME NEW r \in Slots, LookupHit(r)
     PROVE  StaysOut(t)
  BY <1>6 DEF LookupHit, At, dbVars, Request, Idle
<1>7. ASSUME NEW r \in Slots, LookupMiss(r)
     PROVE  StaysOut(t)
  BY <1>7 DEF LookupMiss, At, Goto, dbVars, Request, Idle
<1>8. ASSUME NEW r \in Slots, SelectFails(r)
     PROVE  StaysOut(t)
  BY <1>8 DEF SelectFails, At, End, dbVars, Request, Idle
<1>9. ASSUME NEW r \in Slots, SelectExpired(r)
     PROVE  StaysOut(t)
  BY <1>9 DEF SelectExpired, At, Goto, dbVars, Request, Idle
<1>10. ASSUME NEW r \in Slots, SelectLive(r)
     PROVE  StaysOut(t)
  BY <1>10 DEF SelectLive, At, dbVars, Request, Idle
<1>11. ASSUME NEW r \in Slots, CacheRead(r)
     PROVE  StaysOut(t)
  BY <1>11 DEF CacheRead, At, Goto, SetKey, dbVars, Request, Idle
<1>12. ASSUME NEW r \in Slots, DropRow(r)
     PROVE  StaysOut(t)
  BY <1>12 DEF DropRow, At, Goto, DeleteRows, dbVars, Request, Idle
<1>13. ASSUME NEW r \in Slots, DropKey(r)
     PROVE  StaysOut(t)
  BY <1>13 DEF DropKey, At, End, DelKey, dbVars, Request, Idle
<1>14. ASSUME NEW r \in Slots, Serve(r)
     PROVE  StaysOut(t)
  BY <1>14 DEF Serve, At, End, dbVars, Request, Idle
<1>15. ASSUME NEW r \in Slots, RevokeToken(r)
     PROVE  StaysOut(t)
  BY <1>15 DEF RevokeToken, At, Goto, DeleteRows, dbVars, Request, Idle
<1>16. ASSUME NEW r \in Slots, RevokeFails(r)
     PROVE  StaysOut(t)
  BY <1>16 DEF RevokeFails, At, End, dbVars, Request, Idle
<1>17. ASSUME NEW r \in Slots, Collect(r)
     PROVE  StaysOut(t)
  BY <1>17 DEF Collect, At, dbVars, OwnedBy, Request, Idle
<1>18. ASSUME NEW r \in Slots, PurgeRows(r)
     PROVE  StaysOut(t)
  BY <1>18 DEF PurgeRows, At, Goto, DeleteRows, dbVars, OwnedBy, Request, Idle
<1>19. ASSUME NEW r \in Slots, PurgeEnd(r)
     PROVE  StaysOut(t)
  BY <1>19 DEF PurgeEnd, At, Goto, dbVars, Request, Idle
<1>20. ASSUME NEW r \in Slots, DropUser(r)
     PROVE  StaysOut(t)
  BY <1>20 DEF DropUser, At, End, DeleteRows, dbVars, OwnedBy, Request, Idle
<1>21. ASSUME NEW r \in Slots, NEW s \in Tokens, PurgeKey(r, s)
     PROVE  StaysOut(t)
  BY <1>21 DEF PurgeKey, At, DelKey, dbVars, Request, Idle
<1>22. ASSUME NEW u \in Users, Register(u)
     PROVE  StaysOut(t)
  BY <1>22 DEF Register, dbVars
<1>23. ASSUME NEW s \in Tokens, LoseKey(s)
     PROVE  StaysOut(t)
  BY <1>23 DEF LoseKey, dbVars
<1>24. ASSUME Tick
     PROVE  StaysOut(t)
  BY <1>24 DEF Tick, dbVars
<1>25. ASSUME Restart
     PROVE  StaysOut(t)
  BY <1>25 DEF Restart, dbVars, Idle
<1>26. CASE UNCHANGED vars
  BY <1>26 DEF vars, dbVars
<1> QED
  BY <1>1, <1>2, <1>3, <1>4, <1>5, <1>6, <1>7, <1>8, <1>9, <1>10, <1>11, <1>12, <1>13, <1>14,
     <1>15, <1>16, <1>17, <1>18, <1>19, <1>20, <1>21, <1>22, <1>23, <1>24, <1>25, <1>26
     DEF Next, LoginStep, ValidateStep, HandlerStep

\* The initial states satisfy the types and Inv.
LEMMA InitInv ==
  ASSUME Init
  PROVE  TypeOK /\ Inv
<1> USE AuthTokensAssumption DEF Init, Idle
<1>1. TypeOK
  BY DEF TypeOK, Request, Pcs, Ops
<1>2. Known /\ CachersNoted /\ InTime
  BY DEF Known, CachersNoted, Caches, InTime, At
<1>3. RowsListed /\ NoRowsLeft /\ KeysFollowRows /\ KeysLapse
  BY DEF RowsListed, NoRowsLeft, KeysFollowRows, KeysLapse
<1> QED
  BY <1>1, <1>2, <1>3 DEF Inv

\* TypeOK /\ Inv is inductive.
LEMMA InvStep ==
  ASSUME TypeOK, Inv, [Next]_vars
  PROVE  TypeOK' /\ Inv'
<1>1. Known /\ CachersNoted /\ InTime /\ RowsListed /\ NoRowsLeft /\ KeysFollowRows /\ KeysLapse
  BY DEF Inv
<1>2. TypeOK' /\ Known' /\ CachersNoted' /\ InTime'
  BY <1>1, TypeStep, KnownStep, CachersStep, InTimeStep
<1>3. RowsListed' /\ NoRowsLeft' /\ KeysFollowRows' /\ KeysLapse'
  BY <1>1, ListedStep, RowsLeftStep, FollowStep, LapseStep
<1> QED
  BY <1>2, <1>3 DEF Inv

\* The types and Inv hold throughout.
THEOREM TokensInvariant == Spec => [](TypeOK /\ Inv)
<1>1. Init => TypeOK /\ Inv
  BY InitInv
<1>2. TypeOK /\ Inv /\ [Next]_vars => (TypeOK /\ Inv)'
  BY InvStep
<1> QED
  BY <1>1, <1>2, PTL DEF Spec

\* Values have their types and every key its end ahead, however many requests
\* run (auth/service.go).
THEOREM TokensTyped == Spec => []TypeOK
  BY TokensInvariant, PTL

\* A key without a row is about to be deleted, or its revocation was raced or
\* failed (service.go:77-129).
THEOREM TokenKeysFollowRows == Spec => []KeysFollowRows
<1>1. Inv => KeysFollowRows
  BY DEF Inv
<1> QED
  BY <1>1, TokensInvariant, PTL

\* No key outlives its row's expiry by more than MaxWait + 1 seconds
\* (service.go:64, 100, 165).
THEOREM TokenKeysLapse == Spec => []KeysLapse
<1>1. Inv => KeysLapse
  BY DEF Inv
<1> QED
  BY <1>1, TokensInvariant, PTL

\* The tokens of a deleted user are out, but for those whose revocation was
\* raced or failed (handlers.go:301-321).
THEOREM TokensOfDeletedUsers == Spec => []DeletedUsersOut
<1>1. TypeOK /\ Inv => DeletedUsersOut
  BY DEF Inv, NoRowsLeft, KeysFollowRows, DeletedUsersOut
<1> QED
  BY <1>1, TokensInvariant, PTL

\* A token whose row and key are gone, with nothing racing, stays gone and is
\* refused (service.go:77-129).
THEOREM TokensStayOut == Spec => TokenStaysOut
<1>1. TypeOK /\ Inv /\ [Next]_vars => \A t \in Tokens : StaysOut(t)
  BY OutStep DEF Inv
<1>2. TypeOK /\ Inv /\ [Next]_vars
        => [\A t \in Tokens : Out(t) =>
              /\ Out(t)'
              /\ \A r \in Slots : req[r].token = t /\ req[r].pc \in {"lookup", "select"}
                   => req'[r].pc \notin {"cacheRead", "ok"}]_vars
  BY <1>1 DEF StaysOut
<1> QED
  BY <1>2, TokensInvariant, PTL DEF Spec, TokenStaysOut
=============================================================================
