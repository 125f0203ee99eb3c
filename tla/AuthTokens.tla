----------------------------- MODULE AuthTokens -----------------------------
(***************************************************************************)
(* The login tokens of auth/service.go: the table user_tokens and its copy *)
(* in Redis (auth:token:...), between which nothing is atomic.  loginUser, *)
(* logoutUser, deleteUser and every other request the middleware lets in   *)
(* run concurrently; each statement sent to the database or to Redis is a  *)
(* step.  The clock counts seconds.  A Redis command may fail and is then  *)
(* only logged; a key may be lost; the backend may stop at any step.       *)
(*                                                                         *)
(* Tokens are random and never issued twice, user ids never reused         *)
(* (AUTOINCREMENT).  Passwords and CSRF tokens are left out.               *)
(***************************************************************************)
EXTENDS Integers

CONSTANTS
  Users,        \* the users that may register
  Tokens,       \* the tokens that may be drawn (bounds the logins)
  Slots,        \* bound on requests at work at one time
  NoUser,
  NoToken,
  ForeignKeys,  \* what a pooled connection enforces: {TRUE}, with SQLite BOOLEAN
  TokenTTL,     \* tokenTTL, in seconds
  MaxWait,      \* bound on the seconds between a time.Now and the Set that uses it
  MaxTime       \* bound on the clock

ASSUME AuthTokensAssumption ==
  /\ NoUser \notin Users
  /\ NoToken \notin Tokens
  /\ ForeignKeys \subseteq BOOLEAN
  /\ TokenTTL \in Nat \ {0}
  /\ MaxWait \in Nat
  /\ MaxTime \in Nat

VARIABLES
  status,   \* of each user: "none", "here" or "gone"
  rows,     \* the tokens that have a row in user_tokens
  owner,    \* user_id of a token's row, NoUser before it is issued
  expires,  \* expires_at of a token's row
  keys,     \* when the key of a token ends, 0 for no key
  held,     \* the tokens a client has received
  req,      \* the requests at work
  now,      \* the clock
  exposed   \* history: the tokens whose revocation was raced or failed

dbVars == <<status, rows, owner, expires>>
vars   == <<dbVars, keys, held, req, now, exposed>>

Pcs == {"idle", "issue", "cacheIssued", "lookup", "select", "dropRow", "dropKey",
        "cacheRead", "ok", "purgeRows", "purgeKeys", "dropUser"}
Ops == {"login", "access", "logout", "delete"}

Request == [pc : Pcs, op : Ops, token : Tokens \cup {NoToken},
            user : Users \cup {NoUser}, since : Nat, todo : SUBSET Tokens]

Idle == [pc |-> "idle", op |-> "access", token |-> NoToken,
         user |-> NoUser, since |-> 0, todo |-> {}]

\* The request r is about to write the key of t / to delete it.
Caches(r, t)  == req[r].pc \in {"cacheIssued", "cacheRead"} /\ req[r].token = t
Deletes(r, t) == \/ req[r].pc = "dropKey" /\ req[r].token = t
                 \/ req[r].pc = "purgeKeys" /\ t \in req[r].todo

\* The request r has listed the tokens of user u and goes on to delete the user.
Removes(r, u) == req[r].pc \in {"purgeRows", "purgeKeys", "dropUser"} /\ req[r].user = u

OwnedBy(u) == {t \in Tokens : owner[t] = u}

Init ==
  /\ status = [u \in Users |-> "none"]
  /\ rows = {}
  /\ owner = [t \in Tokens |-> NoUser]
  /\ expires = [t \in Tokens |-> 0]
  /\ keys = [t \in Tokens |-> 0]
  /\ held = {}
  /\ req = [r \in Slots |-> Idle]
  /\ now = 1
  /\ exposed = {}

At(r, p)   == req[r].pc = p
Goto(r, p) == req' = [req EXCEPT ![r].pc = p]
End(r)     == req' = [req EXCEPT ![r] = Idle]

\* Rows of the tokens in S are deleted: a key about to be written will outlive them.
DeleteRows(S) ==
  /\ rows' = rows \ S
  /\ exposed' = exposed \cup {t \in S \cap rows : \E r \in Slots : Caches(r, t)}

\* Mutant: a time to live of zero or less is passed on.
SetKeyUnchecked(t, ttl) == keys' = [keys EXCEPT ![t] = now + ttl]

\* Redis SET with a time to live of at least one second.
SetKey(t, ttl) == keys' = [keys EXCEPT ![t] = now + (IF ttl <= 0 THEN 1 ELSE ttl)]

(* registerUser, loginUser *)

Register(u) ==
  /\ status[u] = "none"
  /\ status' = [status EXCEPT ![u] = "here"]
  /\ UNCHANGED <<rows, owner, expires, keys, held, req, now, exposed>>

Login(r, u) ==
  /\ At(r, "idle")
  /\ status[u] = "here"
  /\ req' = [req EXCEPT ![r] = [Idle EXCEPT !.pc = "issue", !.op = "login",
                                            !.user = u, !.since = now]]
  /\ UNCHANGED <<dbVars, keys, held, now, exposed>>

\* The row refers to its user, where the connection looks.
IssueInsert(r, t) ==
  LET u == req[r].user IN
  /\ At(r, "issue")
  /\ owner[t] = NoUser
  /\ \E enforced \in ForeignKeys : enforced => status[u] = "here"
  /\ rows' = rows \cup {t}
  /\ owner' = [owner EXCEPT ![t] = u]
  /\ expires' = [expires EXCEPT ![t] = req[r].since + TokenTTL]
  /\ req' = [req EXCEPT ![r] = [@ EXCEPT !.pc = "cacheIssued", !.token = t]]
  /\ exposed' = IF status[u] # "here" \/ \E q \in Slots : Removes(q, u)
                THEN exposed \cup {t} ELSE exposed
  /\ UNCHANGED <<status, keys, held, now>>

IssueFails(r) ==
  /\ At(r, "issue")
  /\ End(r)
  /\ UNCHANGED <<dbVars, keys, held, now, exposed>>

\* Set, then the answer, unless drawing the CSRF token failed.
CacheIssued(r) ==
  LET t == req[r].token IN
  /\ At(r, "cacheIssued")
  /\ SetKey(t, TokenTTL) \/ UNCHANGED keys
  /\ held' = held \cup {t} \/ UNCHANGED held
  /\ End(r)
  /\ UNCHANGED <<dbVars, now, exposed>>

(* ValidateToken, before every other request *)

Present(r, t, op) ==
  /\ At(r, "idle")
  /\ t \in held
  /\ req' = [req EXCEPT ![r] = [Idle EXCEPT !.pc = "lookup", !.op = op, !.token = t]]
  /\ UNCHANGED <<dbVars, keys, held, now, exposed>>

LookupHit(r) ==
  LET t == req[r].token IN
  /\ At(r, "lookup")
  /\ keys[t] > now
  /\ req' = [req EXCEPT ![r] = [@ EXCEPT !.pc = "ok", !.user = owner[t]]]
  /\ UNCHANGED <<dbVars, keys, held, now, exposed>>

\* No key, or Get failed.
LookupMiss(r) ==
  /\ At(r, "lookup")
  /\ Goto(r, "select")
  /\ UNCHANGED <<dbVars, keys, held, now, exposed>>

\* No row, or the query failed.
SelectFails(r) ==
  /\ At(r, "select")
  /\ End(r)
  /\ UNCHANGED <<dbVars, keys, held, now, exposed>>

SelectExpired(r) ==
  LET t == req[r].token IN
  /\ At(r, "select")
  /\ t \in rows
  /\ now > expires[t]
  /\ Goto(r, "dropRow")
  /\ UNCHANGED <<dbVars, keys, held, now, exposed>>

SelectLive(r) ==
  LET t == req[r].token IN
  /\ At(r, "select")
  /\ t \in rows
  /\ now <= expires[t]
  /\ req' = [req EXCEPT ![r] = [@ EXCEPT !.pc = "cacheRead", !.user = owner[t],
                                      !.since = now]]
  /\ UNCHANGED <<dbVars, keys, held, now, exposed>>

\* Mutant: each validation gives the key a whole life.
CacheReadRenews(r) ==
  /\ At(r, "cacheRead")
  /\ SetKey(req[r].token, TokenTTL) \/ UNCHANGED keys
  /\ Goto(r, "ok")
  /\ UNCHANGED <<dbVars, held, now, exposed>>

\* time.Until(expires) is computed for the Set.
CacheRead(r) ==
  LET t == req[r].token IN
  /\ At(r, "cacheRead")
  /\ SetKey(t, expires[t] - now) \/ UNCHANGED keys
  /\ Goto(r, "ok")
  /\ UNCHANGED <<dbVars, held, now, exposed>>

\* The DELETE of an expired token, whose error is ignored.
DropRow(r) ==
  /\ At(r, "dropRow")
  /\ DeleteRows({req[r].token}) \/ UNCHANGED <<rows, exposed>>
  /\ Goto(r, "dropKey")
  /\ UNCHANGED <<status, owner, expires, keys, held, now>>

\* deleteCacheToken: a Del that fails leaves the key.
DelKey(t) ==
  \/ keys' = [keys EXCEPT ![t] = 0] /\ UNCHANGED exposed
  \/ UNCHANGED keys /\ exposed' = IF keys[t] # 0 THEN exposed \cup {t} ELSE exposed

\* Mutant: ValidateToken does not return after an expired token is dropped.
DropKeyFallsThrough(r) ==
  /\ At(r, "dropKey")
  /\ DelKey(req[r].token)
  /\ IF req[r].op = "access" THEN Goto(r, "cacheRead") ELSE End(r)
  /\ UNCHANGED <<dbVars, held, now>>

\* The last step of an expired token and of logoutUser.
DropKey(r) ==
  /\ At(r, "dropKey")
  /\ DelKey(req[r].token)
  /\ End(r)
  /\ UNCHANGED <<dbVars, held, now>>

(* the handlers behind the middleware *)

Serve(r) ==
  /\ At(r, "ok")
  /\ req[r].op = "access"
  /\ End(r)
  /\ UNCHANGED <<dbVars, keys, held, now, exposed>>

\* Mutant: the row is deleted and the key left to end by itself.
RevokeTokenKeepsKey(r) ==
  /\ At(r, "ok")
  /\ req[r].op = "logout"
  /\ DeleteRows({req[r].token})
  /\ End(r)
  /\ UNCHANGED <<status, owner, expires, keys, held, now>>

RevokeToken(r) ==
  /\ At(r, "ok")
  /\ req[r].op = "logout"
  /\ DeleteRows({req[r].token})
  /\ Goto(r, "dropKey")
  /\ UNCHANGED <<status, owner, expires, keys, held, now>>

\* The DELETE failed: logoutUser and deleteUser leave the tokens as they are.
RevokeFails(r) ==
  /\ \/ At(r, "ok") /\ req[r].op = "logout"
     \/ At(r, "purgeRows")
  /\ End(r)
  /\ UNCHANGED <<dbVars, keys, held, now, exposed>>

\* collectUserTokens: an error ends the list early.
Collect(r) ==
  LET mine == rows \cap OwnedBy(req[r].user) IN
  /\ At(r, "ok")
  /\ req[r].op = "delete"
  /\ \E listed \in SUBSET mine :
       /\ req' = [req EXCEPT ![r] = [@ EXCEPT !.pc = "purgeRows", !.todo = listed]]
       /\ exposed' = exposed \cup (mine \ listed)
  /\ UNCHANGED <<dbVars, keys, held, now>>

\* Mutant: the error of RevokeUserTokens is not returned to deleteUser.
PurgeRowsUnchecked(r) ==
  /\ At(r, "purgeRows")
  /\ DeleteRows(OwnedBy(req[r].user)) \/ UNCHANGED <<rows, exposed>>
  /\ Goto(r, "purgeKeys")
  /\ UNCHANGED <<status, owner, expires, keys, held, now>>

PurgeRows(r) ==
  /\ At(r, "purgeRows")
  /\ DeleteRows(OwnedBy(req[r].user))
  /\ Goto(r, "purgeKeys")
  /\ UNCHANGED <<status, owner, expires, keys, held, now>>

PurgeKey(r, t) ==
  /\ At(r, "purgeKeys")
  /\ t \in req[r].todo
  /\ DelKey(t)
  /\ req' = [req EXCEPT ![r].todo = @ \ {t}]
  /\ UNCHANGED <<dbVars, held, now>>

PurgeEnd(r) ==
  /\ At(r, "purgeKeys")
  /\ req[r].todo = {}
  /\ Goto(r, "dropUser")
  /\ UNCHANGED <<dbVars, keys, held, now, exposed>>

\* The rows follow the user, where the connection enforces it; the keys do not.
DropUser(r) ==
  LET u == req[r].user IN
  /\ At(r, "dropUser")
  /\ \/ /\ status' = [status EXCEPT ![u] = "gone"]
        /\ \E enforced \in ForeignKeys : DeleteRows(IF enforced THEN OwnedBy(u) ELSE {})
     \/ UNCHANGED <<status, rows, exposed>>
  /\ End(r)
  /\ UNCHANGED <<owner, expires, keys, held, now>>

(* the world *)

\* A key ends on time; no request takes longer than MaxWait to reach its Set.
Tick ==
  /\ now < MaxTime
  /\ \A r \in Slots : req[r].pc \in {"issue", "cacheIssued", "cacheRead"}
                        => now < req[r].since + MaxWait
  /\ now' = now + 1
  /\ keys' = [t \in Tokens |-> IF keys[t] > now + 1 THEN keys[t] ELSE 0]
  /\ UNCHANGED <<dbVars, held, req, exposed>>

LoseKey(t) ==
  /\ keys[t] # 0
  /\ keys' = [keys EXCEPT ![t] = 0]
  /\ UNCHANGED <<dbVars, held, req, now, exposed>>

\* The backend stops and starts: keys it was about to delete stay.
Restart ==
  /\ req' = [r \in Slots |-> Idle]
  /\ exposed' = exposed \cup {t \in Tokens : keys[t] # 0 /\ \E r \in Slots : Deletes(r, t)}
  /\ UNCHANGED <<dbVars, keys, held, now>>

LoginStep(r) ==
  \/ \E u \in Users : Login(r, u)
  \/ \E t \in Tokens : IssueInsert(r, t)
  \/ IssueFails(r)
  \/ CacheIssued(r)

ValidateStep(r) ==
  \/ \E t \in Tokens, op \in Ops \ {"login"} : Present(r, t, op)
  \/ LookupHit(r) \/ LookupMiss(r)
  \/ SelectFails(r) \/ SelectExpired(r) \/ SelectLive(r)
  \/ CacheRead(r) \/ DropRow(r) \/ DropKey(r)

HandlerStep(r) ==
  \/ Serve(r) \/ RevokeToken(r) \/ RevokeFails(r)
  \/ Collect(r) \/ PurgeRows(r) \/ PurgeEnd(r) \/ DropUser(r)
  \/ \E t \in Tokens : PurgeKey(r, t)

Next ==
  \/ \E r \in Slots : LoginStep(r) \/ ValidateStep(r) \/ HandlerStep(r)
  \/ \E u \in Users : Register(u)
  \/ \E t \in Tokens : LoseKey(t)
  \/ Tick
  \/ Restart

Spec == Init /\ [][Next]_vars

(* properties *)

\* Values have their types; a key always has its end ahead (service.go:165).
TypeOK ==
  /\ status \in [Users -> {"none", "here", "gone"}]
  /\ rows \subseteq Tokens
  /\ owner \in [Tokens -> Users \cup {NoUser}]
  /\ expires \in [Tokens -> Nat]
  /\ keys \in [Tokens -> Nat]
  /\ \A t \in Tokens : keys[t] = 0 \/ keys[t] > now
  /\ held \subseteq Tokens
  /\ req \in [Slots -> Request]
  /\ now \in Nat
  /\ exposed \subseteq Tokens

\* A token whose row is gone has no key, unless the request that deleted the
\* row is about to delete the key, or the revocation was raced by a request
\* between its SELECT or INSERT and its Set, or a step of it failed
\* (service.go:100, 112, 126).
KeysFollowRows ==
  \A t \in Tokens : keys[t] # 0 /\ t \notin rows
    => t \in exposed \/ \E r \in Slots : Deletes(r, t)

\* A key outlives its row's expiry by no more than the time a request takes and
\* the second ValidateToken gives at least: lookups do not extend it, so that
\* is also how long a revoked token can be accepted (service.go:64, 81, 100).
KeysLapse ==
  \A t \in Tokens : keys[t] <= expires[t] + MaxWait + 1

\* When deleteUser has removed the user, none of the user's tokens has a row
\* or, once the requests at work are done, a key, except tokens issued during
\* the deletion and those whose revocation was raced or failed
\* (handlers.go:306-312).
DeletedUsersOut ==
  \A t \in Tokens : owner[t] # NoUser /\ t \notin exposed
    => (status[owner[t]] = "gone"
          => t \notin rows /\ (keys[t] # 0 => \E r \in Slots : Deletes(r, t)))

\* The token has left the table and Redis.
Out(t) == owner[t] # NoUser /\ t \notin rows /\ keys[t] = 0 /\ t \notin exposed

\* A token that is out stays out, and no request that has still to look it up
\* is let in: whatever is in flight, nothing brings it back (service.go:77-102).
TokenStaysOut ==
  [][\A t \in Tokens : Out(t) =>
       /\ Out(t)'
       /\ \A r \in Slots : req[r].token = t /\ req[r].pc \in {"lookup", "select"}
            => req'[r].pc \notin {"cacheRead", "ok"}]_vars
=============================================================================
