-------------------------------- MODULE Auth --------------------------------
(***************************************************************************)
(* auth.Service: the administrator's account, sessions, refresh tokens and *)
(* access tokens.                                                          *)
(*                                                                         *)
(* A refresh token is the position of its session in the table.  An access *)
(* token is signed and not stored anywhere; access is the set of those     *)
(* that have been issued, whoever holds them.  Passwords stand for their   *)
(* hashes: bcrypt tells them apart and nothing else.                       *)
(*                                                                         *)
(* A request is a goroutine between two statements of its handler.  Login  *)
(* reads the clock before it waits for the one connection, so the times it *)
(* stores may be older than its statement.  ChangePassword and Logout do   *)
(* so too, but what they store in revoked_at is never read: statements and *)
(* handlers ask whether there is a time, not which.  So revoked is a flag, *)
(* and the order of events is that of the commits.                         *)
(*                                                                         *)
(* Two fields exist for the properties.  raced: the request was under way  *)
(* when the sessions it deals with were revoked.  alive: the session was   *)
(* not revoked when the token was issued.                                  *)
(***************************************************************************)
EXTENDS Integers, Sequences, FiniteSets

CONSTANTS
  Requests,         \* slots for requests
  Passwords,        \* passwords ChangePassword accepts
  AccessTTL,        \* AccessTokenTTL
  RefreshTTL,       \* RefreshTokenTTL
  MaxTime,          \* bound of the clock
  MaxSessions       \* bound: logins over a behaviour

ASSUME AuthAssumption ==
  /\ AccessTTL \in Nat \ {0} /\ RefreshTTL \in Nat \ {0}
  /\ MaxTime \in Nat /\ MaxSessions \in Nat

VARIABLES
  users,            \* table users
  sessions,         \* table sessions
  access,           \* access tokens
  now,              \* Service.now
  calls             \* the request in each slot

authVars == <<users, sessions, access, now, calls>>

None == "none"

Idle ==
  [pc |-> "idle", password |-> None, session |-> 0, expires |-> 0, since |-> 0, raced |-> FALSE]

AllIdle == [r \in Requests |-> Idle]

AuthInit(accounts) ==
  /\ users = accounts
  /\ sessions = << >>
  /\ access = {}
  /\ now = 1
  /\ calls = AllIdle

\* SignAccessToken.  The token names the account; the session it was issued from
\* is noted for the properties.
AccessToken(session, expires, secret, raced, alive) ==
  [session |-> session, expires |-> expires, secret |-> secret, raced |-> raced, alive |-> alive]

\* VerifyAccessToken: the signature and the expiry.
VerifyAccessToken(token, secret, time) == token.secret = secret /\ token.expires > time

Tick == now < MaxTime /\ now' = now + 1 /\ UNCHANGED <<users, sessions, access, calls>>

-----------------------------------------------------------------------------
(* NewService and BootstrapAdmin.                                          *)

\* NewService refuses a blank name, password or token secret.
Configured(config) == config.name # None /\ config.password # None /\ config.secret # None

AdminMissingBug(accounts) == TRUE

\* SELECT COUNT(*) FROM users
AdminMissing(accounts) == accounts = {}

\* Names are unique: the statement fails when the account is there already.
CreateAdmin(config) ==
  /\ config.name \notin {user.name : user \in users}
  /\ users' = users \cup {[name |-> config.name, password |-> config.password]}
  /\ UNCHANGED <<sessions, access, now, calls>>

-----------------------------------------------------------------------------
(* Login: read the account, compare the password, insert a session.        *)

\* The comparison takes its time, but it works on the hash that was read.
LoginFind(r) ==
  \E user \in users :
    /\ calls[r] = Idle
    /\ calls' = [calls EXCEPT ![r] =
                  [Idle EXCEPT !.pc = "loginInsert", !.password = user.password, !.since = now]]
    /\ UNCHANGED <<users, sessions, access, now>>

\* The clock is read after the comparison.  A web login has a session too, whose
\* refresh token is thrown away.
LoginInsert(r, secret) ==
  /\ calls[r].pc = "loginInsert"
  /\ Len(sessions) < MaxSessions
  /\ \E time \in calls[r].since..now :
       /\ sessions' = Append(sessions,
            [password |-> calls[r].password, raced |-> calls[r].raced,
             expires |-> time + RefreshTTL, revoked |-> FALSE])
       /\ access' = access \cup
            {AccessToken(Len(sessions) + 1, time + AccessTTL, secret, FALSE, TRUE)}
  /\ calls' = [calls EXCEPT ![r] = Idle]
  /\ UNCHANGED <<users, now>>

-----------------------------------------------------------------------------
(* Revocation.                                                             *)

RevokedBug(rows, which) == rows

\* UPDATE sessions SET revoked_at = ? WHERE ... AND revoked_at IS NULL
Revoked(rows, which) ==
  [s \in DOMAIN rows |-> IF s \in which THEN [rows[s] EXCEPT !.revoked = TRUE] ELSE rows[s]]

\* Requests that have read what the revocation changes.
Overtaken(pending, which) ==
  [r \in Requests |->
    IF pending[r].pc = "refreshSign" /\ pending[r].session \in which
    THEN [pending[r] EXCEPT !.raced = TRUE] ELSE pending[r]]

OvertakenLogins(pending) ==
  [r \in Requests |->
    IF pending[r].pc = "loginInsert" THEN [pending[r] EXCEPT !.raced = TRUE] ELSE pending[r]]

\* One statement.
Logout(s) ==
  /\ s \in DOMAIN sessions
  /\ sessions' = Revoked(sessions, {s})
  /\ calls' = Overtaken(calls, {s})
  /\ UNCHANGED <<users, access, now>>

-----------------------------------------------------------------------------
(* Refresh: read the session and its account, sign an access token.        *)

MayRefreshBug(session) == TRUE

MayRefresh(session) == ~session.revoked

RefreshFind(r) ==
  \E s \in DOMAIN sessions :
    /\ calls[r] = Idle
    /\ MayRefresh(sessions[s])
    /\ calls' = [calls EXCEPT ![r] =
                  [Idle EXCEPT !.pc = "refreshSign", !.session = s, !.expires = sessions[s].expires]]
    /\ UNCHANGED <<users, sessions, access, now>>

\* time.After
Unexpired(expires, time) == expires > time

RefreshSign(r, secret) ==
  /\ calls[r].pc = "refreshSign"
  /\ access' = IF Unexpired(calls[r].expires, now)
               THEN access \cup {AccessToken(calls[r].session, now + AccessTTL, secret, calls[r].raced,
                                            ~sessions[calls[r].session].revoked)}
               ELSE access
  /\ calls' = [calls EXCEPT ![r] = Idle]
  /\ UNCHANGED <<users, sessions, now>>

-----------------------------------------------------------------------------
(* VerifyBearer and the page that changes the password.                    *)

\* The token and the account, and not the session.
VerifyBearer(token, secret) == VerifyAccessToken(token, secret, now) /\ users # {}

ChangeEnter(r, secret) ==
  \E token \in access :
    /\ calls[r] = Idle
    /\ VerifyBearer(token, secret)
    /\ calls' = [calls EXCEPT ![r] = [Idle EXCEPT !.pc = "changeFind"]]
    /\ UNCHANGED <<users, sessions, access, now>>

\* Reads the hash and compares the current password with it.
ChangeFind(r) ==
  \E chosen \in Passwords :
    /\ calls[r].pc = "changeFind"
    /\ calls' = [calls EXCEPT ![r] =
                  [Idle EXCEPT !.pc = "changeCommit", !.password = chosen]]
    /\ UNCHANGED <<users, sessions, access, now>>

\* The transaction: the new hash, and every session revoked.
ChangeCommit(r) ==
  /\ calls[r].pc = "changeCommit"
  /\ users' = {[user EXCEPT !.password = calls[r].password] : user \in users}
  /\ sessions' = Revoked(sessions, DOMAIN sessions)
  /\ calls' = [OvertakenLogins(Overtaken(calls, DOMAIN sessions)) EXCEPT ![r] = Idle]
  /\ UNCHANGED <<access, now>>

-----------------------------------------------------------------------------

\* A password is wrong, a statement fails or the client is lost: the handler
\* returns.
AbandonCall(r) ==
  /\ calls[r] # Idle
  /\ calls' = [calls EXCEPT ![r] = Idle]
  /\ UNCHANGED <<users, sessions, access, now>>

Call(r, secret) ==
  \/ LoginFind(r) \/ LoginInsert(r, secret)
  \/ RefreshFind(r) \/ RefreshSign(r, secret)
  \/ ChangeEnter(r, secret) \/ ChangeFind(r) \/ ChangeCommit(r)
  \/ AbandonCall(r)
=============================================================================
