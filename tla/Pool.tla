-------------------------------- MODULE Pool --------------------------------
(***************************************************************************)
(* Requests and what they wait for: the pool of one connection that        *)
(* SetMaxOpenConns(1) makes of sql.DB, and publishMu.  Requests come for   *)
(* ever; nothing is bounded but the number of those that run at a time and *)
(* the rows a loop goes over.                                              *)
(***************************************************************************)
EXTENDS Handlers

CONSTANTS
  Slots             \* requests that run at a time

VARIABLES
  connection,       \* the request that holds the connection, Nobody if it is idle
  publishMu,        \* the request that holds the lock
  todo,             \* the steps each request has before it
  user              \* whether VerifyBearer has let the request pass

vars == <<connection, publishMu, todo, user>>

CONSTANT Nobody
ASSUME PoolAssumption == Nobody \notin Slots

Init ==
  /\ connection = Nobody /\ publishMu = Nobody
  /\ todo = [s \in Slots |-> << >>]
  /\ user = [s \in Slots |-> FALSE]

Accept(s) ==
  /\ todo[s] = << >>
  /\ \E program \in Programs : todo' = [todo EXCEPT ![s] = program]
  /\ user' = [user EXCEPT ![s] = FALSE]
  /\ UNCHANGED <<connection, publishMu>>

Ready(s) == todo[s] # << >>
NextStep(s) == Head(todo[s])
Continue(s) == todo' = [todo EXCEPT ![s] = Tail(@)]

\* A statement by itself.
Statement(s) ==
  /\ Ready(s) /\ NextStep(s) \in {"account", "read", "write"}
  /\ connection = Nobody
  /\ Continue(s)
  /\ UNCHANGED <<connection, publishMu, user>>

\* VerifyBearer, which also fails: the handler replies and returns.
Verify(s) ==
  /\ Ready(s) /\ NextStep(s) = "verify"
  /\ connection = Nobody
  /\ \/ Continue(s) /\ user' = [user EXCEPT ![s] = TRUE]
     \/ todo' = [todo EXCEPT ![s] = << >>] /\ UNCHANGED user
  /\ UNCHANGED <<connection, publishMu>>

\* QueryContext and BeginTx keep the connection they are given.
Take(s) ==
  /\ Ready(s) /\ NextStep(s) \in {"rows", "begin"}
  /\ connection = Nobody
  /\ connection' = s
  /\ Continue(s)
  /\ UNCHANGED <<publishMu, user>>

Release(s) ==
  /\ Ready(s) /\ NextStep(s) \in {"close", "commit", "rollback"}
  /\ connection' = IF connection = s THEN Nobody ELSE connection
  /\ Continue(s)
  /\ UNCHANGED <<publishMu, user>>

Lock(s) ==
  /\ Ready(s) /\ NextStep(s) = "lock"
  /\ publishMu = Nobody
  /\ publishMu' = s
  /\ Continue(s)
  /\ UNCHANGED <<connection, user>>

Unlock(s) ==
  /\ Ready(s) /\ NextStep(s) = "unlock"
  /\ publishMu' = Nobody
  /\ Continue(s)
  /\ UNCHANGED <<connection, user>>

\* Needs nothing but what the request has.
Work(s) ==
  /\ Ready(s) /\ NextStep(s) \in {"exec", "file"}
  /\ Continue(s)
  /\ UNCHANGED <<connection, publishMu, user>>

DeferredBug(holdsConnection, holdsLock) == IF holdsLock THEN <<"unlock">> ELSE << >>

\* What the deferred calls do, and the calls of Close on error paths.
Deferred(holdsConnection, holdsLock) ==
  (IF holdsConnection THEN <<"rollback">> ELSE << >>) \o (IF holdsLock THEN <<"unlock">> ELSE << >>)

\* An operation returns before its end: a statement fails, a check does not
\* hold, or the client is gone, which ends a wait for the connection too.  A
\* wait for publishMu is not ended.
Return(s) ==
  /\ Ready(s)
  /\ NextStep(s) \notin {"lock", "close", "rollback", "unlock"}
  /\ todo' = [todo EXCEPT ![s] = Deferred(connection = s, publishMu = s)]
  /\ UNCHANGED <<connection, publishMu, user>>

Advance(s) ==
  \/ Statement(s) \/ Verify(s) \/ Take(s) \/ Release(s)
  \/ Lock(s) \/ Unlock(s) \/ Work(s)

Next == \E s \in Slots : Accept(s) \/ Advance(s) \/ Return(s)

Spec == Init /\ [][Next]_vars

\* A request that can go on does.  sql.DB gives a connection that comes back to
\* one of the requests that wait for it, picked at random, and a mutex whose
\* waiters starve is handed over in order of arrival: a request that again and
\* again finds what it waits for free gets it at last.
FairSpec == Spec /\ \A s \in Slots : SF_vars(Advance(s))
=============================================================================
