--------------------------- MODULE PoolProperties ---------------------------
(***************************************************************************)
(* Nobody waits for ever, and strangers get nothing.                       *)
(***************************************************************************)
EXTENDS Pool

Waits == {"verify", "account", "read", "write", "rows", "begin", "lock"}

\* With one connection, a statement outside the rows or the transaction that
\* hold it would wait for its own request.  So would everybody else, if a holder
\* of the connection waited for publishMu, whose holder needs the connection.
HolderNeverWaits ==
  \A s \in Slots :
    connection = s => Ready(s) /\ NextStep(s) \notin Waits

\* A request that has ended, early or not, holds neither the connection nor the
\* lock: one that kept the connection would be the last the server answers.
EndedHoldNothing ==
  \A s \in Slots : todo[s] = << >> => connection # s /\ publishMu # s

\* Only a request whose user was verified reads, writes, or touches a file; the
\* exceptions are the statements of signing in and out.
NothingWithoutUser ==
  \A s \in Slots :
    Ready(s) /\ ~user[s] => NextStep(s) \in {"verify", "account"}

\* Every request is answered, however many others come.
EveryRequestEnds == \A s \in Slots : Ready(s) ~> ~Ready(s)
=============================================================================
