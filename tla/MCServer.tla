------------------------------ MODULE MCServer ------------------------------
(***************************************************************************)
(* Databases of every age, two administrators' names and two passwords.    *)
(***************************************************************************)
EXTENDS ServerProperties, TLC

CONSTANTS r1, r2

MCRequests == {r1, r2}
MCPasswords == {"first", "second"}

MCConfigs ==
  {[name |-> "admin", password |-> "first", secret |-> "key"],
   [name |-> "owner", password |-> "second", secret |-> "key"],
   [name |-> "admin", password |-> "first", secret |-> None]}

Short(instant) == [layout |-> "short", at |-> instant]
Unreadable == [layout |-> "unreadable", at |-> 0]

\* A library with one book, as a build with the first n migrations leaves it.
Left(n, text) ==
  LET revision == IF n >= 3 THEN Fixed(0) ELSE NoText IN
  [recorded |-> 1..n, schema |-> 1..n,
   books |-> IF n = 0 THEN {} ELSE {[id |-> "old", revision |-> revision]},
   stamps |-> IF n = 0 THEN {}
              ELSE {Stamp("books.created_at", "old", text), Stamp("devices.last_seen_at", "device", text)},
   originals |-> IF n < 4 THEN {} ELSE {[book |-> "old", revision |-> revision, created |-> text]}]

MCLegacyDatabases ==
  {Left(0, NoText), Left(2, Short(0)), Left(2, Unreadable), Left(3, Fixed(0)), Left(4, Fixed(0))}

Slots == Permutations(MCRequests)
=============================================================================
