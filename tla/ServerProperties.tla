-------------------------- MODULE ServerProperties --------------------------
(***************************************************************************)
(* What restarts, upgrades and password changes must not break.            *)
(***************************************************************************)
EXTENDS Server

\* The tables of the database are those of the versions it has on record, with
\* no gap, whenever a start was cut short; and the server answers requests on
\* the newest schema only.
SchemaIsRecorded ==
  /\ db.schema = db.recorded
  /\ \E version \in 0..5 : db.recorded = 1..version
  /\ phase = "serving" => db.recorded = Versions

\* Every book has one original revision, also those from before there were
\* revisions, and the book's own revision is not empty.
BooksHaveOneOriginal ==
  4 \in db.recorded =>
    \A book \in db.books :
      /\ book.revision # NoText
      /\ Cardinality({original \in db.originals : original.book = book.id}) = 1
      /\ \A original \in db.originals :
           original.book = book.id => original.revision = book.revision

\* Every time that statements compare or order by is in the fixed layout, so
\* that the order of the texts is the order of the instants.
StoredTimesAreFixed ==
  3 \in db.recorded =>
    /\ \A stamp \in db.stamps : stamp.text.layout = "fixed"
    /\ \A book \in db.books : book.revision.layout = "fixed"
    /\ \A original \in db.originals : original.created.layout = "fixed"

MigratedData == BooksHaveOneOriginal /\ StoredTimesAreFixed

\* TestChangePassword: neither the old password nor a refresh token from before
\* the change is good for anything.  A session that is not revoked was opened
\* with the password the account has now - unless its login had read the old
\* hash before the change and inserted the session after it.
OldPasswordsOpenNothing ==
  \A s \in DOMAIN sessions :
    ~sessions[s].revoked /\ ~sessions[s].raced =>
      \A user \in users : user.password = sessions[s].password

\* No access token is issued from a session that has expired or whose revocation
\* is committed: so access ends AccessTTL after the commit at the latest.  A refresh that had read its session before is the one exception.
AccessEndsWithSession ==
  \A token \in access :
    /\ token.expires - AccessTTL < sessions[token.session].expires
    /\ token.expires - AccessTTL <= now
    /\ token.alive \/ token.raced

\* Stopping, upgrading and starting with another configuration never adds an
\* account, never brings an initial password back and never ends a session.
KeepsAccounts ==
  phase # "serving" \/ phase' # "serving" =>
    /\ users # {} => users' = users
    /\ Cardinality(users') <= 1
    /\ sessions' = sessions

RestartKeepsAccounts == [][KeepsAccounts]_vars
=============================================================================
