-------------------------------- MODULE Sqlite --------------------------------
(***************************************************************************)
(* examples/sqlite: run against an in-memory database behind a pool of one *)
(* connection.  A statement takes the connection for its duration, a query *)
(* of several rows until they are closed, a transaction until it ends, and *)
(* whoever finds it taken waits for it.                                    *)
(***************************************************************************)
EXTENDS Integers

CONSTANTS
  Books,      \* how many books insertBooks inserts (3 in the code)
  Matching    \* how many of them queryBooks finds (2 in the code)

VARIABLES
  sqlite,     \* where run is: "idle", ..., "returned" or "failed"
  conn,       \* who has the connection: "none", "rows" or "tx"
  books,      \* rows committed
  pending,    \* rows inserted in the open transaction
  position,   \* of the loop of insertBooks and of queryBooks
  counted     \* what the last SELECT COUNT(*) returned

tables == <<books, pending>>
vars   == <<sqlite, conn, tables, position, counted>>

Over == {"idle", "returned", "failed"}

Init ==
  /\ sqlite = "idle" /\ conn = "none"
  /\ books = 0 /\ pending = 0 /\ position = 0 /\ counted = 0

Start ==
  /\ sqlite = "idle" /\ sqlite' = "schema"
  /\ UNCHANGED <<conn, tables, position, counted>>

\* Any statement may fail, and ctx ends after ten seconds, a wait for the
\* connection included: an open transaction is rolled back and db closed.
Fail ==
  /\ sqlite \notin Over /\ sqlite' = "failed"
  /\ conn' = "none" /\ pending' = 0
  /\ UNCHANGED <<books, position, counted>>

Goto(from, to) == sqlite = from /\ sqlite' = to

\* A statement outside a transaction.
Statement(from, to) == conn = "none" /\ Goto(from, to) /\ UNCHANGED <<conn, pending>>

createSchema ==
  /\ Statement("schema", "insert")
  /\ books' = 0
  /\ UNCHANGED <<position, counted>>

insertBooks ==
  /\ Statement("insert", IF position + 1 < Books THEN "insert" ELSE "query")
  /\ books' = books + 1 /\ position' = (position + 1) % Books
  /\ UNCHANGED counted

queryBooks ==
  /\ conn = "none" /\ Goto("query", "rows") /\ conn' = "rows"
  /\ UNCHANGED <<tables, position, counted>>

RowsNext ==
  /\ sqlite = "rows" /\ position < Matching /\ position' = position + 1
  /\ UNCHANGED <<sqlite, conn, tables, counted>>

RowsLeftOpen ==   \* mutant: a return without rows.Close
  /\ position = Matching /\ Goto("rows", "single")
  /\ UNCHANGED <<conn, tables, position, counted>>

\* rows.Err, the return and the deferred rows.Close.
RowsClose ==
  /\ position = Matching /\ Goto("rows", "single")
  /\ conn' = "none"
  /\ UNCHANGED <<tables, position, counted>>

\* Its two queries; the second one's sql.ErrNoRows is no failure.
querySingleBook ==
  /\ \/ Statement("single", "noRows") \/ Statement("noRows", "begin")
  /\ UNCHANGED <<books, position, counted>>

\* transactions: a first one that commits and a second one that does not.
BeginTx ==
  /\ conn = "none" /\ conn' = "tx"
  /\ Goto("begin", "inserting") \/ Goto("beginAgain", "drafting")
  /\ UNCHANGED <<tables, position, counted>>

InsertInTx ==
  /\ conn = "tx" /\ pending' = pending + 1
  /\ Goto("inserting", "commit") \/ Goto("drafting", "rollback")
  /\ UNCHANGED <<conn, books, position, counted>>

Commit ==
  /\ Goto("commit", "beginAgain")
  /\ books' = books + pending /\ pending' = 0 /\ conn' = "none"
  /\ UNCHANGED <<position, counted>>

RollbackCommits ==   \* mutant: Commit in the second transaction, too
  /\ Goto("rollback", "count")
  /\ books' = books + pending /\ pending' = 0 /\ conn' = "none"
  /\ UNCHANGED <<position, counted>>

Rollback ==
  /\ Goto("rollback", "count")
  /\ pending' = 0 /\ conn' = "none"
  /\ UNCHANGED <<books, position, counted>>

Count ==
  /\ Statement("count", "returned") /\ counted' = books
  /\ UNCHANGED <<books, position>>

-----------------------------------------------------------------------------
Step == \/ createSchema \/ insertBooks \/ queryBooks \/ RowsNext \/ RowsClose \/ querySingleBook
        \/ BeginTx \/ InsertInTx \/ Commit \/ Rollback \/ Count

Next == Start \/ Step \/ Fail

Fairness == WF_vars(Step)

Spec == Init /\ [][Next]_vars /\ Fairness

-----------------------------------------------------------------------------
\* What is counted in the end are the books inserted and that of the committed
\* transaction; the draft of the other one has left nothing.
CountFits == sqlite = "returned" => counted = Books + 1 /\ books = counted /\ conn = "none"

\* run never waits for a connection that it has itself: it ends, though
\* nothing makes its context end.
Ends == <>[](sqlite \in Over)
=============================================================================
