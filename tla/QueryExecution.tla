---------------------------- MODULE QueryExecution ---------------------------
(***************************************************************************)
(* The transport of the query execution service                            *)
(* (application/query-execution-service.ts): what one request can come to, *)
(* how often the server may have run its statement by then, and when a     *)
(* statement of a script is sent again.                                    *)
(***************************************************************************)
EXTENDS Naturals

\* What the run does with a statement: read rows, change data, change the schema.
Statement == {"rows", "effect", "schema"}

\* isRowReturning
RowReturning(stmt) == stmt = "rows"

\* isSchemaMutatingSql
SchemaMutating(stmt) == stmt = "schema"

\* How an attempt settles: a complete answer; an exception of ClickHouse; its
\* SESSION_IS_LOCKED; a failed fetch (TypeError); an AbortError.
Outcome == {"ok", "exception", "locked", "lost", "aborted"}

\* The outcomes of an attempt.  A fetch under an aborted signal is never sent; one that
\* is aborted later may have been answered just before.
Outcomes(sent, aborted) ==
  IF ~sent THEN {"aborted"}
  ELSE IF aborted THEN Outcome ELSE Outcome \ {"aborted"}

\* How many times an attempt that settled so has run its statement.  A session that is
\* locked rejects the statement before it runs; of other failures it is not known.
Executions(sent, outcome) ==
  CASE ~sent \/ outcome = "locked" -> {0}
    [] sent /\ outcome = "ok" -> {1}
    [] OTHER -> {0, 1}

\* A connection that is reset may be retried whatever the statement does.
Retries_Anything(stmt, outcome, attempt) ==
  attempt = 1 /\ outcome \in {"locked", "lost"}

\* The retry of executeScript: only where it is safe, and once.
Retries(stmt, outcome, attempt) ==
  /\ attempt = 1
  /\ \/ outcome = "locked"
     \/ outcome = "lost" /\ RowReturning(stmt)

=============================================================================
