------------------------------- MODULE DatabaseQuery -------------------------------
(***************************************************************************)
(* What databaseExecSQL (DBFunc.c) promises to the threads that call it,   *)
(* as if each had a connection of its own: a query returns its own rows,   *)
(* says that there are none, or fails, and it fails only because a call of *)
(* the driver failed while it ran, or because the connection was broken by *)
(* an earlier disconnection that failed.  Nothing is promised once queries *)
(* overlapped.  DatabaseConnection implements this module.                 *)
(***************************************************************************)
CONSTANT Users  \* threads that run queries

VARIABLES
  query,   \* the query of each user: where it is, what it selects and its result
  trouble  \* two queries ran at a time; a disconnection failed
queryVars == <<query, trouble>>

NoQuery == [pc |-> "idle", counts |-> FALSE, fault |-> FALSE, result |-> "none"]
QueryTypeOK ==
  /\ query \in [Users -> [pc : {"idle", "running", "back"}, counts : BOOLEAN, fault : BOOLEAN,
                          result : {"none", "ok", "wrong", "zero", "failed"}]]
  /\ trouble \in [overlapped : BOOLEAN, broken : BOOLEAN]

QueryInit ==
  /\ query = [u \in Users |-> NoQuery]
  /\ trouble = [overlapped |-> FALSE, broken |-> FALSE]
QueryLost ==
  /\ query' = [u \in Users |-> NoQuery]
  /\ trouble' = [overlapped |-> FALSE, broken |-> FALSE]

Running(u) == query[u].pc = "running"

\* counts: the query selects a count, which always has one row.
QueryBegins(u, counts) ==
  /\ query[u].pc = "idle"
  /\ query' = [query EXCEPT ![u] = [NoQuery EXCEPT !.pc = "running", !.counts = counts]]
  /\ trouble' = [trouble EXCEPT !.overlapped = @ \/ \E w \in Users : Running(w)]

\* A call of the driver fails while the query goes on, perhaps the one that disconnects.
QueryFaults(u) ==
  /\ Running(u)
  /\ query' = [query EXCEPT ![u].fault = TRUE]
  /\ trouble' \in {trouble, [trouble EXCEPT !.broken = TRUE]}

\* What a query may give, when a call of the driver failed (fault) or none did.
May(u, r, fault) ==
  \/ trouble.overlapped
  \/ CASE r = "zero" -> ~query[u].counts
       [] r = "wrong" -> FALSE
       [] r = "failed" -> fault \/ trouble.broken
       [] OTHER -> TRUE

QueryReturns(u) ==
  /\ Running(u)
  /\ \E fault \in {query[u].fault, TRUE}, r \in {"ok", "wrong", "zero", "failed"} :
       /\ May(u, r, fault)
       /\ query' = [query EXCEPT ![u].pc = "back", ![u].fault = fault, ![u].result = r]
       /\ \/ UNCHANGED trouble
          \/ (fault \/ trouble.overlapped) /\ trouble' = [trouble EXCEPT !.broken = TRUE]

\* The caller goes on with the result.
Taken(u) == query[u].pc = "back" /\ query' = [query EXCEPT ![u] = NoQuery] /\ UNCHANGED trouble

\* QueryReturns and Taken in one step, for a caller's module: nobody else looks at the
\* result.  A call may have failed in any query, so that broken makes no difference.
QueryGives(u, r) ==
  Running(u) /\ May(u, r, TRUE) /\ query' = [query EXCEPT ![u] = NoQuery] /\ UNCHANGED trouble

\* A step of the rest of the program.
Unqueried == UNCHANGED queryVars

QueryNext ==
  \/ Unqueried
  \/ \E u \in Users :
       \/ \E counts \in BOOLEAN : QueryBegins(u, counts)
       \/ QueryFaults(u) \/ QueryReturns(u)
       \/ Taken(u)
QuerySpec == QueryInit /\ [][QueryNext]_queryVars
===============================================================================
