---------------------------- MODULE DatabaseConnection ----------------------------
(***************************************************************************)
(* The one connection to the database (DBFunc.c): databaseExecSQL,         *)
(* databaseConnect and databaseDisconnect, one step for every ODBC call    *)
(* that another user of the connection can come before.  The handles are   *)
(* global and no lock is taken: main runs queries, and so does the thread  *)
(* that answers the clients.  A handle is named by the user who allocated  *)
(* it; the next handle of that user takes the place of one that was lost.  *)
(* The module implements DatabaseQuery.                                    *)
(***************************************************************************)
EXTENDS Naturals

CONSTANTS
  Callers,     \* threads that run queries
  MaxDbFails   \* bound of the model: ODBC calls that fail by themselves

ASSUME DatabaseAssumption == "none" \notin Callers /\ MaxDbFails \in Nat

VARIABLES
  db,    \* the globals: ConnectionStatus and the three handles
  odbc,  \* the driver manager: environments, connections, open ones and statements
  call,  \* the query of each user: where it is, and its result
  past   \* history: calls that failed, two queries at a time, a disconnection cut short
connectionVars == <<db, odbc, call, past>>

Nobody == "none"
Owner == Callers \cup {Nobody}
Statement == [by : Callers, on : Callers, holds : Owner]
Call == [pc : {"idle", "begin", "env", "dbc", "open", "stmt", "exec", "count", "fetch",
               "disconnect", "free", "back"},
         counts : BOOLEAN, fault : BOOLEAN, result : {"none", "ok", "wrong", "zero", "failed"}]
NoCall == [pc |-> "idle", counts |-> FALSE, fault |-> FALSE, result |-> "none"]

\* Variables keep to their types.
ConnectionTypeOK ==
  /\ db \in [status : BOOLEAN, env : Owner, dbc : Owner, stmt : Owner]
  /\ odbc \in [env : SUBSET Callers, dbc : SUBSET Callers, open : SUBSET Callers,
               stmt : SUBSET Statement]
  /\ odbc.open \subseteq odbc.dbc
  /\ call \in [Callers -> Call]
  /\ past \in [fails : 0..MaxDbFails, overlapped : BOOLEAN, halfClosed : BOOLEAN]

ConnectionInit ==
  /\ db = [status |-> FALSE, env |-> Nobody, dbc |-> Nobody, stmt |-> Nobody]
  /\ odbc = [env |-> {}, dbc |-> {}, open |-> {}, stmt |-> {}]
  /\ call = [u \in Callers |-> NoCall]
  /\ past = [fails |-> 0, overlapped |-> FALSE, halfClosed |-> FALSE]

-----------------------------------------------------------------------------------
At(u, pc) == call[u].pc = pc

\* An ODBC call succeeds, or fails because of what it is given or by itself, and the query
\* goes on at next or goes back to its caller with a result.
Succeeds(misused) == ~misused /\ UNCHANGED past
Fails(misused) ==
  IF misused THEN UNCHANGED past
  ELSE past.fails < MaxDbFails /\ past' = [past EXCEPT !.fails = @ + 1]
To(u, next) == call' = [call EXCEPT ![u].pc = next]
FailsTo(u, misused, next) ==
  Fails(misused) /\ call' = [call EXCEPT ![u].pc = next, ![u].fault = @ \/ ~misused]
Back(u, r) == call' = [call EXCEPT ![u].pc = "back", ![u].result = r]
FailsBack(u, misused) ==
  /\ Fails(misused)
  /\ call' = [call EXCEPT ![u].pc = "back", ![u].fault = @ \/ ~misused, ![u].result = "failed"]

\* The statement that the global handle names.
Current == {x \in odbc.stmt : x.by = db.stmt}
FreeStatement == odbc' = [odbc EXCEPT !.stmt = @ \ Current]

\* A query is begun and its result taken; counts: a count is selected, which has one row.
Begin(u) ==
  /\ At(u, "idle")
  /\ \E counts \in BOOLEAN :
       call' = [call EXCEPT ![u] = [NoCall EXCEPT !.pc = "begin", !.counts = counts]]
  /\ past' = [past EXCEPT !.overlapped = @ \/ \E w \in Callers : call[w].pc \notin {"idle", "back"}]
  /\ UNCHANGED <<db, odbc>>
End(u) == At(u, "back") /\ call' = [call EXCEPT ![u] = NoCall] /\ UNCHANGED <<db, odbc, past>>

-----------------------------------------------------------------------------------
\* databaseExecSQL looks at ConnectionStatus, and databaseConnect looks again.
LookAtStatus(u) ==
  /\ At(u, "begin")
  /\ To(u, IF db.status THEN "stmt" ELSE "env")
  /\ UNCHANGED <<db, odbc, past>>

AllocEnvironment(u) ==
  /\ At(u, "env")
  /\ \/ db.status /\ To(u, "stmt") /\ UNCHANGED <<db, odbc, past>>
     \/ /\ ~db.status /\ Succeeds(FALSE)
        /\ db' = [db EXCEPT !.env = u] /\ odbc' = [odbc EXCEPT !.env = @ \cup {u}]
        /\ To(u, "dbc")
     \/ ~db.status /\ FailsBack(u, FALSE) /\ UNCHANGED <<db, odbc>>

AllocConnection(u) ==
  /\ At(u, "dbc")
  /\ LET misused == db.env \notin odbc.env
     IN \/ /\ Succeeds(misused)
           /\ db' = [db EXCEPT !.dbc = u] /\ odbc' = [odbc EXCEPT !.dbc = @ \cup {u}, !.open = @ \ {u}]
           /\ To(u, "open")
        \/ /\ FailsBack(u, misused)
           /\ odbc' = [odbc EXCEPT !.env = @ \ {db.env}]
           /\ UNCHANGED db

Connect(u) ==
  /\ At(u, "open")
  /\ LET misused == db.dbc \notin odbc.dbc \/ db.dbc \in odbc.open
     IN \/ /\ Succeeds(misused)
           /\ odbc' = [odbc EXCEPT !.open = @ \cup {db.dbc}]
           /\ db' = [db EXCEPT !.status = TRUE]
           /\ To(u, "stmt")
        \/ /\ FailsBack(u, misused)
           /\ odbc' = [odbc EXCEPT !.dbc = @ \ ({db.dbc} \ odbc.open), !.env = @ \ {db.env}]
           /\ UNCHANGED db

AllocStatement(u) ==
  /\ At(u, "stmt")
  /\ LET misused == db.dbc \notin odbc.open
     IN \/ /\ Succeeds(misused)
           /\ db' = [db EXCEPT !.stmt = u]
           /\ odbc' = [odbc EXCEPT !.stmt =
                {x \in @ : x.by # u} \cup {[by |-> u, on |-> db.dbc, holds |-> Nobody]}]
           /\ To(u, "exec")
        \/ FailsTo(u, misused, "disconnect") /\ UNCHANGED <<db, odbc>>

\* A statement whose result is not fetched yet executes nothing else.
ExecDirect(u) ==
  /\ At(u, "exec")
  /\ LET misused == \A x \in Current : x.holds # Nobody
     IN \/ /\ Succeeds(misused)
           /\ odbc' = [odbc EXCEPT !.stmt = (@ \ Current) \cup {[x EXCEPT !.holds = u] : x \in Current}]
           /\ To(u, "count")
        \/ FailsTo(u, misused, "disconnect") /\ UNCHANGED odbc
  /\ UNCHANGED db

Unusable == \A x \in Current : x.holds = Nobody
CountRows(u) ==
  /\ At(u, "count")
  /\ \/ Succeeds(Unusable) /\ To(u, "fetch") /\ UNCHANGED odbc
     \/ /\ Succeeds(Unusable) /\ (call[u].counts => \A x \in Current : x.holds # u)
        /\ FreeStatement /\ Back(u, "zero")
     \/ FailsTo(u, Unusable, "disconnect") /\ UNCHANGED odbc
  /\ UNCHANGED db

\* Mutant: the statement is freed when all rows are fetched, not when that fails.
FetchLeaks(u) ==
  /\ At(u, "fetch")
  /\ \/ /\ Succeeds(Unusable) /\ FreeStatement
        /\ Back(u, IF \A x \in Current : x.holds = u THEN "ok" ELSE "wrong")
     \/ FailsBack(u, Unusable) /\ UNCHANGED odbc
  /\ UNCHANGED db

Fetch(u) ==
  /\ At(u, "fetch")
  /\ FreeStatement
  /\ \/ Succeeds(Unusable) /\ Back(u, IF \A x \in Current : x.holds = u THEN "ok" ELSE "wrong")
     \/ FailsBack(u, Unusable)
  /\ UNCHANGED db

\* databaseDisconnect: closing the connection frees its statements; when one of the calls
\* fails, ConnectionStatus stays CONNECTED.
Disconnect(u) ==
  /\ At(u, "disconnect")
  /\ LET misused == db.dbc \notin odbc.open
     IN \/ ~db.status /\ Back(u, "failed") /\ UNCHANGED <<odbc, past>>
        \/ /\ db.status /\ Succeeds(misused)
           /\ odbc' = [odbc EXCEPT !.open = @ \ {db.dbc}, !.stmt = {x \in @ : x.on # db.dbc}]
           /\ To(u, "free")
        \/ /\ db.status /\ (misused \/ past.fails < MaxDbFails)
           /\ past' = [past EXCEPT !.halfClosed = TRUE, !.fails = IF misused THEN @ ELSE @ + 1]
           /\ Back(u, "failed") /\ UNCHANGED odbc
  /\ UNCHANGED db

\* Mutant: ConnectionStatus is not set back.
FreesOnly(u) ==
  /\ At(u, "free") /\ Back(u, "failed")
  /\ \/ /\ odbc' = [odbc EXCEPT !.dbc = @ \ ({db.dbc} \ odbc.open), !.env = @ \ {db.env}]
        /\ UNCHANGED <<db, past>>
     \/ /\ past.fails < MaxDbFails
        /\ past' = [past EXCEPT !.halfClosed = TRUE, !.fails = @ + 1]
        /\ UNCHANGED <<db, odbc>>

FreeHandles(u) ==
  /\ At(u, "free") /\ Back(u, "failed")
  /\ \/ /\ odbc' = [odbc EXCEPT !.dbc = @ \ ({db.dbc} \ odbc.open), !.env = @ \ {db.env}]
        /\ db' = [db EXCEPT !.status = FALSE]
        /\ UNCHANGED past
     \/ /\ past.fails < MaxDbFails
        /\ past' = [past EXCEPT !.halfClosed = TRUE, !.fails = @ + 1]
        /\ UNCHANGED <<db, odbc>>

ExecSQL(u) ==
  \/ LookAtStatus(u) \/ AllocEnvironment(u) \/ AllocConnection(u) \/ Connect(u)
  \/ AllocStatement(u) \/ ExecDirect(u) \/ CountRows(u) \/ Fetch(u)
  \/ Disconnect(u) \/ FreeHandles(u)

ConnectionNext == \E u \in Callers : Begin(u) \/ ExecSQL(u) \/ End(u)
ConnectionSpec == ConnectionInit /\ [][ConnectionNext]_connectionVars

-----------------------------------------------------------------------------------
\* Whatever failed before, between two queries ConnectionStatus tells the truth and no
\* handle is left over, so that the next query can be served, as long as queries did not
\* overlap and databaseDisconnect was not cut short: every way out of databaseExecSQL
\* (DBFunc.c:1314-1490), of databaseConnect and of databaseDisconnect gives back what it took.
ConnectionHonest ==
  (\A u \in Callers : call[u].pc \in {"idle", "back"}) /\ ~past.overlapped /\ ~past.halfClosed =>
    /\ odbc.stmt = {}
    /\ IF db.status THEN /\ odbc.open = {db.dbc} /\ odbc.dbc = {db.dbc}
                         /\ odbc.env = {db.env}
       ELSE odbc.env = {} /\ odbc.dbc = {}

\* The types, and that the connection is fit for the next query.
ConnectionInv == ConnectionTypeOK /\ ConnectionHonest

\* A query gives its own rows, or none when there are none, or fails, and then because a
\* call of the driver failed while it ran or a disconnection had been cut short
\* (DBFunc.c:1314-1490), as long as two queries did not overlap: a connection that failed
\* once is made anew by the next query.
Promise == INSTANCE DatabaseQuery WITH
  Users <- Callers,
  query <- [u \in Callers |->
             [pc |-> IF call[u].pc \in {"idle", "back"} THEN call[u].pc ELSE "running",
              counts |-> call[u].counts, fault |-> call[u].fault, result |-> call[u].result]],
  trouble <- [overlapped |-> past.overlapped, broken |-> past.halfClosed]

\* Seen like that, databaseExecSQL and what it calls implement DatabaseQuery.
KeepsPromise == Promise!QuerySpec
=============================================================================
