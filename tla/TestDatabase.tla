----------------------------- MODULE TestDatabase -----------------------------
(***************************************************************************)
(* The tables a test session uses, for one board (one finished good number *)
(* and boot MAC), and the functions of DBFunc.c on them.  A function is a  *)
(* script: the statements it executes one after the other.  The server     *)
(* knows no transactions: a crash between two statements leaves the first  *)
(* one done, and a statement that fails ends most functions.               *)
(***************************************************************************)
EXTENDS Integers, Sequences, FiniteSetsExt, SequencesExt

CONSTANTS
  Attempts,  \* the test attempts (revisions) of the finished good number
  Tests      \* [Attempts -> the rows of tests, TRUE where the sequence number has one]

ASSUME DatabaseAssumption ==
  /\ Attempts \subseteq Nat \ {0}
  /\ \A a \in Attempts : Tests[a] \in Seq(BOOLEAN) /\ Len(Tests[a]) > 0 /\ Last(Tests[a])

VARIABLES
  temp,     \* testingData: rows [planned, attempt, sequence, line]
  history,  \* Test History Query with TestExecutionData: printouts [number, version, lines, executions]
  info,     \* the attempts of the rows of boardinfo
  macs      \* the attempts of the rows of MACs
dbVars == <<temp, history, info, macs>>

DatabaseInit == temp = <<>> /\ history = <<>> /\ info = {} /\ macs = {}

-------------------------------------------------------------------------------
\* Statements.  Test data goes with the attempt less one, diagnostic data with the
\* attempt itself.
Clear == [op |-> "clear"]
RowFor(where, planned, attempt, sequence, line) ==
  [planned |-> planned, sequence |-> sequence, line |-> line,
   attempt |-> IF where = "diag" THEN attempt ELSE attempt - 1]

Insert(where, planned, attempt, sequence, lines) ==
  [k \in 1..Len(lines) |->
     [op |-> "insert", row |-> RowFor(where, planned, attempt, sequence, lines[k])]]

\* databaseInsertTemporaryTestData: all rows of the board go, then the lines come one
\* by one.
InsertTemporaryTestData(planned, attempt, sequence, testData, diagData) ==
  <<Clear>> \o Insert("test", planned, attempt, sequence, testData)
            \o Insert("diag", planned, attempt, sequence, diagData)

RemoveTemporaryTestData == <<Clear>>

DBUpdateBoardInfo(attempt) ==
  << [op |-> "clearInfo"], [op |-> "insertInfo", version |-> attempt - 1],
     [op |-> "clearMacs", version |-> attempt - 1], [op |-> "insertMac", version |-> attempt - 1] >>

\* databaseSaveTestPrintout, once the number of the printout is known: the first line
\* is inserted, the others are appended, then come the tests that were executed.
SaveTestPrintout(number, attempt, lines, executions) ==
  <<[op |-> "print", number |-> number, version |-> attempt - 1, line |-> Head(lines)]>>
  \o [k \in 1..Len(lines) - 1 |->
        [op |-> "append", number |-> number, version |-> attempt - 1, line |-> lines[k + 1]]]
  \o [k \in 1..executions |->
        [op |-> "execution", number |-> number, version |-> attempt - 1]]

\* Mutant: the number of the printout is left out of the condition.
OfVersion(p, s) == p.version = s.version
Of(p, s) == p.number = s.number /\ p.version = s.version

Executed(s) ==
  /\ temp' = CASE s.op = "clear"  -> <<>>
               [] s.op = "insert" -> Append(temp, s.row)
               [] OTHER -> temp
  /\ info' = CASE s.op = "clearInfo"  -> {}
               [] s.op = "insertInfo" -> info \cup {s.version}
               [] OTHER -> info
  /\ macs' = CASE s.op = "clearMacs" -> macs \ {s.version}
               [] s.op = "insertMac" -> macs \cup {s.version}
               [] OTHER -> macs
  /\ history' =
       CASE s.op = "print"     -> Append(history, [number |-> s.number, version |-> s.version,
                                                   lines |-> <<s.line>>, executions |-> 0])
         [] s.op = "append"    -> [k \in DOMAIN history |-> IF ~Of(history[k], s) THEN history[k]
                                     ELSE [history[k] EXCEPT !.lines = Append(@, s.line)]]
         [] s.op = "execution" -> [k \in DOMAIN history |-> IF ~Of(history[k], s) THEN history[k]
                                     ELSE [history[k] EXCEPT !.executions = @ + 1]]
         [] OTHER -> history

\* What is left to do after a statement: the result of the deletion from testingData is
\* not looked at, any other failure ends the function.
Rest(script, ok) == IF ok \/ Head(script) = Clear THEN Tail(script) ELSE <<>>

-------------------------------------------------------------------------------
\* Queries.

\* The elements of q at some of its places, in their order: the i-th is the one with i of
\* these places up to it.
AtPlaces(q, places) ==
  [i \in 1..Cardinality(places) |->
     q[CHOOSE k \in places : Cardinality({j \in places : j <= k}) = i]]

Kept(planned) == AtPlaces(temp, {k \in DOMAIN temp : temp[k].planned = planned})

\* getAttemptForSavedTestData: the attempt of the first row.
AttemptForSavedTestData(planned) ==
  IF Kept(planned) = <<>> THEN -1 ELSE Head(Kept(planned)).attempt

\* databaseGetTestData: isTestData is not used, so both kinds come.
TestData(planned) == [k \in DOMAIN Kept(planned) |-> Kept(planned)[k].line]

\* databaseGetSequenceForAttempt; -1 when no row has the attempt.
SequenceForAttempt(attempt) ==
  Max({-1} \cup {temp[k].sequence : k \in {n \in DOMAIN temp : temp[n].attempt = attempt}})

\* databaseGetBoardAttemptList: the attempts that can be continued, and all.
Continuable == {r.attempt : r \in Range(Kept(TRUE))}

\* The number of the next printout of the board.
NextNumber == Len(history) + 1

\* databaseGetNumberOfTests and databaseGetTest; sequence numbers start at 0.
NumberOfTests(attempt) == IF attempt \in Attempts THEN Len(Tests[attempt]) ELSE 0
HasTest(attempt, s) == attempt \in Attempts /\ s + 1 \in DOMAIN Tests[attempt] /\ Tests[attempt][s + 1]

===============================================================================
