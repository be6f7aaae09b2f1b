------------------------------ MODULE TestSession ------------------------------
(***************************************************************************)
(* The sessions of one board: beginTesting, functionalTest, burninTest and *)
(* saveUnPlannedTestData (TDTestFunctions.c), getBoardAttempt and          *)
(* getRepairTestLevel (BoardInfo.c), and the listener keeping and storing  *)
(* the output (TDThreadHandler.c), over the tables of TestDatabase.  The   *)
(* machine may go down at any moment; memory is lost and the tables stay.  *)
(* One statement is one step; script is what the running function still    *)
(* has to execute.  A test that asks for a restart waits until it comes,   *)
(* so at any time one function at most has a script.                       *)
(***************************************************************************)
EXTENDS TestDatabase

CONSTANTS
  MaxSessions,  \* bound of the model: times the machine is started
  MaxFails,     \* bound of the model: statements and queries that fail
  MaxTestLines, \* bound of the model: lines of test data
  MaxDiagLines  \* bound of the model: lines of diagnostic data

ASSUME SessionAssumption ==
  /\ MaxSessions \in Nat /\ MaxFails \in Nat /\ MaxTestLines \in Nat /\ MaxDiagLines \in Nat

VARIABLES
  at,      \* where main is in beginTesting
  s,       \* the memory of the process: boardState, testData, cachedTests and so on
  script,  \* statements the running function still has to execute
  output,  \* what the tests sent and the listener has not handled
  seen     \* history: see Seen
vars == <<dbVars, at, s, script, output, seen>>

Line == [kind : {"test", "diag"}, id : Nat]
Restart == [kind |-> "restart", id |-> 0]

\* What a process starts with.
Fresh == [attempt |-> 0, sequence |-> -1, functional |-> FALSE, numTests |-> 0,
          cache |-> <<>>, next |-> 0, current |-> -1,
          testData |-> <<>>, diagData |-> <<>>, executions |-> 0]

\* started: sessions so far; fails: statements that failed; made: lines made, of each
\* kind; stored: lines that were put into testingData; chain: the attempt with which the
\* chain of continued sessions began, the tests that ran in it, and whether they were
\* functional tests; saved: the chain when lines were last stored for a restart.
\* lossy: after one of these stored lines may be gone: a crash between the statements that
\* store them again, a failed insertion or printout, a new attempt begun over the lines of
\* another, and the end of a burn-in test that removes them.
Chain == [attempt : Nat, ran : SUBSET Nat, functional : BOOLEAN]
NoChain == [attempt |-> 0, ran |-> {}, functional |-> TRUE]
Seen == [started : Nat, fails : Nat, made : [{"test", "diag"} -> Nat], stored : SUBSET Line,
         chain : Chain, saved : Chain, lossy : BOOLEAN]

Init ==
  /\ DatabaseInit
  /\ at = "off" /\ s = Fresh /\ script = <<>> /\ output = <<>>
  /\ seen = [started |-> 0, fails |-> 0, made |-> [k \in {"test", "diag"} |-> 0],
             stored |-> {}, chain |-> NoChain, saved |-> NoChain,
             lossy |-> FALSE]

-------------------------------------------------------------------------------
\* Statements of the running function.
MayFail == seen.fails < MaxFails
Fail(loses) == [seen EXCEPT !.fails = @ + 1, !.lossy = @ \/ loses]

Execute ==
  /\ at # "off" /\ script # <<>>
  /\ Executed(Head(script))
  /\ script' = Rest(script, TRUE)
  /\ seen' = IF Head(script).op # "insert" THEN seen
             ELSE [seen EXCEPT !.stored = @ \cup {Head(script).row.line}]
  /\ UNCHANGED <<at, s, output>>

StatementFails ==
  /\ at # "off" /\ script # <<>> /\ MayFail
  /\ script' = Rest(script, FALSE)
  /\ seen' = Fail(Head(script).op \in {"insert", "print", "append"})
  /\ UNCHANGED <<dbVars, at, s, output>>

\* The function at which main stands has executed its script.
Ready(pc) == at = pc /\ script = <<>>
Goto(pc, statements) == at' = pc /\ script' = statements

-------------------------------------------------------------------------------
\* The machine.
PowerOn ==
  /\ at = "off" /\ seen.started < MaxSessions
  /\ s' = Fresh /\ output' = <<>>
  /\ Goto("info", DBUpdateBoardInfo(0))
  /\ seen' = [seen EXCEPT !.started = @ + 1]
  /\ UNCHANGED dbVars

\* A crash, a power failure, or the restart that was asked for.
Rewriting == script # <<>> /\ Head(script).op = "insert"
PowerOff ==
  /\ at # "off"
  /\ Goto("off", <<>>)
  /\ s' = Fresh /\ output' = <<>>
  /\ seen' = [seen EXCEPT !.lossy = @ \/ Rewriting]
  /\ UNCHANGED dbVars

-------------------------------------------------------------------------------
\* saveUnPlannedTestData: lines of an earlier session that ended with no restart are
\* printed under its attempt, which is put back afterwards.  The attempt is -1 when the query
\* for it fails; when the query for the lines does, there is nothing to print.
Unplanned == Kept(FALSE)
SaveUnPlannedTestData ==
  /\ Ready("info")
  /\ \/ /\ Unplanned = <<>>
        /\ Goto("attempt", <<>>) /\ UNCHANGED <<s, seen>>
     \/ /\ Unplanned # <<>>
        /\ s' = [s EXCEPT !.attempt = AttemptForSavedTestData(FALSE)]
        /\ Goto("unplanned", DBUpdateBoardInfo(AttemptForSavedTestData(FALSE)))
        /\ UNCHANGED seen
     \/ MayFail /\ Goto("attempt", <<>>) /\ seen' = Fail(Unplanned # <<>>) /\ UNCHANGED s
     \/ /\ MayFail /\ Unplanned # <<>>
        /\ s' = [s EXCEPT !.attempt = -1]
        /\ Goto("unplanned", DBUpdateBoardInfo(-1))
        /\ seen' = Fail(FALSE)
  /\ UNCHANGED <<dbVars, output>>

\* databaseSaveTestPrintout after DBUpdateBoardInfo, which may have failed: the query for
\* the number of the printout, and the rest.
PrintOut(pc, next, attempt, lines, executions) ==
  /\ Ready(pc)
  /\ \/ Goto(next, SaveTestPrintout(NextNumber, attempt, lines, executions)) /\ UNCHANGED seen
     \/ MayFail /\ Goto(next, <<>>) /\ seen' = Fail(TRUE)
  /\ UNCHANGED <<dbVars, s, output>>

PrintUnplanned == PrintOut("unplanned", "printed", s.attempt, TestData(FALSE), 0)

AttemptRestored ==
  /\ Ready("printed")
  /\ s' = [s EXCEPT !.attempt = 0]
  /\ Goto("attempt", <<>>)
  /\ UNCHANGED <<dbVars, output, seen>>

-------------------------------------------------------------------------------
\* getBoardAttempt: the operator continues an attempt of the first list or starts one of
\* the second; when a query for the lists fails, the attempt is 0.
Chosen(attempt, sequence, functional, chain, outcome) ==
  /\ s' = [s EXCEPT !.attempt = attempt, !.functional = functional, !.sequence = sequence]
  /\ seen' = [outcome EXCEPT !.chain = chain,
                             !.lossy = @ \/ (sequence = -1 /\ Kept(TRUE) # <<>>)]

GetBoardAttempt ==
  /\ Ready("attempt")
  /\ \/ \E attempt \in Continuable, functional \in BOOLEAN :
          \/ Chosen(attempt, SequenceForAttempt(attempt), functional, seen.saved, seen)
          \/ MayFail /\ Chosen(attempt, -1, functional, NoChain, Fail(FALSE))
     \/ \E attempt \in Attempts, functional \in BOOLEAN :
          Chosen(attempt, -1, functional, [NoChain EXCEPT !.attempt = attempt], seen)
     \/ MayFail /\ s' = s /\ seen' = [Fail(FALSE) EXCEPT !.chain = NoChain]
  /\ Goto("tests", <<>>)
  /\ UNCHANGED <<dbVars, output>>

\* databaseGetNumberOfTests; 0 when the query fails.
GetNumberOfTests ==
  /\ Ready("tests")
  /\ \/ s' = [s EXCEPT !.numTests = NumberOfTests(s.attempt)] /\ UNCHANGED seen
     \/ MayFail /\ s' = s /\ seen' = Fail(FALSE)
  /\ Goto("restore", <<>>)
  /\ UNCHANGED <<dbVars, output>>

\* getPreviousTestData, when a sequence was found: both arrays get the rows of both kinds.
\* A functional test stores them again at once.
\* Mutant: a session that stopped in its first test is taken for a new one.
RestoredAfterFirst == IF s.sequence > 0 THEN TestData(TRUE) ELSE <<>>
Restored == IF s.sequence >= 0 THEN TestData(TRUE) ELSE <<>>
GetPreviousTestData ==
  /\ Ready("restore")
  /\ \E testData, diagData \in {Restored, <<>>} :
       /\ \/ testData = Restored /\ diagData = Restored /\ UNCHANGED seen
          \/ MayFail /\ testData # diagData /\ seen' = Fail(testData = <<>>)
       /\ s' = [s EXCEPT !.testData = testData, !.diagData = diagData]
       /\ IF s.functional
          THEN Goto("stored", InsertTemporaryTestData(FALSE, s.attempt, s.sequence,
                                                      testData, diagData))
          ELSE Goto("burn", <<>>)
  /\ UNCHANGED <<dbVars, output>>

-------------------------------------------------------------------------------
\* functionalTest: cachedTests holds the tests from the last sequence on; those that the
\* query does not find are left out.
After(sequence, numTests) == [k \in 1..(numTests - sequence - 1) |-> sequence + k]
\* Mutant: the next test is left out.
CachedTestsLate(sequence, numTests) ==
  LET tests == After(sequence + 1, numTests)
  IN AtPlaces(tests, {k \in DOMAIN tests : HasTest(s.attempt, tests[k])})
CachedTests(sequence, numTests) ==
  LET tests == After(sequence, numTests)
  IN AtPlaces(tests, {k \in DOMAIN tests : HasTest(s.attempt, tests[k])})

Cache ==
  /\ Ready("stored")
  /\ \E cache \in {CachedTests(s.sequence, s.numTests)} :
       \/ s' = [s EXCEPT !.cache = cache] /\ UNCHANGED seen
       \/ /\ MayFail /\ seen' = Fail(FALSE)
          /\ \E k \in DOMAIN cache : s' = [s EXCEPT !.cache = RemoveAt(cache, k)]
  /\ Goto("choose", <<>>)
  /\ UNCHANGED <<dbVars, output>>

\* getRepairTestLevel: an answer that repeats the tests in their order is followed by a
\* new numTests; no answer takes a test out, as a name is never preceded by a zero byte.
ActiveTests(cache, numTests, repeated) == IF repeated THEN Len(cache) ELSE numTests
ChooseTests(repeated) ==
  /\ Ready("choose")
  /\ repeated => s.cache # <<>>
  /\ s' = [s EXCEPT !.numTests = ActiveTests(s.cache, @, repeated)]
  /\ Goto("run", <<>>)
  /\ UNCHANGED <<dbVars, output, seen>>

\* A test starts; the sequence kept for it is its place in cachedTests.
StartTest ==
  /\ Ready("run") /\ s.next < Len(s.cache)
  /\ s' = [s EXCEPT !.current = s.next, !.next = @ + 1]
  /\ seen' = [seen EXCEPT !.chain.ran = @ \cup {s.cache[s.next + 1]}]
  /\ Goto("testing", <<>>)
  /\ UNCHANGED <<dbVars, output>>

Room(kind) == seen.made[kind] < (IF kind = "test" THEN MaxTestLines ELSE MaxDiagLines)
Waiting == output # <<>> /\ Last(output) = Restart
Testing == (Ready("testing") \/ (Ready("burning") /\ s.cache # <<>>)) /\ ~Waiting
TestSends(kind) ==
  /\ Testing /\ Room(kind)
  /\ output' = Append(output, [kind |-> kind, id |-> seen.made[kind] + 1])
  /\ seen' = [seen EXCEPT !.made[kind] = @ + 1]
  /\ UNCHANGED <<dbVars, at, s, script>>

\* powerDown: the test asks for the restart and waits for it.
TestRestarts ==
  /\ Testing
  /\ output' = Append(output, Restart)
  /\ UNCHANGED <<dbVars, at, s, script, seen>>

\* logFinalTestData, and all lines kept so far are stored again.
TestEnds ==
  /\ Ready("testing") /\ ~Waiting
  /\ s' = [s EXCEPT !.executions = @ + 1]
  /\ Goto("run", InsertTemporaryTestData(FALSE, s.attempt, s.current, s.testData, s.diagData))
  /\ UNCHANGED <<dbVars, output, seen>>

\* Mutant: off by one.
EnoughStrict(tests, numTests) == tests > numTests

\* Was a test found for every sequence number?
Enough(tests, numTests) == tests >= numTests

\* burninTest caches the tests and runs them again and again until the time is up, at once if
\* it has found none.  It stores nothing, and leaves currentSequence at the last test.  At
\* the end it removes the stored lines if there were enough tests (the loop that frees the
\* cache leaves its index at their number).
BurninTest ==
  /\ Ready("burn")
  /\ \E cache \in {CachedTests(-1, s.numTests)} :
       \/ /\ s' = [s EXCEPT !.cache = cache, !.current = s.numTests - 1]
          /\ seen' = [seen EXCEPT !.chain.functional = FALSE]
       \/ /\ MayFail /\ seen' = [Fail(FALSE) EXCEPT !.chain.functional = FALSE]
          /\ \E k \in DOMAIN cache :
               s' = [s EXCEPT !.cache = RemoveAt(cache, k), !.current = s.numTests - 1]
  /\ Goto("burning", <<>>)
  /\ UNCHANGED <<dbVars, output>>

TimeIsUp ==
  /\ Ready("burning") /\ ~Waiting
  /\ IF Enough(Len(s.cache), s.numTests)
     THEN /\ Goto("done", RemoveTemporaryTestData)
          /\ seen' = [seen EXCEPT !.lossy = @ \/ temp # <<>>]
     ELSE Goto("done", <<>>) /\ UNCHANGED seen
  /\ UNCHANGED <<dbVars, s, output>>

\* After the last test everything is printed and removed, if there were enough tests.
LastTestEnded ==
  /\ Ready("run") /\ s.next = Len(s.cache)
  /\ IF Enough(Len(s.cache), s.numTests)
     THEN Goto("print", <<>>) ELSE Goto("done", <<>>)
  /\ UNCHANGED <<dbVars, s, output, seen>>

\* saveTestPrintout; with no lines databaseSaveTestPrintout does nothing.
BeginPrintout ==
  /\ Ready("print")
  /\ IF s.testData = <<>> THEN Goto("remove", <<>>) ELSE Goto("number", DBUpdateBoardInfo(s.attempt))
  /\ UNCHANGED <<dbVars, s, output, seen>>

Printout == PrintOut("number", "remove", s.attempt, s.testData, s.executions)

RemoveData ==
  /\ Ready("remove")
  /\ Goto("done", RemoveTemporaryTestData)
  /\ UNCHANGED <<dbVars, s, output, seen>>

-------------------------------------------------------------------------------
\* testListener: a line goes to its array; at a restart everything is stored as planned.
ListenerKeeps ==
  /\ at # "off" /\ output # <<>> /\ Head(output) # Restart
  /\ s' = IF Head(output).kind = "test"
          THEN [s EXCEPT !.testData = Append(@, Head(output))]
          ELSE [s EXCEPT !.diagData = Append(@, Head(output))]
  /\ output' = Tail(output)
  /\ UNCHANGED <<dbVars, at, script, seen>>

ListenerStores ==
  /\ output = <<Restart>> /\ at \in {"testing", "burning"}
  /\ Goto("waiting", InsertTemporaryTestData(TRUE, s.attempt, s.current, s.testData, s.diagData))
  /\ output' = <<>>
  /\ seen' = [seen EXCEPT !.saved = seen.chain]
  /\ UNCHANGED <<dbVars, s>>

Next ==
  \/ Execute \/ StatementFails \/ PowerOn \/ PowerOff
  \/ SaveUnPlannedTestData \/ PrintUnplanned \/ AttemptRestored
  \/ GetBoardAttempt \/ GetNumberOfTests \/ GetPreviousTestData \/ BurninTest
  \/ Cache \/ StartTest \/ TestRestarts \/ TestEnds \/ TimeIsUp \/ LastTestEnded
  \/ \E repeated \in BOOLEAN : ChooseTests(repeated)
  \/ \E kind \in {"test", "diag"} : TestSends(kind)
  \/ BeginPrintout \/ Printout \/ RemoveData
  \/ ListenerKeeps \/ ListenerStores

Spec == Init /\ [][Next]_vars

-------------------------------------------------------------------------------
\* Every variable has its type.
TypeOK ==
  /\ at \in {"off", "info", "unplanned", "printed", "attempt", "tests", "restore", "burn", "burning",
             "stored", "choose", "run", "testing", "waiting", "print", "number", "remove", "done"}
  /\ s.testData \in Seq(Line) /\ s.diagData \in Seq(Line)
  /\ s.attempt \in Int /\ s.sequence \in Int /\ s.executions \in Nat
  /\ \A k \in DOMAIN temp : temp[k].line \in Line /\ temp[k].planned \in BOOLEAN
  /\ \A k \in DOMAIN history : history[k].lines \in Seq(Line) /\ history[k].executions \in Nat
  /\ output \in Seq(Line \cup {Restart})
  /\ seen \in Seen

InTemp == {temp[k].line : k \in DOMAIN temp}
Printed == UNION {Range(history[k].lines) : k \in DOMAIN history}
InFlight == {script[k].row.line : k \in {n \in DOMAIN script : script[n].op = "insert"}}

\* functionalTest replaces the stored lines by deleting them all and inserting them again,
\* and removes them when it has printed them.  Whatever the order of crashes, restarts
\* and statements, a line of test data once stored is still stored, is about to be put
\* back, or is in a printout; unless the machine went down between the deletion and the
\* insertions, an insertion or a query for the lines or the printout failed, an attempt
\* was started anew although one could be continued, or a burn-in that had found a test for
\* every sequence number came to its end, which prints nothing and removes them (lines of a
\* restart in it, or from before it).  A failure of DBUpdateBoardInfo, of a deletion or of
\* any other query loses none.
NothingLost ==
  ~seen.lossy =>
    \A l \in seen.stored : l.kind = "test" => l \in InTemp \cup InFlight \cup Printed

\* The types, and that no stored line gets lost.
StoredInv == TypeOK /\ NothingLost

\* databaseSaveTestPrintout finds the printout it appends to by number and version: only
\* the last printout ever changes, also when a crash or a failed statement cut one off.
PrintoutsFinal ==
  [][\A k \in DOMAIN history : k < Len(history) => history'[k] = history[k]]_vars

\* A functional session of the attempt its chain of restarts began with, all of them
\* functional, ends with no test of that attempt left out: the sequence that is stored is never ahead of the tests, and
\* a reply of the operator takes none away.
NoTestSkipped ==
  (at = "done" /\ s.functional /\ seen.fails = 0 /\ s.attempt = seen.chain.attempt
      /\ seen.chain.functional) =>
    \A n \in 0..NumberOfTests(s.attempt) - 1 : HasTest(s.attempt, n) => n \in seen.chain.ran

\* When a functional session has run all tests that were asked for, nothing is left to be
\* saved again at the next start, and the last printout counts the tests that were run in
\* this session and has every line the listener had kept when it was made.
FinishedSaved ==
  (Ready("done") /\ s.functional /\ seen.fails = 0 /\ Len(s.cache) >= s.numTests) =>
    /\ temp = <<>>
    /\ \A l \in seen.stored : l \in Range(s.testData) => l \in Range(Last(history).lines)
    /\ seen.stored \cap Range(s.testData) # {} => Last(history).executions = Len(s.cache)

\* "Inserts temporary data into `testData`, which will allow testing to continue the
\* sequence of test events following a restart" (databaseInsertTemporaryTestData): the
\* operator who continues goes on with the attempt that asked for the restart.
RestartContinues ==
  (at = "restore" /\ s.sequence >= 0) => s.attempt = seen.saved.attempt

===============================================================================
