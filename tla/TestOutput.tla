------------------------------- MODULE TestOutput -------------------------------
(***************************************************************************)
(* What the test programs print (Prompt.c), as the server keeps it: rows   *)
(* of test data and of diagnostics, in the order in which they were sent.  *)
(* A status belongs to no row in particular: the server gives it to the    *)
(* last row of the kind it received last (updateStatus), so it is up to    *)
(* the programs to print line and status in the right order.               *)
(*                                                                         *)
(* How rows reach the clients is the subject of TestFeed; here the queue   *)
(* between a program and the server is never full.                         *)
(***************************************************************************)
EXTENDS Integers, Sequences, FiniteSets

CONSTANT LongTexts   \* the lines whose text is longer than MAX_TEST_LENGTH

VARIABLES
  program,   \* the test program that runs; "ready" before it and "none" after it
  report     \* its rows, and those before it

Row(line) == [line |-> line, status |-> <<>>]

\* The last row of the program before; dropped: a history, was a text too long.
Before == [TEST |-> <<[line |-> "before", status |-> <<"Passed">>]>>,
           DIAG |-> <<>>, last |-> "TEST", dropped |-> FALSE]

OutputInit == program = "ready" /\ report = Before

\* A text that is too long is not sent.
boundedPrint(r, a, line) ==
  IF line \in LongTexts THEN [r EXCEPT !.dropped = TRUE]
  ELSE [r EXCEPT ![a] = Append(@, Row(line)), !.last = a]

testPrint(r, line)       == boundedPrint(r, "TEST", line)
diagnosticPrint(r, line) == boundedPrint(r, "DIAG", line)

customMessage(r, s) ==
  IF r[r.last] = <<>> THEN r ELSE [r EXCEPT ![r.last][Len(r[r.last])].status = Append(@, s)]

passedMessage(r) == customMessage(r, "Passed")
failedMessage(r) == customMessage(r, "FAILED")

\* The line of a test and its status.
Verdict(r, line, passed) ==
  IF passed THEN passedMessage(testPrint(r, line)) ELSE failedMessage(testPrint(r, line))

Reported(line, s) == \E k \in DOMAIN report.TEST : report.TEST[k] = [line |-> line, status |-> <<s>>]

\* Every row has one status at most, and only the last one may still be without:
\* no status is given to a line of another test, or to a diagnostic.  It is when a
\* text was too long to be sent.
OwnStatus ==
  ~report.dropped =>
  /\ \A k \in DOMAIN report.TEST :
       /\ Len(report.TEST[k].status) <= 1
       /\ Len(report.TEST[k].status) = 0 => k = Len(report.TEST)
  /\ \A k \in DOMAIN report.DIAG : report.DIAG[k].status = <<>>

\* When a program has ended no line is left without a status.
AllReported == program = "none" => \A k \in DOMAIN report.TEST : report.TEST[k].status # <<>>
===============================================================================
