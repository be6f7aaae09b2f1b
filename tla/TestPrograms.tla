------------------------------ MODULE TestPrograms ------------------------------
(***************************************************************************)
(* The test programs as functionalTest runs them: one at a time, each with *)
(* its own state and all of them with one output.  A behaviour is one run  *)
(* of one of the programs, with any arguments and on any hardware.         *)
(***************************************************************************)
EXTENDS CpuTest, DriveTest, SerialTest, PortTests

vars == <<program, report, cpuVars, driveVars, serialVars, ledVars, mouseVars>>

Init == OutputInit /\ CpuInit /\ DriveInit /\ SerialInit /\ PortInit

\* The program has ended.
Ended == program = "none" /\ UNCHANGED vars

Next ==
  \/ CpuNext /\ UNCHANGED <<driveVars, serialVars, ledVars, mouseVars>>
  \/ DriveNext /\ UNCHANGED <<cpuVars, serialVars, ledVars, mouseVars>>
  \/ SerialNext /\ UNCHANGED <<cpuVars, driveVars, ledVars, mouseVars>>
  \/ PortNext /\ UNCHANGED <<cpuVars, driveVars, serialVars>>
  \/ Ended

\* The thread of the LED test is scheduled, and gets a mutex that is free.
Fairness == WF_vars(ledHandler /\ UNCHANGED <<cpuVars, driveVars, serialVars>>)

Spec == Init /\ [][Next]_vars /\ Fairness

\* Variables keep to their ranges.
TypeOK ==
  /\ program \in {"ready", "cpu", "drive", "serial", "led", "mouse", "none"}
  /\ CpuTypeOK
  /\ Len(equal) <= 3 /\ regions \subseteq {"begin", "center", "final"} \X (0..ULongLong - 1)
  /\ \A p \in Places : content[p] = Junk \/ content[p][2] \in Places \cup 0..size - 1
  /\ place \in (1..Settings) \X (1..Len(patterns))
  /\ mutex \in {"free", "main", "handler"} /\ Len(data) <= 8

\* What a program reports can be read off its rows: every line has its own status, and at
\* the end none is without (Prompt.c, printHeader.c).
RowsInv == TypeOK /\ OwnStatus /\ AllReported

\* The tests that talk to a device judge its answers right: none passes on bytes that are
\* not the device's answers, and a sound port passes (serialFunctions.c, mouseTest.c).
AnswersJudgedRight == PassedMeansEchoed /\ SoundPortPasses /\ MousePassHonest
===============================================================================
