-------------------------------- MODULE CpuTest --------------------------------
(***************************************************************************)
(* cpu_test.c: each CPU is tested by a process of its own, bound to it.    *)
(* The parent forks a child per CPU and waits for it, so the processes     *)
(* form a stack whose top runs.  A child that cannot be bound to its CPU   *)
(* goes on with the loop of its parent: it forks children for the CPUs     *)
(* that are left, and reports.                                             *)
(***************************************************************************)
EXTENDS TestOutput

CONSTANTS
  MaxCpus,      \* bound of the model: the highest number of a CPU, and one more
  MaxForkFails, \* bound of the model: calls of fork that fail
  CpuOptions    \* the arguments: [given : tests with an expected value,
                \*                 skip : tests left out, count : cpus, htt]

ASSUME CpuAssumption == MaxCpus \in Nat

VARIABLES
  options,      \* the arguments of this run
  cpus,         \* the numbers of the CPUs that a process can be bound to
  good,         \* the tests whose measured value is the expected one
  procs,        \* the processes: each parent below its child
  forkFails,    \* history: how many calls of fork failed
  failing,      \* history: the CPUs that failed a test
  covered       \* history: the CPUs whose tests were run
cpuVars == <<options, cpus, good, procs, forkFails, failing, covered>>

CpuTests == <<"speed", "L2", "L3">>

\* get_processor_count: the masks that are accepted, 32 of them being one CPU.
number_of_cpus == Cardinality(cpus)

\* A process: where it is in the loop, success, and child_status.
Process == [at : {"fork", "wait", "test"}, i : 0..MaxCpus, k : 1..4,
            success : BOOLEAN, status : {"zero", "other"}]

CpuInit ==
  /\ options = [given |-> {}, skip |-> {}, count |-> 1, htt |-> FALSE] /\ cpus = {} /\ good = {} /\ procs = <<>>
  /\ forkFails = 0 /\ failing = {} /\ covered = {}

\* The values of every CPU are measured by the first process, on the CPU
\* get_processor_count left it on.  child_status is not initialized.
CpuStart ==
  /\ program = "ready" /\ program' = "cpu"
  /\ options' \in CpuOptions
  /\ cpus' \in {c \in SUBSET (0..MaxCpus - 1) : c # {}}
  /\ good' \in SUBSET {"speed", "L2", "L3"}
  /\ \E s \in {"zero", "other"} :
       procs' = <<[at |-> "fork", i |-> 0, k |-> 1, success |-> TRUE, status |-> s]>>
  /\ forkFails' = 0 /\ failing' = {} /\ covered' = {}
  /\ report' = customMessage(testPrint(Before, "executing"), "")

Self == Len(procs)
Loop(p) == p.at = "fork" /\ p.i < number_of_cpus

\* After a child: the next CPU, and any failure is detected.
NextCpu(p) ==
  [p EXCEPT !.at = "fork", !.i = @ + 1, !.success = @ /\ p.status = "zero"]

\* The child waits as well, which fails at once and leaves child_status alone.
Fork ==
  /\ program = "cpu" /\ Loop(procs[Self])
  /\ LET p     == procs[Self]
         child == IF p.i \in cpus THEN [p EXCEPT !.at = "test", !.k = 1] ELSE NextCpu(p)
     IN procs' = Append([procs EXCEPT ![Self].at = "wait"], child)
  /\ UNCHANGED <<program, report, options, cpus, good, forkFails, failing, covered>>

\* waitpid fails as well: child_status is that of the CPU before.
ForkFails ==
  /\ program = "cpu" /\ Loop(procs[Self]) /\ forkFails < MaxForkFails
  /\ procs' = [procs EXCEPT ![Self] = NextCpu(@)]
  /\ forkFails' = forkFails + 1
  /\ UNCHANGED <<program, report, options, cpus, good, failing, covered>>

\* test_cpu_speed, test_l2_cache and test_l3_cache: the measured value is compared,
\* or shown to the operator.
Passes(test, answer) == IF test \in options.given THEN test \in good ELSE answer

CpuTestStep ==
  /\ program = "cpu" /\ procs[Self].at = "test" /\ procs[Self].k <= Len(CpuTests)
  /\ LET p    == procs[Self]
         test == CpuTests[p.k]
     IN \E answer \in BOOLEAN :
          IF test \in options.skip \/ Passes(test, answer)
          THEN /\ procs' = [procs EXCEPT ![Self].k = @ + 1]
               /\ UNCHANGED <<report, failing>>
          ELSE /\ procs' = [procs EXCEPT ![Self].k = @ + 1, ![Self].success = FALSE]
               /\ report' = Verdict(report, test, FALSE)
               /\ failing' = failing \cup {p.i}
  /\ UNCHANGED <<program, options, cpus, good, forkFails, covered>>

\* A process ends; the first one ends the program, any other one wakes its parent.
Exit(code, r) ==
  /\ report' = r
  /\ IF Self = 1
     THEN program' = "none" /\ procs' = <<>>
     ELSE /\ procs' = [k \in 1..Self - 1 |->
                         IF k = Self - 1 THEN NextCpu([procs[k] EXCEPT !.status = code])
                         ELSE procs[k]]
          /\ UNCHANGED program
  /\ UNCHANGED <<options, cpus, good, forkFails, failing>>

\* Mutant: a child returns TRUE and FALSE as the program does.
ChildExitSwapped ==
  /\ program = "cpu" /\ procs[Self].at = "test" /\ procs[Self].k > Len(CpuTests)
  /\ Exit(IF procs[Self].success THEN "other" ELSE "zero", report)
  /\ covered' = covered \cup {procs[Self].i}

\* A child returns zero when it has not failed.
ChildExit ==
  /\ program = "cpu" /\ procs[Self].at = "test" /\ procs[Self].k > Len(CpuTests)
  /\ Exit(IF procs[Self].success THEN "zero" ELSE "other", report)
  /\ covered' = covered \cup {procs[Self].i}

\* test_cpu_count
CountRight == number_of_cpus = IF options.htt THEN options.count * 2 ELSE options.count

Summary(success) ==
  LET summary(r) == IF success THEN Verdict(Verdict(Verdict(r, "CPUs", TRUE), "L2s", TRUE), "L3s", TRUE) ELSE r
  IN Verdict(summary(report), "count", CountRight)

\* The process that ends the loop reports; main returns PASS, which is one, or FAIL.
CpuReport ==
  /\ program = "cpu" /\ procs[Self].at = "fork" /\ ~Loop(procs[Self])
  /\ Exit(IF procs[Self].success /\ CountRight THEN "other" ELSE "zero",
          Summary(procs[Self].success))
  /\ UNCHANGED covered

CpuNext == CpuStart \/ Fork \/ ForkFails \/ CpuTestStep \/ ChildExit \/ CpuReport

-------------------------------------------------------------------------------
CpuTypeOK ==
  /\ cpus \subseteq 0..MaxCpus - 1 /\ failing \cup covered \subseteq cpus
  /\ \A k \in DOMAIN procs : procs[k] \in Process /\ (k < Self <=> procs[k].at = "wait")

\* When every CPU got a child that was bound to it, the board passes only if each
\* of them ran its tests and none failed; the failure has to travel through the
\* exit statuses of the processes.
CpuPassHonest ==
  /\ program = "none" /\ Reported("CPUs", "Passed")
  /\ cpus = 0..number_of_cpus - 1 /\ forkFails = 0
  => failing = {} /\ covered = cpus
===============================================================================
