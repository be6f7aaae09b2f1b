-------------------------------- MODULE TestFeed --------------------------------
(***************************************************************************)
(* How the output of the tests reaches the clients of one row of the       *)
(* connection table: the IPC listener and the functions it calls           *)
(* (testListener, queueTestData, updateStatus, updateTestDataQueue,        *)
(* updateUserQueues), and the handler thread that answers the commands     *)
(* these push and the requests of clients (handle_thread_event,            *)
(* send_test_data).                                                        *)
(*                                                                         *)
(* There are two arrays of lines, test data and diagnostic data, and for   *)
(* each connection a counter of the lines it was sent.  The listener       *)
(* changes the arrays under threadHandler.  The handler reads the counts,  *)
(* and fetches the pointer to an array, without it.  The counters are      *)
(* those of a slot; a command keeps the descriptor it was pushed with, and *)
(* what answers it goes there, whoever has the slot by then.               *)
(*                                                                         *)
(* Questions are the subject of CommandDispatch: here none is pending, and *)
(* the handler peeks at a command and dequeues it in one step.  The row is *)
(* full at first and always keeps one connection, so its handler does not  *)
(* end; it is the first row with TESTVIEW: updateUserQueues does not set   *)
(* jIterator back, so a later one would be signalled and get no commands.  *)
(***************************************************************************)
EXTENDS Integers, Sequences, FiniteSets

CONSTANTS
  Slots,     \* the connections of the row
  Descriptors, \* the descriptors of their sockets, none of which is 0
  Debug,     \* is memoryTest run with the option debug
  TestTypes, \* the types of test of a board: FUNCTIONAL, BURNIN
  MaxPrints, \* bound of the model: lines and new texts of lines printed
  MaxAsked,  \* bound of the model: requests of clients
  MaxLeft,   \* bound of the model: connections closed
  MaxLost    \* bound of the model: messages lost because the IPC queue was full

ASSUME FeedAssumption ==
  /\ Slots \subseteq Nat /\ 0 \notin Descriptors
  /\ Debug \in BOOLEAN
  /\ TestTypes \subseteq {"FUNCTIONAL", "BURNIN"}
  /\ MaxPrints \in Nat /\ MaxAsked \in Nat /\ MaxLeft \in Nat /\ MaxLost \in Nat

Arrays   == {"TEST", "DIAG"}
Statuses == {"none", "Passed", "FAILED"}

\* A line: its text (a number; an update brings a new one), whether it still
\* ends in a newline, and its status.
Line   == [text : 1..MaxPrints, nl : BOOLEAN, status : Statuses]
NoLine == [text |-> 0, nl |-> FALSE, status |-> "none"]
NoCommand == [slot |-> -1, kind |-> "", fd |-> 0]
NoCall    == [end |-> 0, stale |-> FALSE]

VARIABLES
  lines,        \* [Arrays -> sequence of lines], testData and diagnosticData
  count,        \* [Arrays -> TESTCOUNT and DIAGCOUNT]; memory may hold more lines
  testType,     \* testType of the board
  isBurnout,    \* are the tests in burn-in mode
  previous,     \* previousTestData
  lockHeld,     \* threadHandler was locked and will never be released
  listener,     \* where the listener is, and what it pushes for whom
  script,       \* what the tests print next: any line, or the rest of one
  messageQueue, \* the commands that wait for the handler
  pc, cmd, arr, call, served, \* the handler: place, command, array, arguments of
                              \* send_test_data, whether one call succeeded
  live,         \* [Slots -> BOOLEAN], is there a connection (threadIP is not 0)
  threadFD,     \* [Slots -> its descriptor, or 0]
  viewing,      \* TESTVIEW of threadStatus
  sent,         \* [Arrays -> [Slots -> testCount and diagCount]]
  got,          \* history: [Arrays -> [Slots -> [1..MaxPrints -> the line last
                \* sent to the connection from that place of the array]]]
  overtaken,    \* history: [Slots -> does its counter count lines that went to the
                \* descriptor of an earlier connection]
  missed,       \* history: did an update find the row without TESTVIEW while the
                \* handler was busy with its first client
  late,         \* history: the lines after which a new one came while an update was on
                \* its way
  printed, asked, left, lost \* history: how many, up to the bounds

arrayVars    == <<lines, count>>
modeVars     == <<testType, isBurnout>>
listenerVars == <<listener, previous, script>>
handlerVars  == <<pc, cmd, arr, call, served>>
clientVars   == <<live, threadFD, got, overtaken, missed, late>>
bounds       == <<printed, asked, left, lost>>
vars == <<arrayVars, modeVars, lockHeld, listenerVars, messageQueue, handlerVars,
          clientVars, viewing, sent, bounds>>

Idle == [at |-> "idle", array |-> "TEST", kind |-> "", todo |-> {}, next |-> NoCommand]
Unsent == [i \in 1..MaxPrints |-> NoLine]

Init ==
  /\ lines = [a \in Arrays |-> <<>>] /\ count = [a \in Arrays |-> 0]
  /\ testType \in TestTypes /\ isBurnout = FALSE
  /\ previous = "NONE" /\ lockHeld = FALSE
  /\ listener = Idle /\ script = "any"
  /\ messageQueue = <<>>
  /\ pc = "enter" /\ cmd = NoCommand /\ arr = "TEST" /\ call = NoCall
  /\ served = FALSE
  /\ live = [s \in Slots |-> TRUE]
  /\ threadFD \in [Slots -> Descriptors]
  /\ \A s, x \in Slots : threadFD[s] = threadFD[x] => s = x
  /\ viewing = FALSE
  /\ sent = [a \in Arrays |-> [s \in Slots |-> 0]]
  /\ got = [a \in Arrays |-> [s \in Slots |-> Unsent]]
  /\ overtaken = [s \in Slots |-> FALSE] /\ missed = FALSE /\ late = {}
  /\ printed = 0 /\ asked = 0 /\ left = 0 /\ lost = 0

-------------------------------------------------------------------------------
\* The listener.  Its messages are the output of the tests: any line may come
\* next, or what is still to come of a line (its updates and its status).

\* A call of updateUserQueues (StartUpdate, ReadDescriptor, PushUpdate, SignalUpdate).
UpdateUserQueues(kind) == listener' = [Idle EXCEPT !.at = "start", !.kind = kind]

\* A handler has, or will have, to send a client a line again.
UpdateOnItsWay ==
  cmd.kind = "SINGLX" \/ \E i \in DOMAIN messageQueue : messageQueue[i].kind = "SINGLX"

\* queueTestData and queueDiagnosticData: a new line, in the place of one that was taken
\* back if there is one; realloc may move the array.  What was beyond that place is not
\* overwritten: a handler may still read it.  Diagnostics are not kept in burn-in mode.
QueueData(a, nl, next) ==
  LET new == [text |-> printed + 1, nl |-> nl, status |-> "none"] IN
  /\ listener.at = "idle" /\ printed < MaxPrints
  /\ previous' = a
  /\ script' = next
  /\ IF a = "DIAG" /\ isBurnout
     THEN UNCHANGED <<lines, count, call, listener>>
     ELSE /\ ~lockHeld
          /\ lines' = [lines EXCEPT ![a] = IF count[a] < Len(@)
                                           THEN [@ EXCEPT ![count[a] + 1] = new]
                                           ELSE Append(@, new)]
          /\ count' = [count EXCEPT ![a] = @ + 1]
          /\ call' = [call EXCEPT !.stale = @ \/ (pc = "send" /\ arr = a)]
          /\ listener' = [Idle EXCEPT !.at = "check", !.array = a]
  /\ printed' = printed + 1
  /\ late' = IF a = "TEST" /\ UpdateOnItsWay THEN late \cup {count[a]} ELSE late
  /\ UNCHANGED <<modeVars, lockHeld, messageQueue, pc, cmd, arr, served,
                 live, threadFD, got, overtaken, missed, viewing, sent, asked, left, lost>>

\* What the tests print: a line without a status, which ends in a newline, or one
\* with; diagnostics, before it and, by memoryTest with the option debug, before
\* its status.  Only functionalTest itself reports a failure after a diagnostic
\* line.
TestOutput ==
  \/ script = "any" /\ QueueData("TEST", TRUE, "any")
  \/ script = "any" /\ \E nl \in BOOLEAN : QueueData("TEST", nl, "line")
  \/ script = "any" /\ QueueData("DIAG", TRUE, "any")
  \/ script = "line" /\ Debug /\ QueueData("DIAG", TRUE, "line")
  \/ script = "any" /\ testType = "FUNCTIONAL" /\ QueueData("DIAG", FALSE, "failure")

\* After the lock is released: is the last line a whole one?
CheckNewline ==
  LET a == listener.array IN
  /\ listener.at = "check"
  /\ IF lines[a][count[a]].nl THEN UpdateUserQueues("TSTDAX") ELSE listener' = Idle
  /\ UNCHANGED <<arrayVars, modeVars, lockHeld, previous, script, messageQueue,
                 handlerVars, clientVars, viewing, sent, bounds>>

\* Mutant: the clients are not told of the new text.
UpdateTestDataQueueSilent ==
  LET n == count["TEST"] IN
  /\ listener.at = "idle" /\ script = "line" /\ printed < MaxPrints
  /\ ~lockHeld
  /\ lines' = [lines EXCEPT !["TEST"][n].text = printed + 1, !["TEST"][n].nl = FALSE]
  /\ printed' = printed + 1
  /\ UNCHANGED <<count, modeVars, lockHeld, listener, previous, script, messageQueue,
                 handlerVars, clientVars, viewing, sent, asked, left, lost>>

\* updateTestDataQueue: the last line gets a new text, without a newline.
UpdateTestDataQueue ==
  LET n == count["TEST"] IN
  /\ listener.at = "idle" /\ script = "line" /\ printed < MaxPrints
  /\ ~lockHeld
  /\ lines' = [lines EXCEPT !["TEST"][n].text = printed + 1, !["TEST"][n].nl = FALSE]
  /\ UpdateUserQueues("SINGLX")
  /\ printed' = printed + 1
  /\ UNCHANGED <<count, modeVars, lockHeld, previous, script, messageQueue,
                 handlerVars, clientVars, viewing, sent, asked, left, lost>>

\* Mutant: the line of a test that did not fail is taken back with the one before.
UpdateTestDataStatusTwo(status) ==
  LET n == count["TEST"] IN
  /\ ~lockHeld
  /\ IF status # "FAILED" /\ isBurnout
     THEN /\ count' = [count EXCEPT !["TEST"] = IF n > 1 THEN n - 2 ELSE 0]
          /\ UNCHANGED <<lines, listener>>
     ELSE /\ lines' = [lines EXCEPT !["TEST"][n].status = status]
          /\ UpdateUserQueues("TSTDAX")
          /\ UNCHANGED count
  /\ UNCHANGED lockHeld

\* Mutant: the line is taken back and the lock is kept.
UpdateTestDataStatusLocked(status) ==
  LET n == count["TEST"] IN
  /\ ~lockHeld
  /\ IF status # "FAILED" /\ isBurnout
     THEN /\ count' = [count EXCEPT !["TEST"] = n - 1]
          /\ lockHeld' = TRUE
          /\ UNCHANGED <<lines, listener>>
     ELSE /\ lines' = [lines EXCEPT !["TEST"][n].status = status]
          /\ UpdateUserQueues("TSTDAX")
          /\ UNCHANGED <<count, lockHeld>>

\* updateTestDataStatus; in burn-in mode the line of a test that did not fail is
\* taken back.
UpdateTestDataStatus(status) ==
  LET n == count["TEST"] IN
  /\ ~lockHeld
  /\ IF status # "FAILED" /\ isBurnout
     THEN /\ count' = [count EXCEPT !["TEST"] = n - 1]
          /\ UNCHANGED <<lines, listener>>
     ELSE /\ lines' = [lines EXCEPT !["TEST"][n].status = status]
          /\ UpdateUserQueues("TSTDAX")
          /\ UNCHANGED count
  /\ UNCHANGED lockHeld

\* updateDiagnosticDataStatus: in burn-in mode it returns with the lock held.
UpdateDiagnosticDataStatus(status) ==
  /\ ~lockHeld
  /\ IF isBurnout
     THEN lockHeld' = TRUE /\ UNCHANGED <<lines, listener>>
     ELSE /\ lines' = [lines EXCEPT !["DIAG"][count["DIAG"]].status = status]
          /\ UpdateUserQueues("SINGLX")
          /\ UNCHANGED lockHeld
  /\ UNCHANGED count

\* updateStatus: the status goes where the last line that was received went.
UpdateStatus(status) ==
  /\ listener.at = "idle"
  /\ script = "line" \/ (script = "failure" /\ status = "FAILED")
  /\ script' = "any"
  /\ \/ previous = "TEST" /\ UpdateTestDataStatus(status)
     \/ previous = "DIAG" /\ UpdateDiagnosticDataStatus(status)
  /\ UNCHANGED <<modeVars, previous, messageQueue, handlerVars, clientVars, viewing,
                 sent, bounds>>

\* ipcSendMessage does not wait: on a full queue a line of a test, or its status,
\* is lost and the test goes on.  The first messages find the queue empty.
Lose ==
  /\ lost < MaxLost /\ count["TEST"] > 0
  /\ \/ script = "any" /\ script' = "line"
     \/ script = "line" /\ script' = "any"
  /\ lost' = lost + 1
  /\ UNCHANGED <<arrayVars, modeVars, lockHeld, listener, previous, messageQueue,
                 handlerVars, clientVars, viewing, sent, printed, asked, left>>

\* setBurnoutTest, by the main thread, while the listener may lag behind.
SetBurnoutTest ==
  /\ testType = "BURNIN" /\ ~isBurnout
  /\ isBurnout' = TRUE
  /\ UNCHANGED <<arrayVars, testType, lockHeld, listenerVars, messageQueue, handlerVars,
                 clientVars, viewing, sent, bounds>>

Signal == pc' = IF pc = "waiting" THEN "peek" ELSE pc

\* updateUserQueues: only a row with TESTVIEW gets commands ...
StartUpdate ==
  /\ listener.at = "start"
  /\ listener' = [listener EXCEPT !.at = "push", !.todo = IF viewing THEN Slots ELSE {}]
  /\ missed' = (missed \/ (~viewing /\ cmd # NoCommand))
  /\ UNCHANGED <<arrayVars, modeVars, lockHeld, previous, script, messageQueue,
                 handlerVars, live, threadFD, got, overtaken, late, viewing, sent, bounds>>

\* ... one for each connection: slots in order, those without one are skipped.  The
\* descriptor is read before the lock is taken,
ReadDescriptor ==
  LET s == CHOOSE x \in listener.todo : \A y \in listener.todo : x <= y IN
  /\ listener.at = "push" /\ listener.todo # {}
  /\ \/ /\ live[s]
        /\ listener' = [listener EXCEPT !.at = "add", !.todo = @ \ {s},
             !.next = [slot |-> s, kind |-> listener.kind, fd |-> threadFD[s]]]
     \/ /\ ~live[s]
        /\ listener' = [listener EXCEPT !.todo = @ \ {s}]
  /\ UNCHANGED <<arrayVars, modeVars, lockHeld, previous, script, messageQueue, handlerVars,
                 clientVars, viewing, sent, bounds>>

\* ... and the command is added under it;
PushUpdate ==
  /\ listener.at = "add" /\ ~lockHeld
  /\ messageQueue' = Append(messageQueue, listener.next)
  /\ listener' = [listener EXCEPT !.at = "push", !.next = NoCommand]
  /\ UNCHANGED <<arrayVars, modeVars, lockHeld, previous, script, handlerVars,
                 clientVars, viewing, sent, bounds>>

\* ... then its handler is signalled.
SignalUpdate ==
  /\ listener.at = "push" /\ listener.todo = {}
  /\ IF viewing THEN Signal ELSE UNCHANGED pc
  /\ listener' = Idle
  /\ UNCHANGED <<arrayVars, modeVars, lockHeld, previous, script, messageQueue, cmd, arr,
                 call, served, clientVars, viewing, sent, bounds>>

-------------------------------------------------------------------------------
\* The server thread.  Its push and its signal are one step here: the signal is
\* lost all the same when the handler is between its last look at the queue and
\* its wait.

\* A client takes a slot, with a descriptor no other connection has; an earlier one may
\* have had it.
Connect(s) ==
  /\ ~live[s]
  /\ live' = [live EXCEPT ![s] = TRUE]
  /\ \E d \in Descriptors \ {threadFD[x] : x \in Slots} :
       threadFD' = [threadFD EXCEPT ![s] = d]
  /\ UNCHANGED <<arrayVars, modeVars, lockHeld, listenerVars, messageQueue, handlerVars,
                 got, overtaken, missed, late, viewing, sent, bounds>>

\* Mutant: the counters stay.
LeaveKeepingCounters(s) ==
  /\ live[s] /\ \E x \in Slots \ {s} : live[x]
  /\ left < MaxLeft /\ left' = left + 1
  /\ live' = [live EXCEPT ![s] = FALSE] /\ threadFD' = [threadFD EXCEPT ![s] = 0]
  /\ got' = [a \in Arrays |-> [got[a] EXCEPT ![s] = Unsent]]
  /\ overtaken' = [overtaken EXCEPT ![s] = FALSE]
  /\ Signal
  /\ UNCHANGED <<arrayVars, modeVars, lockHeld, listenerVars, messageQueue, cmd, arr,
                 call, served, missed, late, viewing, sent, printed, asked, lost>>

\* removeThreadListener: the counters go back to 0.  Commands of the connection
\* stay in the queue.
Leave(s) ==
  /\ live[s] /\ \E x \in Slots \ {s} : live[x]
  /\ left < MaxLeft /\ left' = left + 1
  /\ live' = [live EXCEPT ![s] = FALSE] /\ threadFD' = [threadFD EXCEPT ![s] = 0]
  /\ sent' = [a \in Arrays |-> [sent[a] EXCEPT ![s] = 0]]
  /\ got' = [a \in Arrays |-> [got[a] EXCEPT ![s] = Unsent]]
  /\ overtaken' = [overtaken EXCEPT ![s] = FALSE]
  /\ Signal
  /\ UNCHANGED <<arrayVars, modeVars, lockHeld, listenerVars, messageQueue, cmd, arr,
                 call, served, missed, late, viewing, printed, asked, lost>>

\* A client asks for all test data.
Request(s) ==
  /\ live[s] /\ ~lockHeld
  /\ asked < MaxAsked /\ asked' = asked + 1
  /\ messageQueue' = Append(messageQueue, [slot |-> s, kind |-> "TSTDAT", fd |-> threadFD[s]])
  /\ Signal
  /\ UNCHANGED <<arrayVars, modeVars, lockHeld, listenerVars, cmd, arr, call, served,
                 clientVars, viewing, sent, printed, left, lost>>

-------------------------------------------------------------------------------
\* The handler: threadCommandHandler and handle_thread_event.

Wait ==
  /\ pc = "enter"
  /\ pc' = "waiting"
  /\ UNCHANGED <<arrayVars, modeVars, lockHeld, listenerVars, messageQueue, cmd, arr,
                 call, served, clientVars, viewing, sent, bounds>>

\* Both kinds of data are dealt with alike, test data first.
BeginArray(a, kind) ==
  /\ arr' = a
  /\ call' = NoCall
  /\ pc' = IF kind = "SINGLX" THEN "compare" ELSE "call"
NextArray == IF arr = "TEST" THEN BeginArray("DIAG", cmd.kind)
             ELSE pc' = "finish" /\ call' = NoCall /\ arr' = "TEST"

\* The event of a command: TBS_TCP_GET_TEST_DATA sets the counters back and goes
\* on like TBS_TCP_GET_TEST_UPDATE_DATA.
Begin(m) ==
  /\ cmd' = m
  /\ BeginArray("TEST", m.kind)
  /\ IF m.kind = "TSTDAT"
     THEN /\ sent' = [a \in Arrays |-> [sent[a] EXCEPT ![m.slot] = 0]]
          /\ overtaken' = [overtaken EXCEPT ![m.slot] = FALSE]
     ELSE UNCHANGED <<sent, overtaken>>

\* The next command; one whose connection is gone is removed and not handled.
Peek ==
  /\ pc = "peek" /\ ~lockHeld
  /\ IF messageQueue # <<>> /\ live[Head(messageQueue).slot]
     THEN Begin(Head(messageQueue))
     ELSE /\ pc' = IF messageQueue = <<>> THEN "enter" ELSE "peek"
          /\ UNCHANGED <<cmd, arr, call, sent, overtaken>>
  /\ messageQueue' = IF messageQueue = <<>> THEN <<>> ELSE Tail(messageQueue)
  /\ UNCHANGED <<arrayVars, modeVars, lockHeld, listenerVars, served, live, threadFD, got,
                 missed, late, viewing, bounds>>

\* TBS_TCP_GET_LAST_TEST_UPDATE_DATA: a client that has everything gets the last
\* line again, as an update; one that lacks one line gets that.
Compare ==
  LET s == cmd.slot
      n == sent[arr][s] IN
  /\ pc = "compare"
  /\ IF n >= 1 /\ n >= count[arr]
     THEN /\ sent' = [sent EXCEPT ![arr][s] = n - 1]
          /\ pc' = "call" /\ UNCHANGED <<arr, call>>
     ELSE /\ UNCHANGED sent
          /\ IF n >= 1 /\ n >= count[arr] - 1
             THEN pc' = "call" /\ UNCHANGED <<arr, call>>
             ELSE NextArray
  /\ UNCHANGED <<arrayVars, modeVars, lockHeld, listenerVars, messageQueue, cmd, served,
                 clientVars, viewing, bounds>>

\* The arguments of send_test_data, read without the lock, and its early return.
Call ==
  /\ pc = "call"
  /\ IF sent[arr][cmd.slot] >= count[arr]
     THEN NextArray
     ELSE /\ call' = [call EXCEPT !.end = count[arr]]
          /\ pc' = "send" /\ UNCHANGED arr
  /\ UNCHANGED <<arrayVars, modeVars, lockHeld, listenerVars, messageQueue, cmd,
                 served, clientVars, viewing, sent, bounds>>

\* send_test_data: under the lock the lines from the slot's counter to end are sent to the
\* command's descriptor, and lose their newline in the array; the slot's counter is end, also
\* when sendall fails.  A descriptor without a connection is closed, or may be something
\* else's, and sendall succeeds.
SendTestData ==
  LET s == cmd.slot
      batch == sent[arr][s] + 1..call.end
      receivers == {x \in Slots : threadFD[x] = cmd.fd}
  IN /\ pc = "send" /\ ~lockHeld
     /\ lines' = [lines EXCEPT ![arr] = [i \in DOMAIN @ |->
                   IF i \in batch THEN [@[i] EXCEPT !.nl = FALSE] ELSE @[i]]]
     /\ sent' = [sent EXCEPT ![arr][s] = call.end]
     /\ got' = [got EXCEPT ![arr] = [x \in Slots |-> [i \in 1..MaxPrints |->
                 IF x \in receivers /\ i \in batch THEN lines'[arr][i] ELSE @[x][i]]]]
     /\ overtaken' = [overtaken EXCEPT ![s] = @ \/ s \notin receivers]
     /\ \/ served' = TRUE
        \/ receivers = {} /\ served' = served
     /\ NextArray
     /\ UNCHANGED <<count, modeVars, lockHeld, listenerVars, messageQueue, cmd,
                    live, threadFD, missed, late, viewing, bounds>>

\* The array was moved after its address was taken: undefined behaviour, the
\* program may read the old copy (SendTestData) or crash.
SendStale ==
  /\ pc = "send" /\ ~lockHeld /\ call.stale
  /\ pc' = "crashed"
  /\ UNCHANGED <<arrayVars, modeVars, lockHeld, listenerVars, messageQueue, cmd, arr,
                 call, served, clientVars, viewing, sent, bounds>>

\* Mutant: the handler waits after every command.
FinishWaiting ==
  /\ pc = "finish"
  /\ viewing' = (viewing \/ served)
  /\ served' = FALSE /\ cmd' = NoCommand
  /\ pc' = "enter"
  /\ UNCHANGED <<arrayVars, modeVars, lockHeld, listenerVars, messageQueue, arr, call,
                 clientVars, sent, bounds>>

\* A row of which a client was sent something has TESTVIEW from now on.
Finish ==
  /\ pc = "finish"
  /\ viewing' = (viewing \/ served)
  /\ served' = FALSE /\ cmd' = NoCommand
  /\ pc' = "peek"
  /\ UNCHANGED <<arrayVars, modeVars, lockHeld, listenerVars, messageQueue, arr, call,
                 clientVars, sent, bounds>>

-------------------------------------------------------------------------------
HandlerStep == \/ Wait \/ Peek \/ Compare \/ Call
               \/ SendTestData \/ SendStale \/ Finish

ListenerStep == \/ CheckNewline \/ StartUpdate \/ ReadDescriptor \/ PushUpdate \/ SignalUpdate

Crashed == pc = "crashed"

Next ==
  /\ ~Crashed
  /\ \/ TestOutput
     \/ UpdateTestDataQueue
     \/ \E status \in {"Passed", "FAILED"} : UpdateStatus(status)
     \/ Lose
     \/ SetBurnoutTest
     \/ ListenerStep
     \/ \E s \in Slots : Connect(s) \/ Leave(s) \/ Request(s)
     \/ HandlerStep

\* The threads go on when they can; nothing makes tests print or clients ask.
Fairness ==
  /\ WF_vars(~Crashed /\ HandlerStep)
  /\ WF_vars(~Crashed /\ ListenerStep)

Spec == Init /\ [][Next]_vars
FairSpec == Spec /\ Fairness

-------------------------------------------------------------------------------
Commands == [slot : Slots, kind : {"TSTDAT", "TSTDAX", "SINGLX"}, fd : Descriptors]

\* Type correctness; the counts never exceed the lines in memory, so no index of
\* queueTestData or updateTestDataStatus is outside of the array.
TypeOK ==
  /\ lines \in [Arrays -> Seq(Line)]
  /\ count \in [Arrays -> 0..MaxPrints] /\ \A a \in Arrays : count[a] <= Len(lines[a])
  /\ testType \in TestTypes /\ isBurnout \in BOOLEAN
  /\ previous \in Arrays \cup {"NONE"} /\ lockHeld \in BOOLEAN
  /\ listener \in [at : {"idle", "check", "start", "push", "add"}, array : Arrays,
                    kind : {"", "TSTDAX", "SINGLX"}, todo : SUBSET Slots,
                    next : Commands \cup {NoCommand}]
  /\ script \in {"any", "line", "failure"}
  /\ messageQueue \in Seq(Commands) /\ cmd \in Commands \cup {NoCommand}
  /\ pc \in {"enter", "waiting", "peek", "compare", "call", "send", "finish",
             "crashed"}
  /\ arr \in Arrays /\ served \in BOOLEAN
  /\ call \in [end : 0..MaxPrints, stale : BOOLEAN]
  /\ live \in [Slots -> BOOLEAN] /\ viewing \in BOOLEAN
  /\ threadFD \in [Slots -> Descriptors \cup {0}]
  /\ \A s \in Slots : live[s] <=> threadFD[s] # 0
  /\ sent \in [Arrays -> [Slots -> 0..MaxPrints]]
  /\ got \in [Arrays -> [Slots -> [1..MaxPrints -> Line \cup {NoLine}]]]
  /\ overtaken \in [Slots -> BOOLEAN] /\ missed \in BOOLEAN /\ late \subseteq 0..MaxPrints
  /\ printed \in 0..MaxPrints /\ asked \in 0..MaxAsked /\ left \in 0..MaxLeft
  /\ lost \in 0..MaxLost

\* A connection's counter never runs ahead of what its client was sent, so no line
\* is skipped for good: whatever the listener appends, updates and takes back in
\* between, and whichever requests set the counter back.  Not so when a command that a
\* client left behind, or that was read for it, is answered for the next one in its slot:
\* its lines go to the old descriptor, and the slot's counter counts them.  While nobody
\* leaves, that does not happen.
CounterHonest ==
  \A a \in Arrays, s \in Slots :
    /\ live[s] /\ ~overtaken[s] => \A i \in 1..sent[a][s] : got[a][s][i] # NoLine
    /\ left = 0 => ~overtaken[s]

\* The types, with counts that stay inside the arrays, and counters that skip nothing.
FeedInv == TypeOK /\ CounterHonest

\* Nothing is on its way from the tests to the clients.
Quiet == listener.at = "idle" /\ messageQueue = <<>> /\ pc \in {"enter", "waiting"}

\* When nothing is on its way, every client shows the present text of every line it was
\* sent, but of those after which a new one came while an update was on its way: a handler
\* that then finds a new line sends that instead of the update (TDServer.c:820-862).  (Row
\* without TESTVIEW: see missed.  In burn-in mode lines are taken back, and the client's are
\* not.)
TextsCurrent ==
  Quiet /\ ~isBurnout /\ ~missed =>
    \A s \in Slots : live[s] /\ ~overtaken[s] =>
      \A i \in 1..sent["TEST"][s] :
        i \in late \/ got["TEST"][s][i].text = lines["TEST"][i].text

\* As long as no message is lost, and no test prints diagnostics between a line and
\* its status (Debug), threadHandler is never left locked: in burn-in mode no status
\* goes to updateDiagnosticDataStatus.
LockReleased == lost = 0 => ~lockHeld

\* As long as no message is lost, burn-in mode takes back no line of a test that
\* failed.
FailuresKept ==
  [][lost = 0 => \A i \in 1..count["TEST"] :
       lines["TEST"][i].status = "FAILED" =>
         i <= count'["TEST"] /\ lines'["TEST"][i].status = "FAILED"]_vars

\* A handler that is awake sends what there was when the command was pushed.
AwakeServes ==
  \A s \in Slots, n \in 1..MaxPrints :
    (/\ pc \notin {"enter", "waiting"} /\ ~isBurnout
     /\ \E i \in DOMAIN messageQueue :
          messageQueue[i].slot = s /\ messageQueue[i].kind = "TSTDAX"
     /\ count["TEST"] >= n)
      ~> (sent["TEST"][s] >= n \/ ~live[s] \/ isBurnout \/ Crashed)
===============================================================================
