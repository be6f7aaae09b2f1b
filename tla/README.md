# Verification of TestBase

TestBase is a hardware test suite for boards. `TestDispatcher` runs on the board: it
executes the tests of a database one after the other and serves *clients* (Test Consoles)
that watch the output over TCP and answer the questions the tests ask the operator. The
tests are programs of their own that print, and ask, through System V message queues. This
directory holds TLA+ models of that program, the TLC runs that check them and the TLAPS
proofs about them.

## 1. The system

| Part | State | Operations |
| --- | --- | --- |
| Message queue (`DataStructures/queue.c`) | ring buffer: capacity, front, rear, count, slots | create, add (doubling when full), peek, get |
| Connection table (`TDServerThreads.c`, `TDServer.h`) | per row of 10 slots: address, descriptor, MAC, status, partial command, counters; `openThreads`; MAC lookup table | find or claim a slot, remove a client, look up by descriptor or MAC |
| Server loop (`TDServer.c`, `createServer`) | open sockets, `their_addr`, `sin_size` | accept, datagram, BYEBYE, data, end of connection |
| Handler threads (`threadCommandHandler`, `handle_thread_event`) | a thread per row; the command it peeked at; `skipToQuestion` | wait, peek, decide, drop or handle, show the question |
| Questions (`TDTestFunctions.c`, `TDCommandHandler.c`, `Prompt.c`) | `question`, pauses, the boxes clients show, the question queue | ask, show, answer, defer, withdraw |
| Repair lock (`TDCommandHandler.c`) | `repairLock`, `repairCounter`, SIGALRM timer | lock, unlock, withhold a question, time out |
| Test data feed (`TDTestFunctions.c`, `send_test_data`) | `testData`, `TESTCOUNT`, a counter per connection | append, update status, notify clients, send what is new |
| Life cycle (`TestDispatcher.c`, `TDThreadHandler.c`, `TDSignalHandler.c`) | `IPCSTATUS`, `serverStatus`, `threadStatus`, the message queue | start, serve, shut down, store before a restart |
| Test execution (`TDTestFunctions.c`, `DBFunc.c`) | attempt, sequence, lines in memory; temporary test data and printouts in the database | choose tests, run, store, restart, continue, print |
| Board data (`BoardInfo.c`, `default_broadcast`) | `boardInfo`, the global `BoardInfo`, the file board.info | look up, ask, take from a client, write |
| Database connection (`DBFunc.c`) | `ConnectionStatus`, three ODBC handles | connect, query, disconnect |
| Log files (`saveTestConfig`, `send_filesystem_data`) | files of /var/log | strip and write, list, send |
| Page allocator (kernel module) and memory test | blocks of pages, a lock a zone, entries of /proc | load, allocate, read, write, free, unload |
| CPU, drive, serial, LED and mouse tests | child processes; content of a drive; bytes under way; colours | measure, write and restore, echo, ask |

The parts interact as follows. The *server thread* reads sockets, claims slots of the table,
pushes complete commands on the queue of the slot's row and signals the row's *handler
thread*. The *IPC listener* takes the messages of the tests: output goes to the feed, which
pushes an update command for every client, and a question goes to `question`, after which
the handler shows it to the clients. An answer comes back as a command; the handler
recognises it, replies on the question queue and the *test*, which has blocked on that
queue, goes on. A broadcast that brings board data a test was asking for withdraws the
question. One mutex, `threadHandler`, protects the queues and the writes of `question`;
almost everything else is shared without protection. *main* finds out which board it is on,
runs the tests, and stores their output in the database so that a restart in the middle can
be continued.

What is hard to test here is listed in `PROJECT.json` under `hazards`, each at its line:
signals that nobody waits for, a question that changes between a test and its use, slots and
descriptors that are reused, commands peeked at under one hold of the lock and dequeued
under another, a queue that grows, a timer that is reset, a crash between two statements, a
query that fails half way, data of the board that two threads test and assign with no lock.

What makes each part correct:

- queue and framing: nothing is lost, duplicated or reordered, whatever the indices do, and
  what a client sent as one command is handed over as one;
- table: what a client sends is taken for its own, a client that is there is served, by one
  thread, and a slot forgets its last client;
- dispatch: commands are handled in order and once; every question gets exactly one reply,
  and it is the reply to that question; a pending question is shown; a lock ends;
- feed: every client ends up with every line and its last status, and what is sent for a
  client goes to it;
- life cycle: the program starts, and stops, without waiting for itself and without using
  what it has destroyed;
- sessions: no line that was stored is lost, and no test left out, by a crash or restart;
- board data: the three copies agree and hold what operator and client said;
- database: a query gives its own result or fails, and the next one can be served;
- allocator and test programs: what is allocated is freed, what was on a device stays, and a
  verdict follows from what was measured.

## 2. Modules

### The server

`CommandQueue` models the ring buffer: one action per operation, and the growth. Its
variables are the fields of `QueueDataPacket`. Every operation runs under `threadHandler`,
so each is atomic. `FifoQueue` is the abstract specification: a bounded first-in first-out
queue which promises nothing once a command has been added while it was full. `CommandQueue`
implements it (property `RefinesFifo`) with the sequence of the slots from the front on as
`contents`. `QueueReader` adds the handler: it takes a pointer to the front slot, dequeues
the element under another hold of the lock and reads through the pointer after that, while
the server thread adds.

`CommandFraming` models how the bytes of a client become commands (`pushThreadCommand`, with
the slot's `BUFFER`): a byte knows its command and how many follow (`place`, `left`), the
wire delivers any pieces of up to `ChunkSize` bytes, `MaxBuffer` is the bound of 2048 bytes,
and a connection may end in the middle of a command, whose bytes the next client of the slot
inherits. `handed` is what was last put on the queue.

`ConnectionTable` models the table and the server thread. The two-dimensional C table is a
function over slots counted row by row, which is the order the code scans them in. One
iteration of the select loop is one action, because only the server thread writes these
variables: `Accept`, `Datagram`, `Byebye`, `Receive` (data), `Disconnect` (`recv` gave 0 or
-1) and `HandlerExit`, the one step of a handler that depends on the table. `StopSlot`,
`FoundTable` and `Spawns` are `getThreadForFileDescriptor`: where the scan stops, what the
table is afterwards, whether a thread is created. Descriptors are allocated lowest first, as
the operating system does. `owner` says which client is at the other end of a descriptor;
the program does not know it, the properties do. Commands are reduced to `lastPush`: which
client sent, which slot was charged.

`CommandDispatch` models one row at work: the server thread, the IPC listener, the handler
threads, the timer, and a test that asks. `pc` follows a handler through
`threadCommandHandler`, `handle_thread_event` and `userAnswerQuestion`. An action is a
section under `threadHandler`, or a test of unprotected state with the step it leads to, so
a handler that has tested `question` may find it gone a step later. A `pthread_cond_signal`
wakes one waiting handler or is lost. Reading a question that has been freed is `crashed`.
The message queue is the FIFO that `CommandQueue` implements: this is sound while fewer than
150 commands wait. Commands and questions carry history numbers that only the properties
read; the program tells questions apart by their text. `MaxPushed` commands have a number;
after that clients may go on responding without end, one response at a time, each under the
last number again. Clients are external: they show the last box they were sent, close it
when told or when they answer, and answer only what they show. A second handler thread for a
row is possible in the program: when the client of the first slot leaves while others stay,
the next client takes that slot and starts one. The runs have one handler, which excludes
just those connections.

`TestFeed` models how output reaches the clients of one row: the listener's branches for
output with the functions they call, the handler's answers to the commands these push, and
`send_test_data`. Test data and diagnostic data are sequences of lines (`lines`) with their
counts; a text is a number, because properties only ask which text it is. `script` holds
what a test may print next, as the tests in `src/` do: a whole line, or a line, new texts
for it and its status; `TestOutput` is the message and the listener's handling of it. What
the listener does without the lock is a step of its own (`CheckNewline`, `StartUpdate`, each
`ReadDescriptor` before its `PushUpdate`, `SignalUpdate`), and so is the handler's reading
of the counts (`Compare`, `Call`) before `SendTestData`. A line that burn-in mode took back
stays in memory, and the next one is written in its place. `Lose` is a full IPC queue,
`SendStale` the use of an array that `realloc` has moved: undefined behaviour, which may
crash. A command keeps the descriptor of the client it was pushed for: `SendTestData` sends
to that descriptor, whoever has it by then or nobody, and counts for the slot, whose next
client may have another descriptor. `got` records what each client was sent, `overtaken` the
slots whose counter counts lines that went elsewhere, and `late` the lines after which a new
one came while an update was on its way; only properties read them.

`ThreadLifecycle` models how the threads start and end: main's start-up with its waits
(`WaitForThreads` polls the two statuses), the listener with the kernel's queue, of which a
dispatcher before this one may have left packets behind, the server thread, the frame of the
handler (start, test of the slots, wait, leave), and the shutdown that a signal runs on the
main thread, step by step, on top of whatever main was doing. `powerDown` is the program
that asks that all output be stored; storing may stop at any insert (`ListenerStores`), and
`tally` says how many packets were accepted, kept and stored. The use of a lock that is not
made yet, or destroyed, sets `main` to `"crashed"`.

### Sessions, board and database

`TestSession` models `beginTesting`, `functionalTest`, `burninTest` and
`saveUnPlannedTestData` with the attempt and sequence they continue, over the tables of
`TestDatabase`. A function of `DBFunc.c` is a *script* of statements that are executed one
step each; the machine may go down between any two (`PowerOff`), and one statement or query
may fail. Tests send lines and may ask for a restart, upon which the listener stores
everything as planned data. The end of a burn-in that found a test for every sequence number
removes the stored lines (`TimeIsUp`): the loop that frees the tests leaves its index at
their number. `seen` is history.

`BoardSetup` models the first half of `beginTesting`: speed, MAC, serial number, tester,
revision, finished good number and name, each looked up, read from board.info, asked of the
operator or taken from a client's broadcast, which comes at any moment on the server thread,
as does a login. No lock protects the fields, so to test one, to assign it, to read it for
its setter and to set `BoardInfo` and the file are steps of their own, of main (`Fill`,
`Answered`, `Assign`, `CallSetter`; `held` is what it has in hand) and of the server
(`TakeOver`, `Tell`). Creating, opening and writing the file may fail, and nobody asks. A
value is a number that says where it came from, because the properties only ask that.
Queries run over `DatabaseQuery`, which says what `databaseExecSQL` promises;
`DatabaseConnection` is that function and what it calls, one step for every ODBC call
another user of the shared handles can come before, and implements it (`KeepsPromise`).

`LogFiles` models a configuration that main strips of comments, character by character, and
stores (`saveTestConfig`), while a handler lists the file and sends it: four looks at a file
that may change in between, or may not open any more.

### Kernel module and test programs

`PageAllocator` models the kernel module: loading, which may fail at any of its /proc
entries, allocation, one page a step under the zone's spin lock, the two files of the block,
either of which may fail to be created (`AllocateEnd`; the driver then says that the
allocation failed only when neither was), writing, reading, freeing, unloading. Counts are
taken modulo `ULong`. `MemoryTest` composes it with the one program that uses it, with the
rest of the system, which takes pages, and with a signal.

`TestOutput` holds the rows a test program prints and the status that goes to the last of
them. `CpuTest` (a stack of processes), `DriveTest` (content of a drive, calls that fail,
detection from /proc), `SerialTest` (bytes that come late, the operator's retries) and
`PortTests` (LED and mouse test) are programs over it, and `TestPrograms` is the run of any
one of them, as `functionalTest` runs them.

### MC modules

An `MC` module gives a model its constants. Three of them let two models that share no state
run *side by side*: `MCCommandQueue` (the queue with its reader; the framing),
`MCTestSession` (the sessions; the log file) and `MCBoardSetup` (the setup over the promise;
the connection). `part` is chosen at the start, and the other model keeps still, so a
behaviour is one of the one model or of the other.

The `_proofs` modules hold theorems and the invariants they rest on; nothing else uses them.
An operator with a comment `Mutant:` is a changed form of the definition after it; nothing
uses it but the test that the properties notice the change.

## 3. Runs

Passing runs. An invariant that ends in `Inv`, and those in parentheses, is a conjunction of
the named properties in its module, the types among them.

| Run | Checks | Bounds |
| --- | --- | --- |
| `command_queue` | `RingInv`, `RefinesFifo`, `HeldCommandIntact`; `FramingInv` (`WholeOnly`, `OneWrongPerTear`, `NothingWithheld`) | 3 commands, capacity 3, growing once to 6; one slot, commands of 2 and 7 bytes, pieces of up to 4, a buffer of 6, 4 commands sent |
| `connection_table` | `TableInv` (`LiveRowServed`, `MacBelongsToIp`); up to the first closing or misrecorded connection `OrderlyService` (attribution, one handler, refusal) | 3 clients, descriptors 0..3, 2 rows of 2 slots, at most 2 threads a row |
| `dispatch` | `RepliesInv` (`OneReply`), `InOrderOnce` | 2 clients, 2 slots, 2 commands and then responses without end, 2 questions, 2 texts, 1 timer interval |
| `dispatch_live` | `WakeSettles`, `TimerReleases` | 2 clients, 2 slots, 2 commands (locks and deferrals) and then responses without end, 1 question, 2 timer intervals |
| `feed` | `FeedInv` (`CounterHonest`), `TextsCurrent` | burn-in test, 2 connections, 3 descriptors, 3 lines, new texts or departures in all, of the latter 2, 1 request (`Bound`) |
| `feed_live` | `LockReleased`, `FailuresKept`, `AwakeServes` | both types of test, 1 connection, 2 lines or new texts, 1 request, 1 message lost |
| `lifecycle` | `StartInv` (`ReadyWhenTesting`), `CalmShutdown` (`CalmNeverCrashes`, `LocksOutliveUsers`), `SafeMeansStored`, `ShutdownEnds` | 1 handler, 1 connection, 1 command, 1 packet of output, any number of it stored, a queue of 2 packets, both kinds of signal |
| `session` | `StoredInv` (`NothingLost`), `PrintoutsFinal`, `NoTestSkipped`, `FinishedSaved`; `ConfigurationStripped`, `FilesInv` (`SentAsListed`, `SilenceLeaks`) | 2 attempts, 3 starts of the machine, 1 statement or query that fails, 1 line of test and 1 of diagnostic data; texts of 6 characters, 2 requests |
| `board` | `RecordsInv` (`RecordsAgree`, `ClientHonoured`, `MacKept`), `JudgedRight` (`FgJudgedRight`, `LoginHonest`); `ConnectionInv` (`ConnectionHonest`), `KeepsPromise` | 2 users, 2 starts, 1 of 4 broadcasts or a login, 2 driver calls that fail; the second start up to its MAC (`Explored`) |
| `memory` | `BlocksInv` (`PagesOnce`, `SizeCovered`, `FilesMatchBlocks`), `NoFalseFailure`, `FaultReported`, `BlocksGivenBack`, `NeverStuck` | 4 low and 10 high pages, 3 blocks, 2 pointers a page, 1 failing allocation or block without its files, 1 page taken by others |
| `programs` | `RowsInv` (`OwnStatus`, `AllReported`), `CpuPassHonest`, `DriveRestored`, `DriveVerdictHonest`, `AnswersJudgedRight` (serial and mouse test), `AskedColourShown` | 3 CPUs, drives of 2, 6 and 8 units, regions of 1 to 3 and one too large, 1 failing fork or drive call, 2 settings of 2 patterns, 2 late bytes, 3 retries, 2 bytes of the keyboard |

The bounds are the smallest in which the cases of interest occur. Capacity 3 gives a ring
that wraps with one, two and three commands in it, and every position of the front at the
moment of growth. A command of 7 bytes does not fit the buffer of 6, one of 2 comes in one
piece or two, or together with another. Two slots a row give a first slot, which creates a
thread, and one that does not; two rows give a row that is never opened; three clients and
three free descriptors let a client leave, another take its slot and its descriptor and the
first come back, and let the row fill up, a client connect twice and one be turned away. Two
clients give an owner of the repair lock and one that is locked out, an answer and a late
second answer; two questions give a late answer to the first; two intervals let the timer
run, be reset and expire, and responses without end let it be reset for ever (`dispatch`,
which has more kinds of commands, has one interval). In the feed, two prints give a line
taken back and another in its place, a failed line before one that passes, a line that gets
a new text, and a line of each array; a third gives a new line behind one whose update is on
its way; two connections give one that has the lines and one that leaves, comes back and has
none; a third descriptor lets it come back on another one, and a second departure lets the
other client get the old one. A queue of two packets gives a release packet behind output,
one that finds no room, and one that was there before. Three starts give a session, its
continuation, and one that finds what the continuation left; attempt 2 has a gap in its
sequence numbers. Two failing driver calls let a query fail and the clean-up after it fail
too. Ten high pages give blocks whose array has several entries and one that is cut short in
the middle of an entry; drives of 2, 6 and 8 units give regions that overlap, that do not
fit, and that are apart. The bounds on what happens at most so often are the constants
`MaxPushed`, `MaxAsked`, `MaxCapacity`, `MaxSent`, `MaxHandlers`, `MaxPrints`, `MaxLeft`,
`MaxLost`, `MaxOutput`, `MaxConnects`, `MaxCommands`, `MaxSessions`, `MaxFails`,
`MaxDbFails`, `MaxTestLines`, `MaxDiagLines`, `MaxRequests`, `MaxText`, `MaxOthers`,
`MaxForkFails`, `MaxIoFails`, `MaxLateBytes`, `MaxRetries` and `MaxKeys`; `Intervals` is 5
in the code. In `board` the constraint `Explored` leaves out behaviours in which queries
overlapped *and* driver calls failed: nothing is promised there; and it follows the second
start only until main has the MAC that the first one left in the file, as everything else
begins anew. In `feed` the constraint `Bound` keeps lines and new texts, closed connections
and the switch to burn-in to three together, two of them when there is diagnostic output as
well, and the commands that wait to four.

Deadlock is not checked where the program may really stop: when its clients and tests have
nothing more to say (`dispatch`, `feed`), when it has ended or waits for a lock it holds
(`lifecycle`), when the machine is off for good (`session`), and when the operator gives up
(`board`).

Properties name the cases in which they do not hold, most by history variables, and so say
what does go wrong: a command that a client left behind and that is answered for the next
one in its slot (`overtaken`: the lines go to the old descriptor and the slot counts them),
an update that fell between the sending of the first lines and the setting of TESTVIEW
(`missed`), a new line that came while an update was on its way (`late`), a lost message
(`lost`), an insert that failed before the reply "safe" (`tally.failed`), a field of the
board that main and the server assigned across each other (`crossed`), a block with one of
its files (`halfFiled`), responses without end (`Responds`), `orderly`, `calm`, `lossy`,
`overlapped`, `halfClosed`, `dented`, `dropped`. In burn-in mode clients keep lines that
were taken back.

One run ends in a counterexample, of a sentence in a comment which the code does not keep
(`findings` in `PROJECT.json` quotes it):

| Run | What happens |
| --- | --- |
| `session_restart` | What a test that asks for a restart has printed is stored under the attempt below its own (`info->attempt-1`, DBFunc.c:1090), and unplanned lines are printed under another one still: the operator who continues gets other tests, or none. |

### What else the models show

These come out of the models as behaviours, and of no promise in the code.

Server:

- Growing the queue loses commands: the ring is not unrolled, and the last old slot is
  cleared (queue.h:87, queue.c:280). The handler may then read freed memory.
- A client's two commands that arrive together are taken for one (`WholeOnly` speaks of
  clients that wait).
- A BYEBYE after the end of the connection closes descriptor 0 or a stranger's
  (TDServer.c:507-514): the MAC of a slot outlives its connection.
- Only the first row of slots is ever used, although TDServer.h allows 150 connections
  (`ScannedSlots`: `openThreads` is raised only to a row that was found). The first
  connection is recorded under the sender of the last datagram (`Accept` with `sinSize`
  FALSE). Bytes of a recorded client take a slot that was left in front of its own; after
  somebody left, commands go to wrong rows, a row gets a second thread, and clients are
  turned away though there is room.
- The handler uses a question that was withdrawn since its test (TDServerThreads.c:1010),
  sends one that was composed before it was withdrawn, and a broadcast withdraws whatever
  question is pending (TDCommandHandler.c:977). Responses are matched by their text, so an
  answer to an earlier posting counts for a later one of the same text.
- A question posed while the handler is busy is not shown until somebody sends a command:
  the signal is lost (TDServerThreads.c:830-836).
- After a response the repair timer is not started any more (TDCommandHandler.c:107). Every
  response sets the count of a running one back, so a client that goes on deferring its
  question, leaving and coming back keeps the board locked for ever: without the first part
  of `TimerReleases` TLC shows that loop.
- A failed lookup unlocks a mutex that is not locked (TDServerThreads.c:722), or reads the
  table at -1 (TDServer.c:542); the MAC lookup table can be written past its end
  (TDServer.c:971); the command of a client that left is dequeued without the lock
  (TDServerThreads.c:909). The models take each as the step it was meant to be.
- In burn-in mode, the status of a test that printed diagnostics after its line leaves
  `threadHandler` locked (TDTestFunctions.c:252); `memoryTest` does so with its option
  debug, which is why the feed runs have `Debug` FALSE. `jIterator` is not set back between
  rows (TDTestFunctions.c:155).
- A command that waits when its client leaves is answered to the descriptor it came from
  (TDServerThreads.c:981), which may be closed or a later client's by then, while the
  counter of the slot moves on: the next client of the slot never gets those lines, unless
  it asks for all of them, and a client in another slot may get them twice.
  `updateUserQueues` reads the descriptor before it takes the lock, with the same effect.
- A handler that finds a new line when it comes to an update sends the line instead of the
  update (TDServer.c:820-862). The next update starts at the line that was last by then, so
  the client goes on showing the old text, or no status, of the line before.

Life cycle:

- Output that comes before the server thread made `threadHandler` crashes the listener. A
  release packet that an earlier dispatcher left stops the new listener at once, and one
  that finds the queue full is lost, after which the shutdown waits for ever. With `--debug`
  main never gets past the wait for the listener. The server says it runs before its sockets
  are open.
- A signal between the handler's test of its slots and its wait finds nobody, and the
  shutdown polls for ever; so does one whose row is served by two threads, which share one
  status. A signal inside `getPreviousTestData` locks a mutex its own thread holds.
- `storeCurrentTestDataInDatabase` removes what was stored before it inserts, stops at the
  first insert that fails and has no result: `powerDown` is told that it is safe all the
  same (TDTestFunctions.c:659, TDThreadHandler.c:248-258).
- The server thread is never stopped, test data is freed before the handlers have stopped,
  and nothing calls `powerDown`.

Sessions and board:

- A burn-in that ran its time with a test for every sequence number removes the stored lines
  and prints nothing (TDTestFunctions.c:1282-1295): what was stored when a test asked for a
  restart is gone. Stored lines are also lost by a query for them that fails before they are
  cleared, and by a printout that fails before they are removed (TDTestFunctions.c:1474 has
  the window between deletion and insertions). A restart in burn-in stores the number of
  tests less one; restored lines appear twice; planned rows are dropped when a new attempt
  is begun; `getRepairTestLevel` never deselects; the last lines of a test that come two
  seconds after its end are lost. Apostrophes in lines are not escaped.
- A broadcast that comes before main has read board.info writes a MAC of 0 over it, and the
  crash between emptying and updating the file loses it; a full file with MAC 0 is never
  asked for again, and one that is too short is used uninitialised.
- The server and main test and assign the serial number, the finished good number and the
  initials with no lock (TDCommandHandler.c:968-1055, TDTestFunctions.c:979-1031). What one
  of them assigns on an earlier look replaces what the other has settled in between: the
  board then has one value, `BoardInfo` or the file the other; testing goes on with a
  client's number that nobody looked up, also without a race of assignments when the number
  comes between main's two looks at it (TDTestFunctions.c:1025-1028); and initials just
  entered can be cleared (`crossed`). Neither the creation nor the writing of board.info is
  checked: a file that cannot be written keeps what it had.
- A malformed datagram leaves `handleDefaultMessage` TRUE, and main waits for ever
  (TDCommandHandler.c:944). The blank answer with which a question is withdrawn counts as an
  answer to the MAC, revision and retry prompts. `updateBOMRev` is the wrong way round and
  `--rev` is ignored. A wrong finished good number of a client can never be corrected, the
  operator's never reaches `BoardInfo` and the file, and a number with leading zeros is
  asked for again.
- Two threads use one database connection without a lock: a query can run on the statement
  of another (`overlapped`). When `databaseDisconnect` fails, the status stays connected,
  and no later query is served (`halfClosed`).
- The configuration loses its last character; a comment directly after another, and `/*/`,
  are not stripped rightly; an empty one writes in front of the buffer, and one of more than
  32767 characters overruns a `short`. A file is sent with two bytes more than announced;
  when it is written between count and read, the client loses its place. An empty file, or a
  failed send, gets no answer and leaves a descriptor open; a file that cannot be opened, as
  there is none or no descriptor is left, gets no answer and costs none.

Test programs:

- A drive passes if any one of its three regions is found equal; on a small drive the last
  region starts beyond the end; a region that was found unequal is not restored. A second
  drive of a controller is never found, nor any floppy drive.
- The status of a CPU test is read from the child before it when `fork` fails, and a child
  that cannot be bound counts as a success. `resetPort` sets settings that were never saved;
  failed attempts leave the port open and bytes in it, which later patterns may match. The
  mouse test polls for ever when there is no mouse.
- A line that is too long is dropped, and its status goes to the line before (Prompt.c:453).
- A block whose files could not be created (page_alloc.c:674, 694) keeps its pages. With one
  of the two the driver reports success: the test then writes pages it cannot read and
  compares with what the buffer had, or reads what it did not write, and fails on sound
  memory.
- `allocate_pages` returns with the zone's lock held when no page is left
  (page_alloc.c:209): the next user of the zone spins for ever.

## 4. Fairness

`FairSpec` of `CommandDispatch` assumes weak fairness of each handler thread, of the steps
the server thread has begun, of the listener, of the test that reads its reply and of the
timer. `TimerReleases` says, on top of that, what responses without end take away: a
response is a client's, and no fairness is assumed that would stop clients from sending. In
`TestFeed` it assumes weak fairness of the handler and of the listener within one message;
tests need not print and clients need not ask. Each is a thread, or a signal, of its own,
scheduled by the operating system, whose step stays enabled until it is taken; no lock is
held across an action, so no step is disabled by others again and again. Nothing is assumed
of clients (they may stay silent for ever) or of a wait that nobody signals. The steps of a
program that has crashed are not fair, hence `Crashed` in the conclusions.

`ThreadLifecycle` assumes weak fairness of main's start and shutdown, of the listener, of
the server thread once it has begun something, and of each handler; and strong fairness of
the steps that take `threadHandler`, because the shutdown polls a status under that lock
without a pause (TDServerThreads.c:237-260) and so makes them impossible again and again,
but gives the lock back between two polls: a thread that waits for it is assumed to get it
at last, as a scheduler that preempts the poller there provides. `TestPrograms` assumes weak
fairness of the thread of the LED test, which takes its mutex whenever it is free; main's
changes of the colour are not assumed.

## 5. Proofs

Each holds for every value of the constants that the named assumption allows.

`CommandQueue_proofs`, for every set of commands and every initial capacity of two or more
(`QueueAssumption`):

- `QueueRingSound`: `Spec => []RingInv`. It joins `QueueTypeCorrect`, where `TypeOK` is
  inductive by itself, and `QueueRingConsistent`, where `RingConsistent` is inductive
  together with `TypeOK`. The arithmetic of the ring is in `RingIndex` (a number at most one
  turn away is reduced by adding or subtracting the capacity once) and `SlotOfValue`.
- `QueueRefinesFifo`: the ring buffer implements `FifoQueue`. `AddStep` and `GetStep` say
  where the waiting commands are after a step; `NextRefinesFifo` turns this into equalities
  of sequences, one case per action. Without `RingConsistent` the rear index need not point
  before the first free place, and the refinement of an addition fails.
- `ReaderHoldsItsCommand`: `ReaderSpec => []HeldCommandIntact`. The property is not
  inductive: it does not say where the slot is that the handler reads. `HeldPlace` adds that
  a peeked slot is the front, and a dequeued one the slot before it. `AddSparesDequeued`
  shows that an addition to a queue with room writes another slot, `SlotBeforeFront` that
  the slot before the front is written last.

And for any slots, lengths of commands, number of commands, and sizes of buffer and pieces
(`FramingAssumption`):

- `CommandsComeWhole`: `FramingInit /\ [][FramingNext]_framingVars => []FramingInv`. What is
  handed over depends on what is in the buffer *and* on the way, so the invariant
  `SlotsGood` is about the two joined. They are pieces of commands (`Pieces`); as long as
  nothing was torn, commands in step, so what ends one command is one (`WholeOnly`); and
  with a client that waits, a tear leaves one end of a command at most, which pays for the
  one wrong command (`OneWrongPerTear`). The lemmas say what putting together and cutting
  off does: `CommandAfter` for sending, `SplitBytes` and `EndsAt` for a piece that arrives.

`ConnectionTable_proofs`, for any number of clients, descriptors, rows, slots a row and
threads (`TableAssumption`: at least one slot, and whole rows):

- `TableKeepsItsPromises`: `Spec => []TableInv`, which is inductive as it stands: a row
  remains served because the types hold, and its threads are counted. The heart is
  `FoundTableRight` about `getThreadForFileDescriptor`: a slot that is claimed and is not
  the first of its row has that one before it in the scan (`RowStartFirst`), which did not
  stop there (`StopSlotFirst`), so the first slot is in use and the row is served already;
  and the MAC that is written is the one looked up for the address. `StoredRight` and
  `RowsServed` carry this over each of the steps that look a connection up. `FirstSlot`
  rests on the least-number principle of the library.
- `OrderlyClientsServed`: `Spec => []OrderlyService`, the attribution of commands, one
  handler for the row and no refusal while there is room, up to the first closing or
  misrecorded connection. None of the three is inductive. `OrderlyIInv` adds, while all is
  orderly, that only slots of the first row are in use (`FirstRowOnly`: so one thread is
  spawned) and that the descriptors in the table are open and those of the clients whose
  address the slot has (`DescriptorsRight`: so a lookup by descriptor finds the sender).

`CommandDispatch_proofs`, for any numbers of clients, handlers, slots, texts, commands,
questions and intervals (`DispatchAssumption`):

- `EveryQuestionRepliedOnce`: `Spec => []RepliesInv`. The reply a test is owed is in one of
  three places: in `question`, in what the server thread withdrew, or in the reply queue.
  `OneReply` says so as an equality of joined sequences; `OwedInOnePlace` turns it into
  cases (`SingleIsAll`: three sequences joined have one element if one of them has it and
  the others have none), and back. `WithdrawnInTransit` adds between which steps a question
  is withdrawn. The theorem holds with several handlers of a row too.
- `CommandsHandledInOrder`: `Spec => InOrderOnce` when there is one handler. `OrderInv` says
  that the queue is ordered and newer than what was handled, and where the command is that
  the handler peeked at: in front, until it dequeues. A response under the last number
  starts the order anew, as it is the only command there is (`NoneLeft`). With two handlers
  it is not true, as both may peek at one command; the program has two threads for a row
  only after a connection was closed (see `ConnectionTable`).

`TestFeed_proofs`, for any number of connections, lines, requests, departures and lost
messages (`FeedAssumption`):

- `CountersSkipNothing`: `Spec => []FeedInv`, that a counter does not run ahead of what the
  client was sent, unless a command was answered to another descriptor (`overtaken`), and
  that this does not happen until somebody leaves. `Steady` is what the latter needs: until
  then every command, in the queue, with the listener or with the handler, has the
  descriptor of its slot, so what is sent goes there (`GotSent`). `FeedIInv` adds where
  lines must be for the listener and the handler to find one (`Places`, `Serving`): no index
  of an array is out of its bounds. `Places` is also what makes the status of a line, which
  the listener writes to the last element without looking, go to an element that exists.
- `ClientsShowTheTexts`: `Spec => []TextsCurrent`. `TextsCurrent` speaks of moments at which
  nothing is on its way; `StaleExplained` says of every moment why a client may show an old
  text: an update is still to be pushed, waits in the queue, or is in the handler
  (`UpdateComing`), or one of the named exceptions holds. Stating this showed that the
  exception `late` was missing: it takes three prints, one more than the run had.
- `LockNeverLeftHeld`: `Spec => []LockReleased` when `Debug` is FALSE. As long as nothing
  was lost, the last output before a status is the line it belongs to (`LockIInv`), so
  `updateTestDataStatus` does not take the path that leaves the lock.
- `FailuresNeverTakenBack`: `Spec => FailuresKept`. Nothing is lost before the status of a
  line arrives, so the line it goes to has none yet (`StatusOpen`).

`ThreadLifecycle_proofs`, for any finite set of handlers, and any numbers of slots, packets,
connections and commands (`LifecycleAssumption`):

- `ThreadsReadyWhenTesting`: `Spec => []StartInv`. Main asks for two statuses, not for the
  locks, so `Places` says what each status means: the server thread says that it runs when
  the locks were made, the listener when it reads; and only a shutdown destroys a lock.
- `OrderlyShutdownSafe`: `Spec => []CalmShutdown`. `OrderlyDown` holds from an orderly
  signal to the end: which lock is gone when main is where, that the row has at most the one
  handler that `started` speaks of (`AtMostOneUser`: the poll of that one variable is
  enough), and that the server thread has no step left that would start another.
  `UsersCounted` turns the number that the definition of an orderly signal counts into this,
  by the library's facts about cardinality.
- `SafeToRestart`: `Spec => []SafeMeansStored`. The request is a packet among the others,
  and that it comes behind the output accepted before is the whole argument: `AskedAhead`
  counts, for a request at place k of the queue, that what was accepted before is in
  testData, in the listener's hands, or among the k - 1 packets in front. What is kept is
  stored with the request, or an insert of that request failed (`Storing`). `RequestOnce`
  adds that there is one request in one place and at most one reply. A packet that is
  dropped, or a listener that was stopped, only leaves `powerDown` waiting.

TLC checked the joined invariant `LifeIInv /\ CalmIInv` before it was proved, with two
handlers and two connections (8.8 million states), and the run checks what follows from it.

`TestSession_proofs`, for any attempts and tests, and any number of sessions, failures and
lines (`SessionAssumption`):

- `PrintedStaysPrinted`: `Spec => PrintoutsFinal`. The statements that append to a printout
  name it by the number they were made with, while others may have been made since in
  another session. `PrintIInv` says that a script fits the place the function is at
  (`ScriptFits`: statements about the board, a deletion with the lines that follow it, or a
  printout), that a printout which is being made is the last (`OfLast`), and that printouts
  are numbered without gaps (`Numbered`), so that the next number is a new one.
- `StoredLinesKept`: `Spec => []StoredInv`. A line is safe while it is in the table, and the
  dispatcher deletes the table to write it again, so where the copy is depends on how far
  the function has got: `MemoryHasAll` (a session in progress has all of the table in
  memory), `DeletionSafe` (before the deletion, what is not printed is to be put back),
  `UnplannedPrinted` and `SequenceKnown` (after a start, what no restart will restore was
  printed first, and what one will restore is recognised as such), `AllPrinted` (the last
  deletion comes after the last printout). All of them hold as long as nothing happened
  after which lines may be gone (`seen.lossy`: an insertion or a query for the lines or the
  printout failed, the machine went down between the deletion and the insertions, an attempt
  that could go on was begun anew, or the end of a burn-in with a test for every number
  removed the lines; `BurnInEnds`). The lemmas follow one part each through the actions that
  can disturb it: `StoredSafeKept`, `MemoryHasAllKept`, and so on. What is restored is what
  the table had (`AtPlacesUsesAll`: choosing by a condition keeps all that meet it), which
  rests on the library's facts about cardinality and on the least-number principle.

- `FinishedTestsReported`: `Spec => []FinishedSaved`. The script that `main` runs after the
  last test prints what is in the table and in memory, while lines of the listener may still
  come, are stored by other statements and may be stored between two statements of the
  printout. `FinishedIInv` has three parts. `Counted`: `main` counts the tests as they end,
  and waits for each. `LinesNew`: a line on its way to the listener is in no array, table or
  script and comes once, so that a stored line which the listener keeps after the printout
  was begun does not exist. `Reported`, from the end of the last test on: what the printout
  has and what the script will print together have every stored line of the session, the
  executions are counted behind the lines and their number is what is missing (`CountsTo`),
  and nothing is left in the table after the deletion.

- `NoTestLeftOut`: `Spec => []NoTestSkipped`, when no statement or query failed: a query
  that fails is answered like one without rows, and a session that finds no rows begins at
  the first test or with no tests. `SkippedIInv` follows the argument over several starts of
  the machine. The rows of the table are of one kind, for a restart or of a session that
  goes on, and those for a restart are of sessions whose chain has run all tests up to the
  sequence they carry (`RowsRight`); so a session begins where its chain has got to
  (`ChainRight`); the cached tests are all those from there on, in order, with the place of
  a test no further back than its distance, and those begun have run (`CacheRight`). That
  the cache has all of them again rests on `AtPlacesUsesAll`, that it is ordered on
  counting: `places <= n` of the chosen ones lie in 1..n. The steps that move rows have one
  lemma (`RowMoves`), those that move the place of the function another (`Moves`).

TLC checked `PrintIInv`, `StoredIInv` and `FinishedIInv` with the constants of `session`,
and `SkippedIInv` with four starts of the machine and no failure (9.2 million states).

`BoardSetup_proofs`, for any number of sessions and requests (`BoardAssumption`):

- `RecordsRight`: `Spec => []RecordsInv`. The four parts say something of moments only: when
  testing begins, or when the file was read. `RecordsIInv` follows each value from where it
  enters. `FieldRight`, for the serial number and the initials, has three phases. Until main
  assigns the field (`Unfilled`), the board has it from a client or not at all, and
  `BoardInfo` too unless the server has yet to tell it; in between (`InHand`) main may hold
  an answer while the server assigns one, which is the client's, or is overruled. Then
  (`Filled`) the board has a value, so the server does not assign another, unless it had
  looked before main assigned: just this is `crossed`. And after main's setter (`Stored`)
  `BoardInfo` has it too, whichever of the two threads calls the setter last, because the
  value each of them has read is the board's. `MacOutlives` says where the MAC of the
  session before is at each place: in the file, until it is made anew, and in the board from
  the reading on. TLC checked this invariant with two sessions and two requests (8.6 million
  states).
- `NumbersAndLoginsJudged`: `Spec => []JudgedRight`. `MainAsks` adds that the query for a
  number has the number of the board in hand and counts, so that no rows cannot be taken for
  a refusal, `FgKept` that the server leaves a number alone that is there, unless its look
  and main's assignment crossed, and `UserKnown` what the server has found out between the
  two queries of a login. A step that judges nothing (`Calm`) keeps all of it; the steps
  that begin a query of main or judge by a result have proofs of their own, and so has the
  machine going on and off.

And about the connection that those queries use, for any callers and any number of driver
calls that fail (`DatabaseAssumption`: "none" is not the name of a caller):

- `ConnectionStaysFit`: `ConnectionSpec => []ConnectionInv`. `ConnectionHonest` speaks of
  the moments between queries only; `ConnectionIInv` adds what the query that runs holds at
  each of its steps (`Holds`), for as long as queries did not overlap (`Alone`) and no
  disconnection was cut short (`Sound`).
- `ConnectionKeepsPromise`: `ConnectionSpec => KeepsPromise`, the refinement of
  `DatabaseQuery`. A query never takes the rows of another because a statement that was
  executed holds the rows of the one query that runs, also when an earlier disconnection
  left the connection half closed; and it fails only with a reason because, with what
  `Holds` says, no call is given a handle that does not fit. Every action has one lemma,
  whose conclusion `StepRight` serves both theorems.

`TestPrograms_proofs`, for any number of CPUs and options, any drives of whole blocks that
are less than half of what an offset can hold, any sizes, faults, settings, retries and late
bytes, and any lines too long to be sent (`DriveAssumption`, `CpuAssumption`, and
`SerialAssumption`: patterns that differ from one another, as the two of the array do). One
invariant, `ProgramsIInv`, has a part for each program; a step of a program keeps its own
part, and leaves the others at rest, where they say that nothing has been tested yet.

- `EveryLineHasItsStatus`: `Spec => []RowsInv`. Two predicates of the rows take turns:
  `Closed` (every line has its status) and `Open` (the last one waits, and is what a status
  would be given to). Printing a line takes `Closed` to `Open`, a status takes it back,
  diagnostics keep `Closed` only, so they must not come in between (`LineOpens`,
  `StatusCloses`, `DiagnosticKeepsClosed`). `RowsKept` says that the rows are open exactly
  while the regions of a drive are tested.
- `EveryCpuTested`: `Spec => []CpuPassHonest`. When every number is a CPU to which a process
  can be bound and no fork failed, the processes are a parent and one child at most, the
  parent has covered the CPUs below the one it has got to, and has success only as long as
  none failed (`OneChild`). Only a child that cannot be bound to its CPU goes on with the
  loop and forks children of its own; here there is none.
- `DrivesRestored` and `DrivesJudged`: `RegionTested` says what one region's test does when
  no call fails: either the pattern was read back from each of its places, so none was
  faulty, what had been saved is what was there, and the drive is again as before; or the
  region counts as not restored. This needs nothing about where the region lies, so it
  covers regions that overlap, wrap around or end behind the drive. `RegionsRight` adds
  which regions were tested with which results; only for the verdict do they have to fit,
  and then no addition wraps around (`RegionPlaces`).
- `AnswersRight`: `Spec => []AnswersJudgedRight`. An attempt at the serial port is in step
  (`InStep`: its first byte came back to it, and the driver holds no byte but the one just
  written) or it is not, and then all the bytes it has written stand behind those of earlier
  attempts, with a first pattern in front (`OutOfStep`). It comes in step only with its
  first byte: later, the byte that comes back would be a first pattern, and another is
  expected. To pass out of step, as many bytes must have been late as there are patterns. A
  read without a byte compares what was read last, which is the pattern before, never the
  present one (`PatternsDiffer`). TLC checked this invariant with three patterns and four
  late bytes (1.2 million states).

The same module has the proofs about `MemoryTest` and the `PageAllocator` it extends, for
any pages, blocks, sizes of a page of pointers, faults and pages taken by others
(`PageAssumption`; `TestAssumption`: a test has at most as many blocks as the driver, which
is 31 and 2 of 32). One invariant, `MemoryIInv`, serves four theorems of `MemorySpec`:

- `RecordsOfBlocksTrue`: `[]BlocksInv`. What a block reports is all that keeps a program
  within it, as the driver's own range check never fires. So `CallInv` follows the counters
  of an allocation, which is unsigned: they stay below what the block has, or have gone
  below 0 and stand for a huge number, and then the call fails (`Counting`, `EndReported`).
  `SizesThere` adds that a block of high memory which reports pages has one in its first
  entry: rounding down gives no entry to free otherwise. `PagesApart` is kept by an
  allocation because the kernel gives out free pages, one by one (`TakenOnce`), and by a
  freeing because exactly the blocks that report pages lose them (`FreedEntries`).
- `SoundMemoryPasses`: `[]NoFalseFailure`. The block that is written and read has both of
  its files, or one was left with one (`FiledInv`). A page of high memory that is missing
  leaves the buffer as it was, so the comparison may be with what another page, or another
  block, left there. It does no harm because the first page of a block is there
  (`FirstFound`) and overwrites it, and because all pages of the block hold the block's own
  pattern (`ContentsInv`).
- `FaultsAreReported`: `[]FaultReported`. A faulty page has kept the zeros with which the
  kernel gave it out, and a pattern is never 0 (`ContentsInv`), so the read right after that
  page differs (`BlockRead`). That pages in nobody's hands are zero rests on the model's
  rule that what is given back is no pattern of anybody.
- `TestedBlocksGivenBack`: `BlocksGivenBack`. `ProgressInv` says that the blocks of a test
  that found its zone empty are those below its counter: the driver takes the first free
  block, and a test never skips one.

Only model-checked are the other properties. Liveness under fairness and ENABLED
(`WakeSettles`, `TimerReleases`, `AwakeServes`, `ShutdownEnds`, `AskedColourShown`,
`NeverStuck`) stay with TLC: they are out of reach of the prover. So does what the recursive
functions of `LogFiles` compute (`FilesInv`, `ConfigurationStripped`), which is induction
over data.

## 6. What is not modelled, and the plan

`components` in `PROJECT.json` says of every part whether it is modelled. Left out of the
parts that are modelled in part:

- dispatch: two programs that ask at once, and a second handler thread of a row; the
  requests that only compose an answer from data no other thread changes;
- feed: several rows at once, and `updateDiagnosticTestDataQueue`, which no test calls;
- sessions: the loading of drivers and the start of the programs; the texts of statements;
- board: the other files of /var/log, which only hold text;
- test programs: the BIOS test, which compares two texts.

Not modelled: CPU identification and the PCI library (tables and reads of hardware), the
helpers for strings, files and formatting, the ciphers, which are third-party code, and
`memoryManager.c`, which no program uses.

Next, in this order:

1. `CommandDispatch` with two tests that ask, and with a second handler;
2. `ConnectionTable` composed with `CommandDispatch` (a row of a real table), and `TestFeed`
   with several rows.
