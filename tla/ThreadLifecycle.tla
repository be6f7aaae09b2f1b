---------------------------- MODULE ThreadLifecycle ----------------------------
(***************************************************************************)
(* How the threads of the dispatcher start and how they end: main          *)
(* (TestDispatcher.c), TDThreadHandler.c, createServer (TDServer.c),       *)
(* initializeServerThreads, destroyServerThreads and the frame of          *)
(* threadCommandHandler (TDServerThreads.c), handle_signals                *)
(* (TDSignalHandler.c), and powerDown (OperatingSystemFunctions.c), with   *)
(* which another program asks that everything be stored before a restart.  *)
(*                                                                         *)
(* Only row 0 of the connection table is used: getThreadForFileDescriptor  *)
(* searches rows up to openThreads, and nothing else raises openThreads.   *)
(* A signal is handled on the main thread.  The use of a lock that does    *)
(* not exist yet, or no longer, is undefined: it sets main to "crashed",   *)
(* and what would follow is not modelled.                                  *)
(***************************************************************************)
EXTENDS Integers, Sequences, FiniteSets, FiniteSetsExt

CONSTANTS
  Handlers,    \* the threads that may run threadCommandHandler
  MaxClients,  \* CONNECTIONSPERTHREAD
  QueueSize,   \* packets the kernel keeps in the dispatcher's queue
  LeftBehind,  \* what an earlier dispatcher may have left in that queue
  MaxOutput,   \* bound of the model: packets of output
  MaxConnects, \* bound of the model: connections accepted
  MaxCommands, \* bound of the model: commands pushed
  Signals      \* the kinds of signals that are sent, "hangup" and others

ASSUME LifecycleAssumption ==
  /\ IsFiniteSet(Handlers)
  /\ MaxClients \in Nat \ {0} /\ QueueSize \in Nat \ {0} /\ MaxOutput \in Nat
  /\ MaxConnects \in Nat /\ MaxCommands \in Nat
  /\ \A q \in LeftBehind : Len(q) <= QueueSize /\ q \in Seq({"output", "release"})

VARIABLES
  main,          \* where the main thread is, in main or in handle_signals
  debug,         \* the argument --debug: no listener
  handling,      \* the kinds of signals main is handling
  ipcStatus,     \* IPCSTATUS
  ipcQueue,      \* the packets in the dispatcher's queue; NoQueue when there is none
  listener,      \* where testListener is
  server,        \* where createServer is
  serverStatus,  \* serverStatus
  openThreads,   \* openThreads
  threadHandler, \* state of the mutex: "none", "free", "freed", or who holds it
  row,           \* threadNotifier and threadMutex of the row: "none", "live", "freed"
  clients,       \* the slots of the row that are in use
  started,       \* threadStatus & STARTED
  pc,            \* [Handlers -> where the handler is]
  commands,      \* number of commands in the row's message queue
  restarter,     \* where powerDown is
  rebootQueue,   \* number of replies in the shutdown queue; -1 when there is none
  tally,         \* history: output accepted, put into testData, stored in the
                 \* database, and accepted before the request of powerDown; and
                 \* whether an insert failed when it was stored
  budget,        \* what the bounds of the model leave: connections, commands
  calm,          \* history: nothing happened that a shutdown does not cope with
  missed         \* history: the shutdown signalled a handler that did not wait yet

mainVars == <<main, debug, handling>>
ipcVars  == <<ipcStatus, ipcQueue, listener>>
rowVars  == <<clients, started, pc, commands>>
lockVars == <<threadHandler, row>>
powerVars == <<restarter, rebootQueue>>
vars == <<mainVars, ipcVars, server, serverStatus, openThreads, rowVars, lockVars, powerVars,
          tally, budget, calm, missed>>

NoQueue == <<"no queue">>
Testing == {"restore", "restoring", "idle"}
ShuttingDown == {"disconnect", "break", "stopping", "clear", "signal", "poll", "polled",
                 "destroy", "last"}
Alive == main \notin {"crashed", "exited"}

Init ==
  /\ main = "ipc" /\ debug \in BOOLEAN /\ handling = {}
  /\ ipcStatus = "stopped" /\ ipcQueue \in LeftBehind \cup {NoQueue} /\ listener = "off"
  /\ server = "off" /\ serverStatus = "running" /\ openThreads = 0
  /\ threadHandler = "none" /\ row = "none"
  /\ clients = {} /\ started = FALSE /\ pc = [h \in Handlers |-> "off"] /\ commands = 0
  /\ restarter = "idle" /\ rebootQueue = -1
  /\ tally = [accepted |-> Cardinality({k \in DOMAIN ipcQueue : ipcQueue[k] = "output"}),
              kept |-> 0, stored |-> 0, asked |-> 0, failed |-> FALSE]
  /\ budget = [connects |-> MaxConnects, commands |-> MaxCommands]
  /\ calm = TRUE /\ missed = FALSE

-------------------------------------------------------------------------------
\* ipcSendMessage with IPC_NOWAIT: a packet that does not fit is dropped.
Fits == ipcQueue # NoQueue /\ Len(ipcQueue) < QueueSize
Send(p) == ipcQueue' = IF Fits THEN Append(ipcQueue, p) ELSE ipcQueue

\* pthread_mutex_lock(threadHandler) by a thread: it waits while another holds it.
CanLock  == threadHandler \notin {"none", "freed"}
Lock(t)  == threadHandler = "free" /\ threadHandler' = t
Crash == main' = "crashed"

-------------------------------------------------------------------------------
\* The main thread: start.
CreateIpcListener ==
  /\ main = "ipc" /\ main' = "server"
  /\ IF debug THEN UNCHANGED <<ipcQueue, listener>>
     ELSE /\ ipcQueue' = IF ipcQueue = NoQueue THEN <<>> ELSE ipcQueue
          /\ listener' = "created"
  /\ UNCHANGED <<debug, handling, ipcStatus, server, serverStatus, openThreads, rowVars, lockVars,
                 powerVars, tally, budget, calm, missed>>

CreateServerThread ==
  /\ main = "server" /\ main' = "waitIpc"
  /\ serverStatus' = "stopped" /\ openThreads' = -1 /\ server' = "init"
  /\ UNCHANGED <<debug, handling, ipcVars, rowVars, lockVars, powerVars, tally, budget,
                 calm, missed>>

\* Mutant: the status of the server is not waited for.
WaitForListener ==
  /\ main = "waitIpc" /\ ipcStatus # "stopped" /\ main' = "restore"
  /\ UNCHANGED <<debug, handling, ipcVars, server, serverStatus, openThreads, rowVars, lockVars,
                 powerVars, tally, budget, calm, missed>>

\* waitForThreadRunningStatus: it polls one status, then the other.
WaitForThreads ==
  /\ \/ main = "waitIpc" /\ ipcStatus # "stopped" /\ main' = "waitServer"
     \/ main = "waitServer" /\ serverStatus # "stopped" /\ main' = "restore"
  /\ UNCHANGED <<debug, handling, ipcVars, server, serverStatus, openThreads, rowVars, lockVars,
                 powerVars, tally, budget, calm, missed>>

\* getPreviousTestData queries the database under threadHandler.
GetPreviousTestData ==
  /\ \/ /\ main = "restore"
        /\ IF CanLock THEN Lock("main") /\ main' = "restoring"
           ELSE Crash /\ UNCHANGED threadHandler
     \/ main = "restoring" /\ main' = "idle" /\ threadHandler' = "free"
  /\ UNCHANGED <<debug, handling, ipcVars, server, serverStatus, openThreads, rowVars, row,
                 powerVars, tally, budget, calm, missed>>

\* A signal interrupts main wherever it is, in another handler too; a signal of the
\* kind being handled is blocked.
HandleSignal(kind) ==
  /\ Alive /\ kind \notin handling
  /\ handling' = handling \cup {kind}
  /\ main' = IF kind = "hangup" THEN "break" ELSE "disconnect"
  /\ calm' = (/\ calm /\ main \in {"restore", "idle"} /\ server \in {"off", "sockets", "accept"}
              /\ Cardinality({h \in Handlers : pc[h] # "off"}) = IF started THEN 1 ELSE 0)
  /\ UNCHANGED <<debug, ipcVars, server, serverStatus, openThreads, rowVars, lockVars, powerVars,
                 tally, budget, missed>>

-------------------------------------------------------------------------------
\* The main thread: TdShutDownSequence.
DatabaseDisconnect ==
  /\ main = "disconnect" /\ main' = "break"
  /\ UNCHANGED <<debug, handling, ipcVars, server, serverStatus, openThreads, rowVars, lockVars,
                 powerVars, tally, budget, calm, missed>>

BreakIPCListener ==
  /\ \/ /\ main = "break" /\ ipcStatus = "stopped" /\ main' = "clear"
        /\ UNCHANGED <<ipcQueue, calm>>
     \/ /\ main = "break" /\ ipcStatus = "started" /\ main' = "stopping"
        /\ Send("release") /\ calm' = (calm /\ Fits)
     \/ /\ main = "stopping" /\ ipcStatus = "stopped" /\ main' = "clear"
        /\ ipcQueue' = NoQueue /\ UNCHANGED calm
  /\ UNCHANGED <<debug, handling, ipcStatus, listener, server, serverStatus, openThreads, rowVars,
                 lockVars, powerVars, tally, budget, missed>>

\* destroyServerThreads empties the slots, ...
ClearSlots ==
  /\ main = "clear" /\ clients' = {}
  /\ main' = IF openThreads >= 0 THEN "signal" ELSE "destroy"
  /\ UNCHANGED <<debug, handling, ipcVars, server, serverStatus, openThreads, started, pc,
                 commands, lockVars, powerVars, tally, budget, calm, missed>>

\* ... signals the thread of the row, once, ...
Waiting == {h \in Handlers : pc[h] = "waiting"}
Wake ==
  \/ \E h \in Waiting : pc' = [pc EXCEPT ![h] = "peek"]
  \/ Waiting = {} /\ UNCHANGED pc

\* Mutant: the row is not signalled.
SignalNobody ==
  /\ main = "signal" /\ row = "live" /\ main' = "poll"
  /\ UNCHANGED <<debug, handling, ipcVars, server, serverStatus, openThreads, rowVars, lockVars,
                 powerVars, tally, budget, calm, missed>>

SignalRow ==
  /\ main = "signal"
  /\ IF row # "live" THEN Crash /\ UNCHANGED <<pc, missed>>
     ELSE /\ main' = "poll" /\ Wake
          /\ missed' = (missed \/ \E h \in Handlers : pc[h] = "wait")
  /\ UNCHANGED <<debug, handling, ipcVars, server, serverStatus, openThreads, clients, started,
                 commands, lockVars, powerVars, tally, budget, calm>>

\* Mutant: the status of the thread is not polled.
PollNothing ==
  /\ main = "poll" /\ main' = "destroy"
  /\ UNCHANGED <<debug, handling, ipcVars, server, serverStatus, openThreads, rowVars, lockVars,
                 powerVars, tally, budget, calm, missed>>

\* ... polls its status under threadHandler until it has ended, ...
PollStatus ==
  /\ \/ /\ main = "poll"
        /\ IF CanLock THEN Lock("main") /\ main' = "polled"
           ELSE Crash /\ UNCHANGED threadHandler
     \/ /\ main = "polled" /\ threadHandler' = "free"
        /\ main' = IF started THEN "poll" ELSE "destroy"
  /\ UNCHANGED <<debug, handling, ipcVars, server, serverStatus, openThreads, rowVars, row,
                 powerVars, tally, budget, calm, missed>>

\* ... and frees the queue and the locks of the row, then threadHandler.
Destroy ==
  /\ \/ /\ main = "destroy"
        /\ IF row # "live" THEN Crash /\ UNCHANGED <<row, commands>>
           ELSE main' = "last" /\ row' = "freed" /\ commands' = 0
        /\ UNCHANGED threadHandler
     \/ /\ main = "last"
        /\ CASE ~CanLock -> Crash /\ UNCHANGED threadHandler
             [] threadHandler = "free" -> main' = "exit" /\ threadHandler' = "freed"
             [] OTHER -> FALSE
        /\ UNCHANGED <<row, commands>>
  /\ UNCHANGED <<debug, handling, ipcVars, server, serverStatus, openThreads, clients, started, pc,
                 powerVars, tally, budget, calm, missed>>

Exit ==
  /\ main = "exit" /\ main' = "exited"
  /\ UNCHANGED <<debug, handling, ipcVars, server, serverStatus, openThreads, rowVars, lockVars,
                 powerVars, tally, budget, calm, missed>>

-------------------------------------------------------------------------------
\* The IPC listener.
ListenerStarts ==
  /\ Alive /\ listener = "created" /\ listener' = "read" /\ ipcStatus' = "started"
  /\ UNCHANGED <<mainVars, ipcQueue, server, serverStatus, openThreads, rowVars, lockVars,
                 powerVars, tally, budget, calm, missed>>

ListenerReads ==
  /\ Alive /\ listener = "read" /\ ipcQueue \notin {NoQueue, <<>>}
  /\ ipcQueue' = Tail(ipcQueue)
  /\ IF Head(ipcQueue) = "release" THEN listener' = "off" /\ ipcStatus' = "stopped"
     ELSE listener' = Head(ipcQueue) /\ UNCHANGED ipcStatus
  /\ UNCHANGED <<mainVars, server, serverStatus, openThreads, rowVars, lockVars, powerVars, tally,
                 budget, calm, missed>>

\* Output goes into testData under threadHandler.  The listener runs before the server
\* thread has made that lock: early output finds none.
ListenerKeeps ==
  /\ Alive
  /\ \/ /\ listener = "output"
        /\ IF CanLock THEN Lock("listener") /\ listener' = "keeping" /\ UNCHANGED <<main, tally>>
           ELSE Crash /\ UNCHANGED <<threadHandler, listener, tally>>
        /\ calm' = (calm /\ threadHandler # "none")
     \/ /\ listener = "keeping" /\ listener' = "read" /\ threadHandler' = "free"
        /\ tally' = [tally EXCEPT !.kept = @ + 1] /\ UNCHANGED <<main, calm>>
  /\ UNCHANGED <<debug, handling, ipcStatus, ipcQueue, server, serverStatus, openThreads, rowVars,
                 row, powerVars, budget, missed>>

\* Mutant: the reply goes out before the data is stored.
ReplyThenStore ==
  /\ Alive
  /\ \/ /\ listener = "restart" /\ listener' = "reply" /\ UNCHANGED tally
        /\ rebootQueue' = IF rebootQueue = -1 THEN -1 ELSE rebootQueue + 1
     \/ /\ listener = "reply" /\ listener' = "read" /\ UNCHANGED rebootQueue
        /\ \E n \in 0..tally.kept :
             tally' = [tally EXCEPT !.stored = n, !.failed = n < tally.kept]
  /\ UNCHANGED <<mainVars, ipcStatus, ipcQueue, server, serverStatus, openThreads, rowVars,
                 lockVars, restarter, budget, calm, missed>>

\* IPCSERVERRESTART: storeCurrentTestDataInDatabase, then the reply.  What was stored
\* before is removed first; the first insert that fails ends the storing, and nobody
\* looks at the result: the reply goes out all the same.
ListenerStores ==
  /\ Alive
  /\ \/ /\ listener = "restart" /\ listener' = "reply" /\ UNCHANGED rebootQueue
        /\ \E n \in 0..tally.kept :
             tally' = [tally EXCEPT !.stored = n, !.failed = n < tally.kept]
     \/ /\ listener = "reply" /\ listener' = "read" /\ UNCHANGED tally
        /\ rebootQueue' = IF rebootQueue = -1 THEN -1 ELSE rebootQueue + 1
  /\ UNCHANGED <<mainVars, ipcStatus, ipcQueue, server, serverStatus, openThreads, rowVars,
                 lockVars, restarter, budget, calm, missed>>

\* A test program sends output.
ProgramSends ==
  /\ ipcQueue # NoQueue /\ tally.accepted < MaxOutput
  /\ Fits /\ Send("output") /\ tally' = [tally EXCEPT !.accepted = @ + 1]
  /\ UNCHANGED <<mainVars, ipcStatus, listener, server, serverStatus, openThreads, rowVars,
                 lockVars, powerVars, budget, calm, missed>>

\* powerDown, in a program of its own: it opens the shutdown queue, sends the request,
\* waits for the reply, removes the queue and tells the user it is safe to restart.
PowerDown ==
  /\ \/ /\ restarter = "idle" /\ ipcQueue # NoQueue
        /\ restarter' = "request" /\ rebootQueue' = 0 /\ UNCHANGED <<ipcQueue, tally>>
     \/ /\ restarter = "request" /\ restarter' = "waiting"
        /\ Send("restart") /\ tally' = [tally EXCEPT !.asked = tally.accepted]
        /\ UNCHANGED rebootQueue
     \/ /\ restarter = "waiting" /\ rebootQueue > 0
        /\ restarter' = "safe" /\ rebootQueue' = -1 /\ UNCHANGED <<ipcQueue, tally>>
  /\ UNCHANGED <<mainVars, ipcStatus, listener, server, serverStatus, openThreads, rowVars,
                 lockVars, budget, calm, missed>>

-------------------------------------------------------------------------------
\* The server thread.  What it does during a shutdown is not expected there.
ServerActs == calm' = (calm /\ main \notin ShuttingDown)

InitializeServerThreads ==
  /\ Alive /\ server = "init" /\ server' = "descriptors"
  /\ threadHandler' = "free" /\ row' = "live" /\ started' = FALSE
  /\ UNCHANGED <<mainVars, ipcVars, serverStatus, openThreads, clients, pc, commands, powerVars,
                 tally, budget, calm, missed>>

\* It says that the server runs before there is a socket.
InitializeThreadDescriptors ==
  /\ Alive /\ server = "descriptors"
  /\ IF CanLock
     THEN /\ threadHandler = "free" /\ server' = "sockets" /\ UNCHANGED main
          /\ clients' = {} /\ started' = FALSE /\ commands' = 0 /\ serverStatus' = "running"
     ELSE Crash /\ UNCHANGED <<server, clients, started, commands, serverStatus>>
  /\ UNCHANGED <<debug, handling, ipcVars, openThreads, pc, lockVars, powerVars, tally, budget,
                 calm, missed>>

\* createServer returns when a socket cannot be opened or bound.
OpenSockets ==
  /\ Alive /\ server = "sockets" /\ server' \in {"accept", "off"}
  /\ serverStatus' = IF server' = "accept" THEN "running" ELSE serverStatus
  /\ UNCHANGED <<mainVars, ipcVars, openThreads, rowVars, lockVars, powerVars, tally, budget,
                 calm, missed>>

\* getThreadForFileDescriptor: the first slot of the row comes with a new handler.
Slots == 0..MaxClients - 1
Connect ==
  /\ Alive /\ server = "accept" /\ budget.connects > 0 /\ clients # Slots
  /\ threadHandler # "freed"
  /\ LET slot == Min(Slots \ clients) IN
       /\ clients' = clients \cup {slot}
       /\ IF slot > 0 THEN UNCHANGED <<pc, server>>
          ELSE \E h \in Handlers : /\ pc[h] = "off" /\ pc' = [pc EXCEPT ![h] = "start"]
                                   /\ server' = "spawn"
  /\ openThreads' = 0 /\ budget' = [budget EXCEPT !.connects = @ - 1] /\ ServerActs
  /\ UNCHANGED <<mainVars, ipcVars, serverStatus, started, commands, lockVars, powerVars, tally,
                 missed>>

Spawned ==
  /\ Alive /\ server = "spawn" /\ started /\ server' = "accept"
  /\ UNCHANGED <<mainVars, ipcVars, serverStatus, openThreads, rowVars, lockVars, powerVars, tally,
                 budget, calm, missed>>

Disconnect(slot) ==
  /\ Alive /\ server = "accept" /\ slot \in clients
  /\ clients' = clients \ {slot} /\ server' = "wake" /\ ServerActs
  /\ UNCHANGED <<mainVars, ipcVars, serverStatus, openThreads, started, pc, commands, lockVars,
                 powerVars, tally, budget, missed>>

PushThreadCommand ==
  /\ Alive /\ server = "accept" /\ clients # {} /\ budget.commands > 0
  /\ IF CanLock
     THEN /\ threadHandler = "free" /\ commands' = commands + 1 /\ server' = "wake"
          /\ UNCHANGED main
     ELSE Crash /\ UNCHANGED <<commands, server>>
  /\ budget' = [budget EXCEPT !.commands = @ - 1] /\ ServerActs
  /\ UNCHANGED <<debug, handling, ipcVars, serverStatus, openThreads, clients, started, pc,
                 lockVars, powerVars, tally, missed>>

NotifyThread ==
  /\ Alive /\ server = "wake"
  /\ IF row = "live" THEN Wake /\ server' = "accept" /\ UNCHANGED main
     ELSE Crash /\ UNCHANGED <<pc, server>>
  /\ UNCHANGED <<debug, handling, ipcVars, serverStatus, openThreads, clients, started, commands,
                 lockVars, powerVars, tally, budget, calm, missed>>

-------------------------------------------------------------------------------
\* The handlers.
Move(h, from, to) == Alive /\ pc[h] = from /\ pc' = [pc EXCEPT ![h] = to]

HandlerStarts(h) ==
  /\ Move(h, "start", "check") /\ started' = TRUE
  /\ UNCHANGED <<mainVars, ipcVars, server, serverStatus, openThreads, clients, commands, lockVars,
                 powerVars, tally, budget, calm, missed>>

\* Are all slots empty?  After the wait the code asks again, and cannot leave then:
\* isEmpty is FALSE already.
HandlerChecks(h) ==
  /\ Move(h, "check", IF clients = {} THEN "leave" ELSE "wait")
  /\ UNCHANGED <<mainVars, ipcVars, server, serverStatus, openThreads, clients, started, commands,
                 lockVars, powerVars, tally, budget, calm, missed>>

\* pthread_cond_wait; a signal that came before is lost.
HandlerWaits(h) ==
  /\ Alive /\ pc[h] = "wait"
  /\ IF row = "live" THEN Move(h, "wait", "waiting") /\ UNCHANGED main
     ELSE Crash /\ UNCHANGED pc
  /\ UNCHANGED <<debug, handling, ipcVars, server, serverStatus, openThreads, clients, started,
                 commands, lockVars, powerVars, tally, budget, calm, missed>>

HandlerPeeks(h) ==
  /\ Alive /\ pc[h] = "peek"
  /\ IF CanLock
     THEN /\ threadHandler = "free" /\ UNCHANGED main
          /\ Move(h, "peek", IF commands > 0 THEN "busy" ELSE "check")
          /\ commands' = IF commands > 0 THEN commands - 1 ELSE 0
     ELSE Crash /\ UNCHANGED <<pc, commands>>
  /\ UNCHANGED <<debug, handling, ipcVars, server, serverStatus, openThreads, clients, started,
                 lockVars, powerVars, tally, budget, calm, missed>>

HandlerServes(h) ==
  /\ Move(h, "busy", "peek")
  /\ UNCHANGED <<mainVars, ipcVars, server, serverStatus, openThreads, clients, started, commands,
                 lockVars, powerVars, tally, budget, calm, missed>>

HandlerLeaves(h) ==
  /\ Alive /\ pc[h] = "leave"
  /\ IF CanLock
     THEN threadHandler = "free" /\ Move(h, "leave", "off") /\ started' = FALSE /\ UNCHANGED main
     ELSE Crash /\ UNCHANGED <<pc, started>>
  /\ UNCHANGED <<debug, handling, ipcVars, server, serverStatus, openThreads, clients, commands,
                 lockVars, powerVars, tally, budget, calm, missed>>

-------------------------------------------------------------------------------
Start    == CreateIpcListener \/ CreateServerThread \/ WaitForThreads \/ GetPreviousTestData
ShutDown == DatabaseDisconnect \/ BreakIPCListener \/ ClearSlots \/ SignalRow \/ PollStatus
            \/ Destroy \/ Exit
Listener == ListenerStarts \/ ListenerReads \/ ListenerStores
ServerGoesOn == InitializeServerThreads \/ InitializeThreadDescriptors \/ OpenSockets \/ Spawned
                \/ NotifyThread
Handler(h) == HandlerStarts(h) \/ HandlerChecks(h) \/ HandlerWaits(h) \/ HandlerServes(h)

Next ==
  \/ Start \/ ShutDown \/ Listener \/ ListenerKeeps \/ ServerGoesOn
  \/ Connect \/ PushThreadCommand \/ (\E s \in Slots : Disconnect(s))
  \/ \E h \in Handlers : Handler(h) \/ HandlerPeeks(h) \/ HandlerLeaves(h)
  \/ \E k \in Signals : HandleSignal(k)
  \/ ProgramSends \/ PowerDown

\* Threads that can go on do.  For a step that takes threadHandler this must be strong
\* fairness: the poll of a shutdown takes the lock again and again, and is preempted
\* between the two often enough.
Fairness ==
  /\ WF_vars(Start) /\ WF_vars(ShutDown) /\ SF_vars(PollStatus \/ Destroy)
  /\ WF_vars(Listener) /\ SF_vars(ListenerKeeps) /\ WF_vars(ServerGoesOn)
  /\ \A h \in Handlers : WF_vars(Handler(h)) /\ SF_vars(HandlerPeeks(h) \/ HandlerLeaves(h))

Spec == Init /\ [][Next]_vars /\ Fairness

-------------------------------------------------------------------------------
\* The variables hold values of the kinds declared.
TypeOK ==
  /\ main \in {"ipc", "server", "waitIpc", "waitServer", "exit", "exited", "crashed"}
              \cup Testing \cup ShuttingDown
  /\ debug \in BOOLEAN /\ ipcStatus \in {"stopped", "started"}
  /\ handling \subseteq Signals
  /\ ipcQueue = NoQueue
     \/ (ipcQueue \in Seq({"output", "release", "restart"}) /\ Len(ipcQueue) <= QueueSize)
  /\ listener \in {"off", "created", "read", "output", "keeping", "restart", "reply"}
  /\ server \in {"off", "init", "descriptors", "sockets", "accept", "spawn", "wake"}
  /\ serverStatus \in {"running", "stopped"} /\ openThreads \in {-1, 0}
  /\ threadHandler \in {"none", "free", "freed", "main", "listener"}
  /\ row \in {"none", "live", "freed"} /\ clients \subseteq Slots /\ started \in BOOLEAN
  /\ pc \in [Handlers -> {"off", "start", "check", "wait", "waiting", "peek", "busy", "leave"}]
  /\ commands \in 0..MaxCommands /\ rebootQueue \in -1..2
  /\ restarter \in {"idle", "request", "waiting", "safe"}
  /\ tally \in [accepted : Nat, kept : Nat, stored : Nat, asked : Nat, failed : BOOLEAN]
  /\ budget \in [connects : 0..MaxConnects, commands : 0..MaxCommands]
  /\ calm \in BOOLEAN /\ missed \in BOOLEAN

\* While main tests the board, the lock it uses for the test data exists, and the
\* listener was started (waitForThreadRunningStatus, TDThreadHandler.c:384-390).
ReadyWhenTesting ==
  main \in Testing => threadHandler # "none" /\ row = "live" /\ listener # "created" /\ ~debug

\* The types, and that testing starts when everything it uses is there.
StartInv == TypeOK /\ ReadyWhenTesting

\* A shutdown in an orderly state - one signal, main not starting up nor inside
\* getPreviousTestData, threadStatus true
\* of the row and at most one handler there, no client served meanwhile, room for the
\* release packet, and no output before the locks were made - never lets a thread use a lock that is gone
\* (destroyServerThreads, TDServerThreads.c:165-334).
CalmNeverCrashes == main = "crashed" => ~calm

\* The locks of the row are freed only when no thread can come back to them.
LocksOutliveUsers ==
  (row = "freed" /\ calm) => listener = "off" /\ \A h \in Handlers : pc[h] = "off"

\* What is destroyed in an orderly shutdown is used by nobody any more.
CalmShutdown == CalmNeverCrashes /\ LocksOutliveUsers

\* powerDown tells the user that it is safe only when all output the dispatcher
\* accepted before the request is in the database (TDThreadHandler.c:244-261,
\* OperatingSystemFunctions.c:41-110), or an insert of that very request failed, whose
\* result is ignored (TDTestFunctions.c:659, DBFunc.c:1071-1098): then it says so too.
SafeMeansStored == restarter = "safe" => tally.failed \/ tally.stored >= tally.asked

\* An orderly shutdown ends, unless its only signal to the row comes between a
\* handler's test of the slots and its wait.
ShutdownEnds == (main \in ShuttingDown) ~> (main = "exited" \/ ~calm \/ missed)
===============================================================================
