---------------------------- MODULE CommandDispatch ----------------------------
(***************************************************************************)
(* How commands and questions travel between clients and tests, in one row *)
(* of the connection table: threadCommandHandler and pushThreadCommand     *)
(* (TDServerThreads.c), answerQuestion, userAnswerQuestion and             *)
(* notifyUserToCloseMessageBox (TDTestFunctions.c), userRespondToQuestion  *)
(* and the repair lock (TDCommandHandler.c).                               *)
(*                                                                         *)
(* Processes: the server thread (Connect to NotifyReply), the IPC          *)
(* listener that poses questions, the handler threads of the row, the      *)
(* SIGALRM timer, and one test that asks a question and blocks until it    *)
(* reads a reply.  threadHandler protects the message queue and the writes *)
(* of question; everything else is read and written without a lock.  An    *)
(* action below is a section under threadHandler, or a test of unprotected *)
(* state together with the step it leads to.                               *)
(*                                                                         *)
(* The message queue is the FIFO of FifoQueue: CommandQueue shows that it  *)
(* is one while fewer than 150 commands wait.                              *)
(***************************************************************************)
EXTENDS Integers, Sequences, FiniteSetsExt

CONSTANTS
  Clients,       \* the clients (their IP addresses)
  Handlers,      \* the threads that may run threadCommandHandler for the row
  Connections,   \* number of slots of the row, CONNECTIONSPERTHREAD
  Texts,         \* the texts of questions
  Kinds,         \* kinds of commands clients send
  Intervals,     \* timer intervals until the lock is released, 5 in the code
  MaxPushed,     \* bound of the model: commands of any kind; responses go on without end
  MaxAsked       \* bound of the model: questions asked

AllKinds == {"data", "answer", "defer", "lock", "unlock"}

ASSUME DispatchAssumption ==
  /\ Connections \in Nat \ {0}
  /\ Kinds \subseteq AllKinds
  /\ Intervals \in Nat \ {0}
  /\ MaxPushed \in Nat \ {0} /\ MaxAsked \in Nat
  /\ 0 \notin Clients

Slots == 0..Connections - 1
Nobody == 0   \* threadIP of a free slot, repairLock of an unlocked board

\* A question: its text and, as a history component, the number of its posting.
\* The code knows the text only.
Questions  == [text : Texts, n : 1..MaxAsked]
NoQuestion == [text |-> "", n |-> 0]

\* A command: its connection, its kind, the question an answer is about, and,
\* as a history component, its number.
Commands  == [n : 1..MaxPushed, connection : Slots, kind : Kinds,
              about : Questions \cup {NoQuestion}]
NoCommand == [n |-> 0, connection |-> 0, kind |-> "", about |-> NoQuestion]

VARIABLES
  threadIP,      \* [Slots -> client or Nobody]
  paused,        \* [Slots -> BOOLEAN], QUESTIONPAUSE of connectionStatus
  messageQueue,  \* the commands that wait, oldest first
  question,      \* the pending question or NoQuestion
  repairLock,    \* who locked the board, or Nobody
  repairCounter, \* -1 when no timer was started
  timer,         \* is the interval timer armed
  pc,            \* [Handlers -> where the thread is]
  cmd,           \* [Handlers -> the command it peeked at]
  skip,          \* [Handlers -> skipToQuestion]
  at,            \* [Handlers -> slot it looks at in userAnswerQuestion]
  sending,       \* [Handlers -> question it is about to send]
  server,        \* where the server thread is
  withdrawn,     \* the question notifyUserToCloseMessageBox took back
  listener,      \* where the IPC listener is
  asker,         \* where the test is
  replies,       \* the question queue: numbers of the postings replied to
  box,           \* [Clients -> question the client shows]
  pushed,        \* number of commands pushed
  asked,         \* number of questions asked
  lastHandled    \* history: number of the last command handled

queueVars   == <<messageQueue, pushed>>
tableVars   == <<threadIP, paused>>
lockVars    == <<repairLock, repairCounter, timer>>
handlerVars == <<pc, cmd, skip, at, sending, lastHandled>>
serverVars  == <<server, withdrawn>>
askVars     == <<listener, asker, asked>>
vars == <<queueVars, tableVars, lockVars, handlerVars, serverVars, askVars,
          question, replies, box>>

Init ==
  /\ threadIP = [s \in Slots |-> Nobody]
  /\ paused = [s \in Slots |-> FALSE]
  /\ messageQueue = <<>>
  /\ question = NoQuestion
  /\ repairLock = Nobody /\ repairCounter = -1 /\ timer = FALSE
  /\ pc = [h \in Handlers |-> "off"]
  /\ cmd = [h \in Handlers |-> NoCommand]
  /\ skip = [h \in Handlers |-> TRUE]
  /\ at = [h \in Handlers |-> 0]
  /\ sending = [h \in Handlers |-> NoQuestion]
  /\ server = "idle" /\ withdrawn = NoQuestion
  /\ listener = "idle" /\ asker = "idle" /\ replies = <<>>
  /\ box = [c \in Clients |-> NoQuestion]
  /\ pushed = 0 /\ asked = 0 /\ lastHandled = 0

-------------------------------------------------------------------------------
Live(s) == threadIP[s] # Nobody
Shown(S, b) == [c \in Clients |-> IF c \in S THEN b ELSE box[c]]
ClientsIn(S) == {threadIP[s] : s \in {x \in S : Live(x)}}

Goto(h, where) == pc' = [pc EXCEPT ![h] = where]

\* pthread_cond_signal(threadNotifier): one waiting handler goes on; without one
\* the signal is lost.
Signal ==
  IF \E h \in Handlers : pc[h] = "waiting"
  THEN \E h \in Handlers : pc[h] = "waiting" /\ Goto(h, "peek")
  ELSE UNCHANGED pc

\* repairCounter == -1: set it to 0 and call repairTimer.
ArmTimer ==
  /\ repairCounter' = IF repairCounter = -1 THEN 0 ELSE repairCounter
  /\ timer' = (timer \/ repairCounter = -1)
  /\ UNCHANGED repairLock

LockedOut(s) == repairLock \notin {Nobody, threadIP[s]}

-------------------------------------------------------------------------------
\* The server thread.

\* getThreadForFileDescriptor for a client that is not in the row: it takes the
\* first free slot, and the first slot of the row comes with a new handler.
Connect(c) ==
  LET free == {s \in Slots : ~Live(s)} IN
  /\ server = "idle"
  /\ free # {}
  /\ \A s \in Slots : threadIP[s] # c
  /\ threadIP' = [threadIP EXCEPT ![Min(free)] = c]
  /\ IF Min(free) = 0
     THEN \E h \in Handlers : pc[h] = "off" /\ Goto(h, "check")
     ELSE UNCHANGED pc
  /\ UNCHANGED <<paused, queueVars, lockVars, cmd, skip, at, sending, lastHandled,
                 serverVars, askVars, question, replies, box>>

\* removeThreadListener; the row is signalled next (ServerSignal).  The repair
\* lock stays with the client that left.
Leave(s) ==
  /\ server = "idle"
  /\ Live(s)
  /\ threadIP' = [threadIP EXCEPT ![s] = Nobody]
  /\ paused' = [paused EXCEPT ![s] = FALSE]
  /\ box' = Shown({threadIP[s]}, NoQuestion)
  /\ server' = "signal"
  /\ UNCHANGED <<queueVars, lockVars, handlerVars, withdrawn, askVars, question,
                 replies>>

\* pushThreadCommand of a complete command.  A client answers or defers the
\* question it shows, and thereby closes its box.  Once MaxPushed commands were
\* pushed only responses are, each when no other command is left, under the last
\* number again: clients may go on responding for ever.
NoneLeft == messageQueue = <<>> /\ \A h \in Handlers : cmd[h] = NoCommand
PushThreadCommand(s, kind) ==
  LET c == threadIP[s]
      new == [n |-> pushed', connection |-> s, kind |-> kind,
              about |-> IF kind \in {"answer", "defer"} THEN box[c] ELSE NoQuestion]
  IN /\ server = "idle"
     /\ Live(s)
     /\ kind \in {"answer", "defer"} => box[c] # NoQuestion
     /\ \/ pushed < MaxPushed /\ pushed' = pushed + 1 /\ UNCHANGED lastHandled
        \/ /\ pushed = MaxPushed /\ NoneLeft /\ kind \in {"answer", "defer"}
           /\ UNCHANGED pushed /\ lastHandled' = 0
     /\ messageQueue' = Append(messageQueue, new)
     /\ box' = IF kind \in {"answer", "defer"} THEN Shown({c}, NoQuestion) ELSE box
     /\ server' = "signal"
     /\ UNCHANGED <<tableVars, lockVars, pc, cmd, skip, at, sending, withdrawn, askVars,
                    question, replies>>

\* The pthread_cond_signal that ends pushThreadCommand and removeThreadListener.
ServerSignal ==
  /\ server = "signal"
  /\ Signal
  /\ server' = "idle"
  /\ UNCHANGED <<tableVars, queueVars, lockVars, cmd, skip, at, sending,
                 lastHandled, withdrawn, askVars, question, replies, box>>

\* notifyUserToCloseMessageBox, called while a broadcast that fills in board
\* data is handled (default_broadcast): under threadHandler the question is
\* taken back ...
Notify ==
  /\ server = "idle"
  /\ question # NoQuestion
  /\ question' = NoQuestion
  /\ withdrawn' = question
  /\ server' = "close"
  /\ UNCHANGED <<tableVars, queueVars, lockVars, handlerVars, askVars, replies, box>>

\* ... then every client is told to close its box ...
NotifyClose ==
  /\ server = "close"
  /\ box' = Shown(ClientsIn(Slots), NoQuestion)
  /\ paused' = [s \in Slots |-> ~Live(s) /\ paused[s]]
  /\ server' = "reply"
  /\ UNCHANGED <<threadIP, queueVars, lockVars, handlerVars, withdrawn, askVars,
                 question, replies>>

\* ... the row is signalled and an empty reply goes to the test.
NotifyReply ==
  /\ server = "reply"
  /\ Signal
  /\ replies' = Append(replies, withdrawn.n)
  /\ withdrawn' = NoQuestion
  /\ server' = "idle"
  /\ UNCHANGED <<tableVars, queueVars, lockVars, cmd, skip, at, sending,
                 lastHandled, askVars, question, box>>

-------------------------------------------------------------------------------
\* The test and the IPC listener.

\* createUserPrompt: the test sends a question to the listener and waits.
Ask ==
  /\ asker = "idle"
  /\ asked < MaxAsked
  /\ asked' = asked + 1
  /\ asker' = "sent"
  /\ UNCHANGED <<tableVars, queueVars, lockVars, handlerVars, serverVars, listener,
                 question, replies, box>>

\* answerQuestion: the question is set under threadHandler ...
AnswerQuestion(text) ==
  /\ listener = "idle"
  /\ asker = "sent"
  /\ question' = [text |-> text, n |-> asked]
  /\ asker' = "waiting"
  /\ listener' = "signal"
  /\ UNCHANGED <<tableVars, queueVars, lockVars, handlerVars, serverVars, asked,
                 replies, box>>

\* ... then the pauses are cleared and the row is signalled.
AnswerQuestionSignal ==
  /\ listener = "signal"
  /\ paused' = [s \in Slots |-> FALSE]
  /\ Signal
  /\ listener' = "idle"
  /\ UNCHANGED <<threadIP, queueVars, lockVars, cmd, skip, at, sending,
                 lastHandled, serverVars, asker, asked, question, replies, box>>

\* The test reads a reply and removes the question queue with what is in it.
ReadReply ==
  /\ asker = "waiting"
  /\ replies # <<>>
  /\ replies' = <<>>
  /\ asker' = "idle"
  /\ UNCHANGED <<tableVars, queueVars, lockVars, handlerVars, serverVars, listener,
                 asked, question, box>>

\* Mutant: the timer is not started again.
CatchTimerOnce ==
  /\ timer
  /\ IF repairCounter + 1 = Intervals
     THEN repairCounter' = -1 /\ repairLock' = Nobody
     ELSE repairCounter' = repairCounter + 1 /\ UNCHANGED repairLock
  /\ timer' = FALSE
  /\ UNCHANGED <<tableVars, queueVars, handlerVars, serverVars, askVars, question,
                 replies, box>>

\* catchTimer: repairLock is released after the last interval.
CatchTimer ==
  /\ timer
  /\ IF repairCounter + 1 = Intervals
     THEN repairCounter' = -1 /\ repairLock' = Nobody /\ timer' = FALSE
     ELSE repairCounter' = repairCounter + 1 /\ UNCHANGED <<repairLock, timer>>
  /\ UNCHANGED <<tableVars, queueVars, handlerVars, serverVars, askVars, question,
                 replies, box>>

-------------------------------------------------------------------------------
\* The handler threads: threadCommandHandler.

\* The top of the loop: a handler whose row is empty ends.  (The second test,
\* after the wait, never ends it: isEmpty is FALSE by then.)
Check(h) ==
  /\ pc[h] = "check"
  /\ Goto(h, IF \E s \in Slots : Live(s) THEN "enter" ELSE "off")
  /\ UNCHANGED <<tableVars, queueVars, lockVars, cmd, skip, at, sending, lastHandled,
                 serverVars, askVars, question, replies, box>>

\* pthread_cond_wait.  No sender of a signal holds threadMutex, and no condition
\* is tested: a signal sent before this step is lost.
Wait(h) ==
  /\ pc[h] = "enter"
  /\ Goto(h, "waiting")
  /\ UNCHANGED <<tableVars, queueVars, lockVars, cmd, skip, at, sending, lastHandled,
                 serverVars, askVars, question, replies, box>>

\* peekAtFrontElement, at the start and at the end of the inner loop.
Peek(h) ==
  /\ pc[h] = "peek"
  /\ IF messageQueue = <<>>
     THEN cmd' = [cmd EXCEPT ![h] = NoCommand] /\ Goto(h, "ask")
     ELSE cmd' = [cmd EXCEPT ![h] = Head(messageQueue)] /\ Goto(h, "decide")
  /\ UNCHANGED <<tableVars, queueVars, lockVars, skip, at, sending, lastHandled,
                 serverVars, askVars, question, replies, box>>

\* While a question is pending only responses are to be handled.
Decide(h) ==
  /\ pc[h] = "decide"
  /\ skip' = [skip EXCEPT ![h] = /\ question # NoQuestion
                                 /\ cmd[h].kind \notin {"answer", "defer"}]
  /\ Goto(h, "route")
  /\ UNCHANGED <<tableVars, queueVars, lockVars, cmd, at, sending, lastHandled,
                 serverVars, askVars, question, replies, box>>

\* getFrontElement: whatever is at the front by now.
Dequeue == messageQueue' = IF messageQueue = <<>> THEN <<>> ELSE Tail(messageQueue)

\* Mutant: the command of a client that has gone stays at the front.
RouteDeadKeeps(h) ==
  /\ pc[h] = "route"
  /\ ~Live(cmd[h].connection)
  /\ Goto(h, "after")
  /\ UNCHANGED <<tableVars, queueVars, lockVars, cmd, skip, at, sending, lastHandled,
                 serverVars, askVars, question, replies, box>>

\* The command's connection is gone: the command is removed (without the lock).
RouteDead(h) ==
  /\ pc[h] = "route"
  /\ ~Live(cmd[h].connection)
  /\ Dequeue
  /\ Goto(h, "after")
  /\ UNCHANGED <<pushed, tableVars, lockVars, cmd, skip, at, sending, lastHandled,
                 serverVars, askVars, question, replies, box>>

\* A command that waits for the question: its client is not paused, and is not
\* kept from the question by the repair lock.  It is dropped.
RouteDrop(h) ==
  /\ pc[h] = "route"
  /\ Live(cmd[h].connection)
  /\ skip[h]
  /\ ~paused[cmd[h].connection]
  /\ ~LockedOut(cmd[h].connection)
  /\ Goto(h, "drop")
  /\ UNCHANGED <<tableVars, queueVars, lockVars, cmd, skip, at, sending, lastHandled,
                 serverVars, askVars, question, replies, box>>

\* Any other command is handled; a client that the repair lock keeps from the
\* pending question starts the timer.
RouteTake(h) ==
  LET s == cmd[h].connection IN
  /\ pc[h] = "route"
  /\ Live(s)
  /\ skip[h] => paused[s] \/ LockedOut(s)
  /\ IF skip[h] /\ ~paused[s] THEN ArmTimer ELSE UNCHANGED lockVars
  /\ skip' = [skip EXCEPT ![h] = FALSE]
  /\ Goto(h, "take")
  /\ UNCHANGED <<tableVars, queueVars, cmd, at, sending, lastHandled, serverVars,
                 askVars, question, replies, box>>

Drop(h) ==
  /\ pc[h] = "drop"
  /\ Dequeue
  /\ Goto(h, "after")
  /\ UNCHANGED <<pushed, tableVars, lockVars, cmd, skip, at, sending, lastHandled,
                 serverVars, askVars, question, replies, box>>

\* Mutant: the command is handled but not dequeued.
TakeKeeps(h) ==
  /\ pc[h] = "take"
  /\ Goto(h, "event")
  /\ UNCHANGED <<tableVars, queueVars, lockVars, cmd, skip, at, sending, lastHandled,
                 serverVars, askVars, question, replies, box>>

Take(h) ==
  /\ pc[h] = "take"
  /\ Dequeue
  /\ Goto(h, "event")
  /\ UNCHANGED <<pushed, tableVars, lockVars, cmd, skip, at, sending, lastHandled,
                 serverVars, askVars, question, replies, box>>

\* Leaves the inner loop for the question, or goes round again.
After(h) ==
  /\ pc[h] = "after"
  /\ Goto(h, IF question # NoQuestion /\ skip[h] THEN "ask" ELSE "peek")
  /\ UNCHANGED <<tableVars, queueVars, lockVars, cmd, skip, at, sending, lastHandled,
                 serverVars, askVars, question, replies, box>>

-------------------------------------------------------------------------------
\* handle_thread_event.

Handled(h) == lastHandled' = cmd[h].n

\* Test data and file requests (see the README); no state of this module.
HandleData(h) ==
  /\ pc[h] = "event"
  /\ cmd[h].kind = "data"
  /\ Handled(h)
  /\ Goto(h, "after")
  /\ UNCHANGED <<tableVars, queueVars, lockVars, cmd, skip, at, sending, serverVars,
                 askVars, question, replies, box>>

\* requestToLockBoard with '1', and with nothing after the command's name.
HandleLock(h) ==
  LET ip == threadIP[cmd[h].connection] IN
  /\ pc[h] = "event"
  /\ cmd[h].kind \in {"lock", "unlock"}
  /\ Handled(h)
  /\ repairLock' = IF cmd[h].kind = "lock"
                   THEN IF repairLock = Nobody THEN ip ELSE repairLock
                   ELSE IF repairLock = ip THEN Nobody ELSE repairLock
  /\ Goto(h, "after")
  /\ UNCHANGED <<repairCounter, timer, tableVars, queueVars, cmd, skip, at, sending,
                 serverVars, askVars, question, replies, box>>

\* Mutant: an answered question is not taken back.
HandleResponseKeeps(h) ==
  LET c == cmd[h]
      matches == question # NoQuestion /\ c.about.text = question.text
  IN /\ pc[h] = "event"
     /\ c.kind \in {"answer", "defer"}
     /\ Handled(h)
     /\ repairCounter' = 0
     /\ replies' = IF c.kind = "answer" /\ matches THEN Append(replies, question.n)
                   ELSE replies
     /\ Goto(h, IF c.kind = "defer" /\ matches THEN "pause" ELSE "close")
     /\ UNCHANGED <<question, repairLock, timer, tableVars, queueVars, cmd, skip, at,
                    sending, serverVars, askVars, box>>

\* userRespondToQuestion.  The response is for the pending question when the
\* texts are equal; an answer takes the question back and replies to the test.
HandleResponse(h) ==
  LET c == cmd[h]
      matches == question # NoQuestion /\ c.about.text = question.text
  IN /\ pc[h] = "event"
     /\ c.kind \in {"answer", "defer"}
     /\ Handled(h)
     /\ repairCounter' = 0
     /\ IF c.kind = "answer" /\ matches
        THEN question' = NoQuestion /\ replies' = Append(replies, question.n)
        ELSE UNCHANGED <<question, replies>>
     /\ Goto(h, IF c.kind = "defer" /\ matches THEN "pause" ELSE "close")
     /\ UNCHANGED <<repairLock, timer, tableVars, queueVars, cmd, skip, at, sending,
                    serverVars, askVars, box>>

\* A deferred question is not shown to that client again.
HandleDefer(h) ==
  /\ pc[h] = "pause"
  /\ paused' = [paused EXCEPT ![cmd[h].connection] = TRUE]
  /\ Goto(h, "after")
  /\ UNCHANGED <<threadIP, queueVars, lockVars, cmd, skip, at, sending, lastHandled,
                 serverVars, askVars, question, replies, box>>

\* Any other response, of use or not, closes the boxes of the other clients and
\* ends all pauses.
HandleClose(h) ==
  /\ pc[h] = "close"
  /\ box' = Shown(ClientsIn(Slots \ {cmd[h].connection}), NoQuestion)
  /\ paused' = [s \in Slots |-> FALSE]
  /\ Goto(h, "after")
  /\ UNCHANGED <<threadIP, queueVars, lockVars, cmd, skip, at, sending, lastHandled,
                 serverVars, askVars, question, replies>>

-------------------------------------------------------------------------------
\* The question: userAnswerQuestion.

\* The test that guards the call.  It is the last use of cmd and skipToQuestion,
\* which get their first values again in the next round of the outer loop.
AskOrNot(h) ==
  /\ pc[h] = "ask"
  /\ Goto(h, IF question # NoQuestion /\ skip[h] THEN "start" ELSE "check")
  /\ cmd' = [cmd EXCEPT ![h] = NoCommand]
  /\ skip' = [skip EXCEPT ![h] = TRUE]
  /\ UNCHANGED <<tableVars, queueVars, lockVars, at, sending, lastHandled, serverVars, askVars, question, replies, box>>

\* The first statement takes strlen(question): the program crashes when the
\* question is gone.
Start(h) ==
  /\ pc[h] = "start"
  /\ Goto(h, IF question = NoQuestion THEN "crashed" ELSE "show")
  /\ UNCHANGED <<tableVars, queueVars, lockVars, cmd, skip, at, sending, lastHandled,
                 serverVars, askVars, question, replies, box>>

AtSlot(h) == pc[h] = "show" /\ at[h] \in Slots
NextSlot(h) == at' = [at EXCEPT ![h] = @ + 1]
Return(h) == Goto(h, "check") /\ at' = [at EXCEPT ![h] = 0]

\* No client here, or one that deferred the question.
ShowNot(h) ==
  /\ AtSlot(h)
  /\ ~Live(at[h]) \/ paused[at[h]]
  /\ NextSlot(h)
  /\ UNCHANGED <<tableVars, queueVars, lockVars, pc, cmd, skip, sending, lastHandled,
                 serverVars, askVars, question, replies, box>>

\* The repair lock keeps the question from this client.
Withhold(h) ==
  /\ AtSlot(h)
  /\ Live(at[h]) /\ ~paused[at[h]] /\ LockedOut(at[h])
  /\ ArmTimer
  /\ NextSlot(h)
  /\ UNCHANGED <<tableVars, queueVars, pc, cmd, skip, sending, lastHandled,
                 serverVars, askVars, question, replies, box>>

\* The message is put together.  A question that is gone by now ends the
\* function or, where its length is taken, the program.
Compose(h) ==
  /\ AtSlot(h)
  /\ Live(at[h]) /\ ~paused[at[h]] /\ ~LockedOut(at[h])
  /\ IF question = NoQuestion
     THEN Return(h) \/ (Goto(h, "crashed") /\ UNCHANGED at)
     ELSE Goto(h, "send") /\ UNCHANGED at
  /\ sending' = [sending EXCEPT ![h] = question]
  /\ UNCHANGED <<tableVars, queueVars, lockVars, cmd, skip, lastHandled,
                 serverVars, askVars, question, replies, box>>

\* sendall to whoever is in the slot by now.
Send(h) ==
  /\ pc[h] = "send"
  /\ box' = Shown(ClientsIn({at[h]}), sending[h])
  /\ sending' = [sending EXCEPT ![h] = NoQuestion]
  /\ Goto(h, "show")
  /\ NextSlot(h)
  /\ UNCHANGED <<tableVars, queueVars, lockVars, cmd, skip, lastHandled, serverVars,
                 askVars, question, replies>>

ShowEnd(h) ==
  /\ pc[h] = "show"
  /\ at[h] = Connections
  /\ Return(h)
  /\ UNCHANGED <<tableVars, queueVars, lockVars, cmd, skip, sending, lastHandled,
                 serverVars, askVars, question, replies, box>>

-------------------------------------------------------------------------------
ServerStep == ServerSignal \/ NotifyClose \/ NotifyReply

HandlerStep(h) ==
  \/ Check(h) \/ Wait(h) \/ Peek(h) \/ Decide(h)
  \/ RouteDead(h) \/ RouteDrop(h) \/ RouteTake(h) \/ Drop(h) \/ Take(h) \/ After(h)
  \/ HandleData(h) \/ HandleLock(h)
  \/ HandleResponse(h) \/ HandleDefer(h) \/ HandleClose(h)
  \/ AskOrNot(h) \/ Start(h) \/ ShowNot(h) \/ Withhold(h) \/ Compose(h) \/ Send(h)
  \/ ShowEnd(h)

\* pthread_cond_wait may also return without a signal.
SpuriousWakeup(h) ==
  /\ pc[h] = "waiting"
  /\ Goto(h, "peek")
  /\ UNCHANGED <<tableVars, queueVars, lockVars, cmd, skip, at, sending, lastHandled,
                 serverVars, askVars, question, replies, box>>

Crashed == \E h \in Handlers : pc[h] = "crashed"

Next ==
  /\ ~Crashed
  /\ \/ \E c \in Clients : Connect(c)
     \/ \E s \in Slots : Leave(s)
     \/ \E s \in Slots, kind \in Kinds : PushThreadCommand(s, kind)
     \/ Notify
     \/ ServerStep
     \/ Ask
     \/ \E text \in Texts : AnswerQuestion(text)
     \/ AnswerQuestionSignal
     \/ ReadReply
     \/ CatchTimer
     \/ \E h \in Handlers : HandlerStep(h)
     \/ \E h \in Handlers : SpuriousWakeup(h)

\* Every thread that can go on does, and an armed timer fires.  Nothing makes
\* clients connect, send or answer, the test ask, or a wait end by itself.
Fairness ==
  /\ \A h \in Handlers : WF_vars(~Crashed /\ HandlerStep(h))
  /\ WF_vars(~Crashed /\ ServerStep)
  /\ WF_vars(~Crashed /\ \E text \in Texts : AnswerQuestion(text))
  /\ WF_vars(~Crashed /\ AnswerQuestionSignal)
  /\ WF_vars(~Crashed /\ ReadReply)
  /\ WF_vars(~Crashed /\ CatchTimer)

Spec == Init /\ [][Next]_vars
FairSpec == Spec /\ Fairness

-------------------------------------------------------------------------------
PCs == {"off", "check", "enter", "waiting", "peek", "decide", "route", "drop", "take",
        "event", "pause", "close", "after", "ask", "start", "show", "send", "crashed"}

\* Type correctness; the timer counts 0..Intervals - 1 while it runs (catchTimer,
\* repairTimer).
TypeOK ==
  /\ threadIP \in [Slots -> Clients \cup {Nobody}]
  /\ paused \in [Slots -> BOOLEAN]
  /\ messageQueue \in Seq(Commands) /\ pushed \in 0..MaxPushed
  /\ question \in Questions \cup {NoQuestion}
  /\ repairLock \in Clients \cup {Nobody}
  /\ repairCounter \in -1..Intervals - 1
  /\ timer \in BOOLEAN /\ (timer => repairCounter # -1)
  /\ pc \in [Handlers -> PCs]
  /\ cmd \in [Handlers -> Commands \cup {NoCommand}]
  /\ skip \in [Handlers -> BOOLEAN]
  /\ at \in [Handlers -> 0..Connections]
  /\ sending \in [Handlers -> Questions \cup {NoQuestion}]
  /\ server \in {"idle", "signal", "close", "reply"}
  /\ withdrawn \in Questions \cup {NoQuestion}
  /\ listener \in {"idle", "signal"} /\ asker \in {"idle", "sent", "waiting"}
  /\ replies \in Seq(1..MaxAsked) /\ asked \in 0..MaxAsked
  /\ box \in [Clients -> Questions \cup {NoQuestion}]
  /\ lastHandled \in 0..MaxPushed

\* A test that waits is owed exactly one reply: its question is pending, or was
\* taken back by notifyUserToCloseMessageBox, or its reply is in the question
\* queue; a test that does not wait is owed none.  So no question is answered
\* twice, whichever of userRespondToQuestion and notifyUserToCloseMessageBox
\* comes first, and no test reads the reply to another question.
OneReply ==
  LET owed == (IF question = NoQuestion THEN <<>> ELSE <<question.n>>)
              \o (IF withdrawn = NoQuestion THEN <<>> ELSE <<withdrawn.n>>) \o replies
  IN owed = IF asker = "waiting" THEN <<asked>> ELSE <<>>

\* The types, and the balance of questions and replies.
RepliesInv == TypeOK /\ OneReply

\* The commands of a row with one handler are handled in the order in which they
\* were pushed and each at most once (threadCommandHandler peeks, and dequeues
\* later and under a different hold of threadHandler).
InOrderOnce ==
  [][\A h \in Handlers : pc[h] = "event" /\ pc'[h] # "event" => cmd[h].n > lastHandled]_vars

\* A handler that has been woken gets back to its wait or ends: whatever the
\* queue holds, its inner loop comes to an end.
WakeSettles ==
  \A h \in Handlers :
    pc[h] = "peek" ~> (pc[h] \in {"waiting", "off"} \/ Crashed)

\* A response is handled, which sets the count of intervals back to 0
\* (userRespondToQuestion).
Responds == \E h \in Handlers : pc[h] = "event" /\ pc'[h] \in {"pause", "close"}

\* catchTimer releases the lock in the end, unless responses are handled again and
\* again: clients that keep responding postpone the release for ever.
TimerReleases ==
  []<><<Responds>>_vars \/ (timer ~> (~timer /\ repairLock = Nobody) \/ Crashed)
===============================================================================
