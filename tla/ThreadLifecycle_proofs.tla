------------------------ MODULE ThreadLifecycle_proofs ------------------------
(***************************************************************************)
(* Proofs that the dispatcher tests only when its threads have started,    *)
(* that an orderly shutdown destroys nothing that is still used, and that  *)
(* powerDown says it is safe only when the output is stored: for any       *)
(* number of handler threads, slots, packets, connections and commands.    *)
(***************************************************************************)
EXTENDS ThreadLifecycle, FiniteSetTheorems, SequenceTheorems, WellFoundedInduction, TLAPS

AllOff == \A h \in Handlers : pc[h] = "off"

\* The locks were made.
LocksMade == threadHandler # "none" /\ row # "none"

\* Where main is once a signal has come.
Down == ShuttingDown \cup {"exit", "exited", "crashed"}

\* What the program has when it is where it is: the server thread makes the locks before it
\* says that it runs, and handlers are started by a server that has made them; the listener
\* says that it runs when it does; only a shutdown destroys the locks.
Places ==
  /\ main \in {"ipc", "server"} => server = "off" /\ AllOff
  /\ main = "ipc" => listener = "off"
  /\ server \in {"descriptors", "sockets", "accept", "spawn", "wake"} => LocksMade
  /\ server \in {"init", "descriptors", "sockets"} => AllOff
  /\ AllOff \/ LocksMade
  /\ openThreads = -1 => AllOff
  /\ listener # "off" => ~debug
  /\ ipcStatus = "started" <=> listener \notin {"off", "created"}
  /\ main \in {"waitServer"} \cup Testing => listener # "created" /\ ~debug
  /\ main \in {"waitIpc", "waitServer"} /\ serverStatus = "running" => LocksMade
  /\ main \in Testing => LocksMade
  /\ threadHandler = "freed" \/ row = "freed" => main \in Down

\* Each command pushed was paid from the budget.
CommandsCounted == commands + budget.commands <= MaxCommands

\* Between an orderly signal and the end: nobody else is at work, or will be, but the one
\* handler of the row until it has left.
AtMostOneUser ==
  IF started THEN \E h \in Handlers : \A g \in Handlers : pc[g] # "off" <=> g = h
  ELSE AllOff
OrderlyDown ==
  /\ server \in {"off", "sockets", "accept"} /\ LocksMade /\ listener # "created"
  /\ threadHandler = "freed" <=> main \in {"exit", "exited"}
  /\ row = "freed" <=> main \in {"last", "exit", "exited"}
  /\ AtMostOneUser
  /\ main \notin {"disconnect", "break", "stopping"} => listener = "off"
  /\ main \notin {"disconnect", "break", "stopping", "clear"} => clients = {}
  /\ main \in {"destroy", "last", "exit", "exited"} => AllOff
CalmIInv ==
  /\ main = "crashed" => ~calm
  /\ calm /\ main \in Down => OrderlyDown

\* Output the listener has, in testData or in its hands; it takes no more once it is off.
InHand == IF listener \in {"output", "keeping"} THEN 1 ELSE 0
Listens == listener # "off" \/ main = "ipc"

\* The request of powerDown was not answered yet.
Unanswered ==
  listener \in {"restart", "reply"} \/ \E k \in DOMAIN ipcQueue : ipcQueue[k] = "restart"

\* There is one request at most, in one place, and one reply.
RequestOnce ==
  /\ rebootQueue <= 1
  /\ restarter # "waiting" => ~Unanswered /\ rebootQueue <= 0
  /\ rebootQueue = 1 => ~Unanswered
  /\ \A j, k \in DOMAIN ipcQueue :
       ipcQueue[j] = "restart" => /\ listener \notin {"restart", "reply"}
                                  /\ ipcQueue[k] = "restart" => j = k

\* What was accepted before the request waits in front of it, or is with the listener; when the
\* listener has taken the request, it is in testData, and before it replies, in the database.
AskedAhead ==
  /\ tally.stored <= tally.kept
  /\ main = "ipc" /\ ipcQueue = NoQueue => tally.accepted = 0
  /\ restarter \in {"idle", "request"} /\ Listens /\ ipcQueue # NoQueue =>
       tally.accepted <= tally.kept + InHand + Len(ipcQueue)
  /\ \A k \in DOMAIN ipcQueue :
       ipcQueue[k] = "restart" /\ Listens => tally.asked <= tally.kept + InHand + (k - 1)
  /\ listener = "restart" => tally.asked <= tally.kept
  /\ listener = "reply" => tally.failed \/ tally.asked <= tally.stored
  /\ rebootQueue = 1 => tally.failed \/ tally.asked <= tally.stored
  /\ SafeMeansStored

LifeIInv == TypeOK /\ Places /\ CommandsCounted /\ RequestOnce /\ AskedAhead

-------------------------------------------------------------------------------
\* The kinds of values, in five parts.
HandlerPlaces == {"off", "start", "check", "wait", "waiting", "peek", "busy", "leave"}
TypeScalars ==
  /\ main \in {"ipc", "server", "waitIpc", "waitServer", "exit", "exited", "crashed"}
              \cup Testing \cup ShuttingDown
  /\ ipcStatus \in {"stopped", "started"} /\ handling \subseteq Signals
  /\ listener \in {"off", "created", "read", "output", "keeping", "restart", "reply"}
  /\ server \in {"off", "init", "descriptors", "sockets", "accept", "spawn", "wake"}
  /\ serverStatus \in {"running", "stopped"} /\ openThreads \in {-1, 0}
  /\ threadHandler \in {"none", "free", "freed", "main", "listener"}
  /\ row \in {"none", "live", "freed"}
  /\ restarter \in {"idle", "request", "waiting", "safe"}
TypeFlags == debug \in BOOLEAN /\ started \in BOOLEAN /\ calm \in BOOLEAN /\ missed \in BOOLEAN
TypeQueue ==
  ipcQueue = NoQueue
  \/ (ipcQueue \in Seq({"output", "release", "restart"}) /\ Len(ipcQueue) <= QueueSize)
TypeRow == clients \subseteq Slots /\ pc \in [Handlers -> HandlerPlaces]
TypeCounts ==
  /\ tally \in [accepted : Nat, kept : Nat, stored : Nat, asked : Nat, failed : BOOLEAN]
  /\ budget \in [connects : 0..MaxConnects, commands : 0..MaxCommands]
  /\ commands \in 0..MaxCommands
  /\ rebootQueue \in -1..2

LEMMA TypeParts == TypeOK <=> TypeScalars /\ TypeFlags /\ TypeQueue /\ TypeRow /\ TypeCounts
BY DEF TypeOK, TypeScalars, TypeFlags, TypeQueue, TypeRow, TypeCounts, HandlerPlaces

LEMMA TypePartsNext ==
  TypeOK' <=> TypeScalars' /\ TypeFlags' /\ TypeQueue' /\ TypeRow' /\ TypeCounts'
BY DEF TypeOK, TypeScalars, TypeFlags, TypeQueue, TypeRow, TypeCounts, HandlerPlaces

\* The bounds are numbers.
LEMMA Bounds ==
  /\ MaxClients \in Nat \ {0} /\ QueueSize \in Nat \ {0}
  /\ MaxConnects \in Nat /\ MaxCommands \in Nat
BY LifecycleAssumption

\* A new queue is empty.
LEMMA EmptyQueue == <<>> \in Seq({"output", "release", "restart"}) /\ Len(<<>>) <= QueueSize
<1>1. <<>> \in Seq({"output", "release", "restart"}) /\ Len(<<>>) = 0
  OBVIOUS
<1>. QED
  BY <1>1, Bounds

\* A packet is put behind the others, or dropped.
LEMMA SendTypes ==
  ASSUME TypeQueue, NEW p \in {"output", "release", "restart"}, Send(p)
  PROVE  TypeQueue'
<1>1. CASE Fits
  <2>1. ipcQueue \in Seq({"output", "release", "restart"}) /\ Len(ipcQueue) <= QueueSize
        /\ Len(ipcQueue) < QueueSize
    BY <1>1 DEF Fits, TypeQueue
  <2>2. Append(ipcQueue, p) \in Seq({"output", "release", "restart"})
        /\ Len(Append(ipcQueue, p)) = Len(ipcQueue) + 1 /\ Len(ipcQueue) \in Nat
    BY <2>1
  <2>. QED
    BY <1>1, <2>1, <2>2, Bounds DEF Send, TypeQueue
<1>2. CASE ~Fits
  BY <1>2 DEF Send, TypeQueue
<1>. QED
  BY <1>1, <1>2

\* A signal moves a handler from a place to a place.
LEMMA WakeTypes ==
  ASSUME pc \in [Handlers -> HandlerPlaces], Wake
  PROVE  pc' \in [Handlers -> HandlerPlaces]
BY DEF Wake, Waiting, HandlerPlaces

\* When a slot is free, the first free slot is one.
LEMMA FreeSlot ==
  ASSUME clients \subseteq Slots, clients # Slots
  PROVE  Min(Slots \ clients) \in Slots \ clients
<1>. DEFINE F == Slots \ clients
<1>0. Slots \subseteq Nat
  BY Bounds DEF Slots
<1>1. F \subseteq Nat /\ F # {}
  <2>1. F # {}
    OBVIOUS
  <2>. QED
    BY <1>0, <2>1
<1>2. PICK n \in F : \A m \in F : ~(<<m, n>> \in OpToRel(<, Nat))
  BY <1>1, WFMin, NatLessThanWellFounded, Zenon
<1>3. ASSUME NEW m \in F PROVE n <= m
  <2>1. m \in Nat /\ n \in Nat /\ ~(m < n)
    BY <1>1, <1>2 DEF OpToRel
  <2>. QED
    BY <2>1
<1>. QED
  BY <1>3 DEF Min

\* A signal starts no handler, and ends none.
LEMMA WakeOff ==
  ASSUME TypeRow, Wake
  PROVE  \A h \in Handlers : pc'[h] = "off" <=> pc[h] = "off"
BY DEF TypeRow, Wake, Waiting, HandlerPlaces

\* The packet in front.
LEMMA HeadTypes ==
  ASSUME TypeQueue, ipcQueue \notin {NoQueue, <<>>}
  PROVE  /\ Head(ipcQueue) \in {"output", "release", "restart"} /\ Head(ipcQueue) = ipcQueue[1]
         /\ Len(ipcQueue) \in Nat \ {0} /\ DOMAIN ipcQueue = 1..Len(ipcQueue)
         /\ Tail(ipcQueue) \in Seq({"output", "release", "restart"})
         /\ DOMAIN Tail(ipcQueue) = 1..(Len(ipcQueue) - 1)
         /\ Len(Tail(ipcQueue)) = Len(ipcQueue) - 1
         /\ \A k \in 1..(Len(ipcQueue) - 1) : Tail(ipcQueue)[k] = ipcQueue[k + 1]
<1>1. ipcQueue \in Seq({"output", "release", "restart"}) /\ ipcQueue # <<>>
  BY DEF TypeQueue
<1>. QED
  BY <1>1

\* A packet that is sent comes behind the others, or is dropped.
Longer(p) ==
  /\ ipcQueue # NoQueue /\ Len(ipcQueue) \in Nat /\ DOMAIN ipcQueue = 1..Len(ipcQueue)
  /\ DOMAIN ipcQueue' = 1..(Len(ipcQueue) + 1) /\ Len(ipcQueue') = Len(ipcQueue) + 1
  /\ \A k \in 1..Len(ipcQueue) : ipcQueue'[k] = ipcQueue[k]
  /\ ipcQueue'[Len(ipcQueue) + 1] = p

LEMMA SendAppends ==
  ASSUME TypeQueue, NEW p, Send(p)
  PROVE  (ipcQueue' = ipcQueue /\ ~Fits) \/ (Longer(p) /\ Fits)
<1>1. CASE Fits
  <2>0. ipcQueue \in Seq({"output", "release", "restart"}) /\ ipcQueue # NoQueue
    BY <1>1 DEF TypeQueue, Fits
  <2>1. Len(ipcQueue) \in Nat /\ DOMAIN ipcQueue = 1..Len(ipcQueue)
    BY <2>0
  <2>2. LET q == Append(ipcQueue, p) IN
          /\ DOMAIN q = 1..(Len(ipcQueue) + 1) /\ Len(q) = Len(ipcQueue) + 1
          /\ \A k \in 1..Len(ipcQueue) : q[k] = ipcQueue[k]
          /\ q[Len(ipcQueue) + 1] = p
    BY <2>0
  <2>. QED
    BY <1>1, <2>0, <2>1, <2>2 DEF Send, Longer
<1>2. CASE ~Fits
  BY <1>2 DEF Send
<1>. QED
  BY <1>1, <1>2

\* In no queue there is no packet.
LEMMA NothingInNoQueue ==
  /\ DOMAIN NoQueue = {1} /\ NoQueue[1] = "no queue"
  /\ DOMAIN <<>> = {} /\ Len(<<>>) = 0 /\ <<>> # NoQueue
<1>1. DOMAIN NoQueue = {1} /\ NoQueue[1] = "no queue"
  BY DEF NoQueue
<1>2. <<>> # NoQueue
  BY DEF NoQueue
<1>3. DOMAIN <<>> = {} /\ Len(<<>>) = 0
  OBVIOUS
<1>. QED
  BY <1>1, <1>2, <1>3

\* A longer queue is a queue.
LEMMA LongerIsAQueue ==
  ASSUME NEW p \in {"output", "release", "restart"}, Longer(p)
  PROVE  ipcQueue' # NoQueue
<1>1. Len(ipcQueue) + 1 \in DOMAIN ipcQueue' /\ Len(ipcQueue) \in Nat
  BY DEF Longer
<1>. QED
  BY <1>1, NothingInNoQueue DEF Longer

\* The same handlers are at work.
SameUsers == started' = started /\ \A h \in Handlers : pc'[h] = "off" <=> pc[h] = "off"

LEMMA UsersSame ==
  ASSUME SameUsers
  PROVE  (AllOff' <=> AllOff) /\ (AtMostOneUser' <=> AtMostOneUser)
BY DEF SameUsers, AllOff, AtMostOneUser

\* How many handlers are at work.
LEMMA UsersCounted ==
  ASSUME TypeFlags, Cardinality({h \in Handlers : pc[h] # "off"}) = IF started THEN 1 ELSE 0
  PROVE  AtMostOneUser
<1>. DEFINE U == {h \in Handlers : pc[h] # "off"}
<1>0. IsFiniteSet(U)
  BY LifecycleAssumption, FS_Subset
<1>1. CASE started
  <2>1. PICK h : U = {h}
    BY <1>0, <1>1, FS_Singleton
  <2>. QED
    BY <1>1, <2>1 DEF AtMostOneUser
<1>2. CASE ~started
  <2>1. U = {}
    BY <1>0, <1>2, FS_EmptySet
  <2>. QED
    BY <1>2, <2>1 DEF AtMostOneUser, AllOff
<1>. QED
  BY <1>1, <1>2 DEF TypeFlags

\* What storing does: it may stop at any insert.
LEMMA Storing ==
  ASSUME TypeCounts, ListenerStores
  PROVE  /\ UNCHANGED <<main, debug, handling, ipcStatus, ipcQueue, server, serverStatus,
                       openThreads, threadHandler, row, clients, started, pc, commands,
                       restarter, budget, calm, missed>>
         /\ tally' \in [accepted : Nat, kept : Nat, stored : Nat, asked : Nat,
                        failed : BOOLEAN]
         /\ \/ /\ listener = "restart" /\ listener' = "reply" /\ rebootQueue' = rebootQueue
               /\ tally'.stored \in 0..tally.kept /\ tally'.accepted = tally.accepted
               /\ tally'.kept = tally.kept /\ tally'.asked = tally.asked
               /\ tally'.failed \/ tally'.stored = tally.kept
            \/ /\ listener = "reply" /\ listener' = "read" /\ tally' = tally
               /\ rebootQueue' = IF rebootQueue = -1 THEN -1 ELSE rebootQueue + 1
<1>0. UNCHANGED <<main, debug, handling, ipcStatus, ipcQueue, server, serverStatus,
                  openThreads, threadHandler, row, clients, started, pc, commands,
                  restarter, budget, calm, missed>>
  BY DEF ListenerStores, mainVars, rowVars, lockVars
<1>1. CASE listener = "restart"
  <2>1. PICK n \in 0..tally.kept :
          tally' = [tally EXCEPT !.stored = n, !.failed = n < tally.kept]
    BY <1>1 DEF ListenerStores
  <2>2. listener' = "reply" /\ rebootQueue' = rebootQueue
    BY <1>1 DEF ListenerStores
  <2>3. /\ tally.accepted \in Nat /\ tally.kept \in Nat /\ tally.stored \in Nat
        /\ tally.asked \in Nat /\ n \in Nat
    BY <2>1 DEF TypeCounts
  <2>4. CASE n < tally.kept
    <3>1. tally' = [tally EXCEPT !.stored = n, !.failed = TRUE]
      BY <2>1, <2>4, Zenon
    <3>2. /\ tally'.stored = n /\ tally'.accepted = tally.accepted
          /\ tally'.kept = tally.kept /\ tally'.asked = tally.asked /\ tally'.failed = TRUE
          /\ tally' \in [accepted : Nat, kept : Nat, stored : Nat, asked : Nat,
                         failed : BOOLEAN]
      BY <3>1, <2>3 DEF TypeCounts
    <3>. QED
      BY <1>0, <1>1, <2>1, <2>2, <3>2
  <2>5. CASE ~(n < tally.kept)
    <3>1. tally' = [tally EXCEPT !.stored = n, !.failed = FALSE]
      <4>1. (n < tally.kept) = FALSE
        BY <2>5
      <4>. QED
        BY <2>1, <4>1, Zenon
    <3>2. /\ tally'.stored = n /\ tally'.accepted = tally.accepted
          /\ tally'.kept = tally.kept /\ tally'.asked = tally.asked
          /\ tally' \in [accepted : Nat, kept : Nat, stored : Nat, asked : Nat,
                         failed : BOOLEAN]
      BY <3>1, <2>3 DEF TypeCounts
    <3>3. n = tally.kept
      BY <2>1, <2>3, <2>5
    <3>. QED
      BY <1>0, <1>1, <2>1, <2>2, <3>2, <3>3
  <2>. QED
    BY <2>4, <2>5
<1>2. CASE listener = "reply"
  BY <1>0, <1>2 DEF ListenerStores, TypeCounts
<1>. QED
  BY <1>1, <1>2 DEF ListenerStores

-------------------------------------------------------------------------------
\* The kinds of values.
LEMMA TypesKept ==
  ASSUME TypeOK, CommandsCounted, RequestOnce, [Next]_vars
  PROVE  TypeOK'
<1>. USE DEF mainVars, ipcVars, rowVars, lockVars, powerVars
<1>. USE Bounds
<1>1. ASSUME CreateIpcListener PROVE TypeOK'
  <2>1. TypeScalars'
    BY <1>1, TypeParts DEF TypeScalars, Testing, ShuttingDown, CreateIpcListener
  <2>2. TypeFlags'
    BY <1>1, TypeParts DEF TypeFlags, Testing, ShuttingDown, CreateIpcListener
  <2>3. TypeQueue'
    BY <1>1, EmptyQueue, TypeParts DEF CreateIpcListener, TypeQueue
  <2>4. TypeRow'
    BY <1>1, TypeParts DEF TypeRow, Testing, ShuttingDown, CreateIpcListener
  <2>5. TypeCounts'
    BY <1>1, TypeParts DEF TypeCounts, Testing, ShuttingDown, CreateIpcListener
  <2>. QED
    BY <2>1, <2>2, <2>3, <2>4, <2>5, TypeParts, TypePartsNext
<1>2. ASSUME CreateServerThread PROVE TypeOK'
  BY <1>2 DEF TypeOK, Testing, ShuttingDown, CreateServerThread
<1>3. ASSUME WaitForThreads PROVE TypeOK'
  BY <1>3 DEF TypeOK, Testing, ShuttingDown, WaitForThreads
<1>4. ASSUME GetPreviousTestData PROVE TypeOK'
  BY <1>4 DEF TypeOK, Testing, ShuttingDown, GetPreviousTestData, CanLock, Lock, Crash, Testing
<1>5. ASSUME DatabaseDisconnect PROVE TypeOK'
  BY <1>5 DEF TypeOK, Testing, ShuttingDown, DatabaseDisconnect
<1>6. ASSUME BreakIPCListener PROVE TypeOK'
  <2>1. TypeScalars'
    BY <1>6, TypeParts DEF TypeScalars, Testing, ShuttingDown, BreakIPCListener, Send, Fits
  <2>2. TypeFlags'
    BY <1>6, TypeParts DEF TypeFlags, Testing, ShuttingDown, BreakIPCListener, Send, Fits
  <2>3. TypeQueue'
    <3>1. Send("release") => TypeQueue'
      BY SendTypes, TypeParts
    <3>2. QED
      BY <1>6, <3>1, TypeParts DEF BreakIPCListener, TypeQueue
  <2>4. TypeRow'
    BY <1>6, TypeParts DEF TypeRow, Testing, ShuttingDown, BreakIPCListener, Send, Fits
  <2>5. TypeCounts'
    BY <1>6, TypeParts DEF TypeCounts, Testing, ShuttingDown, BreakIPCListener, Send, Fits
  <2>. QED
    BY <2>1, <2>2, <2>3, <2>4, <2>5, TypeParts, TypePartsNext
<1>7. ASSUME ClearSlots PROVE TypeOK'
  BY <1>7 DEF TypeOK, Testing, ShuttingDown, ClearSlots
<1>8. ASSUME SignalRow PROVE TypeOK'
  <2>1. TypeScalars'
    BY <1>8, TypeParts DEF TypeScalars, Testing, ShuttingDown, SignalRow, Crash
  <2>2. TypeFlags'
    BY <1>8, TypeParts DEF TypeFlags, Testing, ShuttingDown, SignalRow, Crash
  <2>3. TypeQueue'
    BY <1>8, TypeParts DEF TypeQueue, Testing, ShuttingDown, SignalRow, Crash
  <2>4. TypeRow'
    <3>1. clients' \subseteq Slots
      BY <1>8, TypeParts DEF SignalRow, TypeRow
    <3>2. pc' = pc \/ Wake
      BY <1>8 DEF SignalRow, Crash
    <3>3. QED
      BY <3>1, <3>2, WakeTypes, TypeParts DEF TypeRow
  <2>5. TypeCounts'
    BY <1>8, TypeParts DEF TypeCounts, Testing, ShuttingDown, SignalRow, Crash
  <2>. QED
    BY <2>1, <2>2, <2>3, <2>4, <2>5, TypeParts, TypePartsNext
<1>9. ASSUME PollStatus PROVE TypeOK'
  BY <1>9 DEF TypeOK, Testing, ShuttingDown, PollStatus, CanLock, Lock, Crash
<1>10. ASSUME Destroy PROVE TypeOK'
  BY <1>10 DEF TypeOK, Testing, ShuttingDown, Destroy, CanLock, Crash
<1>11. ASSUME Exit PROVE TypeOK'
  BY <1>11 DEF TypeOK, Testing, ShuttingDown, Exit
<1>12. ASSUME ListenerStarts PROVE TypeOK'
  BY <1>12 DEF TypeOK, Testing, ShuttingDown, ListenerStarts, Alive
<1>13. ASSUME ListenerReads PROVE TypeOK'
  BY <1>13 DEF TypeOK, Testing, ShuttingDown, ListenerReads, Alive
<1>14. ASSUME ListenerStores PROVE TypeOK'
  <2>1. TypeScalars'
    BY <1>14, TypeParts, Storing DEF TypeScalars, Testing, ShuttingDown
  <2>2. TypeFlags'
    BY <1>14, TypeParts, Storing DEF TypeFlags
  <2>3. TypeQueue'
    BY <1>14, TypeParts, Storing DEF TypeQueue
  <2>4. TypeRow'
    BY <1>14, TypeParts, Storing DEF TypeRow
  <2>5. TypeCounts'
    <3>1. tally' \in [accepted : Nat, kept : Nat, stored : Nat, asked : Nat,
                     failed : BOOLEAN]
      BY <1>14, TypeParts, Storing DEF TypeCounts
    <3>2. budget' \in [connects : 0..MaxConnects, commands : 0..MaxCommands]
      BY <1>14, TypeParts DEF ListenerStores, TypeCounts
    <3>3. commands' \in 0..MaxCommands
      BY <1>14, TypeParts DEF ListenerStores, TypeCounts, CommandsCounted
    <3>4. rebootQueue' \in -1..2
      BY <1>14, TypeParts, Storing DEF TypeCounts, RequestOnce, Unanswered
    <3>5. QED
      BY <3>1, <3>2, <3>3, <3>4 DEF TypeCounts
  <2>. QED
    BY <2>1, <2>2, <2>3, <2>4, <2>5, TypeParts, TypePartsNext
<1>15. ASSUME ListenerKeeps PROVE TypeOK'
  <2>1. TypeScalars'
    BY <1>15, TypeParts DEF TypeScalars, Testing, ShuttingDown, ListenerKeeps, Alive, CanLock,
           Lock, Crash
  <2>2. TypeFlags'
    BY <1>15, TypeParts DEF TypeFlags, Testing, ShuttingDown, ListenerKeeps, Alive, CanLock,
           Lock, Crash
  <2>3. TypeQueue'
    BY <1>15, TypeParts DEF TypeQueue, Testing, ShuttingDown, ListenerKeeps, Alive, CanLock,
           Lock, Crash
  <2>4. TypeRow'
    BY <1>15, TypeParts DEF TypeRow, Testing, ShuttingDown, ListenerKeeps, Alive, CanLock, Lock,
           Crash
  <2>5. TypeCounts'
    <3>1. tally' \in [accepted : Nat, kept : Nat, stored : Nat, asked : Nat,
                     failed : BOOLEAN]
      BY <1>15, TypeParts DEF ListenerKeeps, TypeCounts
    <3>2. budget' \in [connects : 0..MaxConnects, commands : 0..MaxCommands]
      BY <1>15, TypeParts DEF ListenerKeeps, TypeCounts
    <3>3. commands' \in 0..MaxCommands
      BY <1>15, TypeParts DEF ListenerKeeps, TypeCounts, CommandsCounted
    <3>4. rebootQueue' \in -1..2
      BY <1>15, TypeParts DEF ListenerKeeps, TypeCounts, RequestOnce, Unanswered
    <3>5. QED
      BY <3>1, <3>2, <3>3, <3>4 DEF TypeCounts
  <2>. QED
    BY <2>1, <2>2, <2>3, <2>4, <2>5, TypeParts, TypePartsNext
<1>16. ASSUME InitializeServerThreads PROVE TypeOK'
  <2>1. TypeScalars'
    BY <1>16, TypeParts DEF TypeScalars, Testing, ShuttingDown, InitializeServerThreads, Alive
  <2>2. TypeFlags'
    BY <1>16, TypeParts DEF TypeFlags, Testing, ShuttingDown, InitializeServerThreads, Alive
  <2>3. TypeQueue'
    BY <1>16, TypeParts DEF TypeQueue, Testing, ShuttingDown, InitializeServerThreads, Alive
  <2>4. TypeRow'
    BY <1>16, TypeParts DEF TypeRow, Testing, ShuttingDown, InitializeServerThreads, Alive
  <2>5. TypeCounts'
    BY <1>16, TypeParts DEF TypeCounts, Testing, ShuttingDown, InitializeServerThreads, Alive
  <2>. QED
    BY <2>1, <2>2, <2>3, <2>4, <2>5, TypeParts, TypePartsNext
<1>17. ASSUME InitializeThreadDescriptors PROVE TypeOK'
  <2>1. TypeScalars'
    BY <1>17, TypeParts DEF TypeScalars, Testing, ShuttingDown, InitializeThreadDescriptors,
           Alive, CanLock, Crash
  <2>2. TypeFlags'
    BY <1>17, TypeParts DEF TypeFlags, Testing, ShuttingDown, InitializeThreadDescriptors,
           Alive, CanLock, Crash
  <2>3. TypeQueue'
    BY <1>17, TypeParts DEF TypeQueue, Testing, ShuttingDown, InitializeThreadDescriptors,
           Alive, CanLock, Crash
  <2>4. TypeRow'
    BY <1>17, TypeParts DEF TypeRow, Testing, ShuttingDown, InitializeThreadDescriptors, Alive,
           CanLock, Crash
  <2>5. TypeCounts'
    <3>1. tally' \in [accepted : Nat, kept : Nat, stored : Nat, asked : Nat,
                     failed : BOOLEAN]
      BY <1>17, TypeParts DEF InitializeThreadDescriptors, TypeCounts
    <3>2. budget' \in [connects : 0..MaxConnects, commands : 0..MaxCommands]
      BY <1>17, TypeParts DEF InitializeThreadDescriptors, TypeCounts
    <3>3. commands' \in 0..MaxCommands
      BY <1>17, TypeParts DEF InitializeThreadDescriptors, TypeCounts, CommandsCounted
    <3>4. rebootQueue' \in -1..2
      BY <1>17, TypeParts DEF InitializeThreadDescriptors, TypeCounts, RequestOnce, Unanswered
    <3>5. QED
      BY <3>1, <3>2, <3>3, <3>4 DEF TypeCounts
  <2>. QED
    BY <2>1, <2>2, <2>3, <2>4, <2>5, TypeParts, TypePartsNext
<1>18. ASSUME OpenSockets PROVE TypeOK'
  BY <1>18 DEF TypeOK, Testing, ShuttingDown, OpenSockets, Alive
<1>19. ASSUME Spawned PROVE TypeOK'
  BY <1>19 DEF TypeOK, Testing, ShuttingDown, Spawned, Alive
<1>20. ASSUME NotifyThread PROVE TypeOK'
  <2>1. TypeScalars'
    BY <1>20, TypeParts DEF TypeScalars, Testing, ShuttingDown, NotifyThread, Alive, Crash
  <2>2. TypeFlags'
    BY <1>20, TypeParts DEF TypeFlags, Testing, ShuttingDown, NotifyThread, Alive, Crash
  <2>3. TypeQueue'
    BY <1>20, TypeParts DEF TypeQueue, Testing, ShuttingDown, NotifyThread, Alive, Crash
  <2>4. TypeRow'
    <3>1. clients' \subseteq Slots
      BY <1>20, TypeParts DEF NotifyThread, TypeRow
    <3>2. pc' = pc \/ Wake
      BY <1>20 DEF NotifyThread, Crash
    <3>3. QED
      BY <3>1, <3>2, WakeTypes, TypeParts DEF TypeRow
  <2>5. TypeCounts'
    BY <1>20, TypeParts DEF TypeCounts, Testing, ShuttingDown, NotifyThread, Alive, Crash
  <2>. QED
    BY <2>1, <2>2, <2>3, <2>4, <2>5, TypeParts, TypePartsNext
<1>21. ASSUME Connect PROVE TypeOK'
  <2>1. TypeScalars'
    BY <1>21, TypeParts DEF TypeScalars, Testing, ShuttingDown, Connect, Alive, ServerActs
  <2>2. TypeFlags'
    BY <1>21, TypeParts DEF TypeFlags, Testing, ShuttingDown, Connect, Alive, ServerActs
  <2>3. TypeQueue'
    BY <1>21, TypeParts DEF TypeQueue, Testing, ShuttingDown, Connect, Alive, ServerActs
  <2>4. TypeRow'
    <3>1. clients' \subseteq Slots
      BY <1>21, TypeParts, FreeSlot DEF Connect, TypeRow, Move
    <3>2. pc' \in [Handlers -> HandlerPlaces]
      BY <1>21, TypeParts DEF Connect, TypeRow, HandlerPlaces, Move
    <3>3. QED
      BY <3>1, <3>2 DEF TypeRow
  <2>5. TypeCounts'
    <3>1. tally' \in [accepted : Nat, kept : Nat, stored : Nat, asked : Nat,
                     failed : BOOLEAN]
      BY <1>21, TypeParts DEF Connect, TypeCounts
    <3>2. budget' \in [connects : 0..MaxConnects, commands : 0..MaxCommands]
      BY <1>21, TypeParts DEF Connect, TypeCounts
    <3>3. commands' \in 0..MaxCommands
      BY <1>21, TypeParts DEF Connect, TypeCounts, CommandsCounted
    <3>4. rebootQueue' \in -1..2
      BY <1>21, TypeParts DEF Connect, TypeCounts, RequestOnce, Unanswered
    <3>5. QED
      BY <3>1, <3>2, <3>3, <3>4 DEF TypeCounts
  <2>. QED
    BY <2>1, <2>2, <2>3, <2>4, <2>5, TypeParts, TypePartsNext
<1>22. ASSUME PushThreadCommand PROVE TypeOK'
  <2>1. TypeScalars'
    BY <1>22, TypeParts DEF TypeScalars, Testing, ShuttingDown, PushThreadCommand, Alive,
           CanLock, Crash, ServerActs
  <2>2. TypeFlags'
    BY <1>22, TypeParts DEF TypeFlags, Testing, ShuttingDown, PushThreadCommand, Alive, CanLock,
           Crash, ServerActs
  <2>3. TypeQueue'
    BY <1>22, TypeParts DEF TypeQueue, Testing, ShuttingDown, PushThreadCommand, Alive, CanLock,
           Crash, ServerActs
  <2>4. TypeRow'
    BY <1>22, TypeParts DEF TypeRow, Testing, ShuttingDown, PushThreadCommand, Alive, CanLock,
           Crash, ServerActs
  <2>5. TypeCounts'
    <3>1. tally' \in [accepted : Nat, kept : Nat, stored : Nat, asked : Nat,
                     failed : BOOLEAN]
      BY <1>22, TypeParts DEF PushThreadCommand, TypeCounts
    <3>2. budget' \in [connects : 0..MaxConnects, commands : 0..MaxCommands]
      BY <1>22, TypeParts DEF PushThreadCommand, TypeCounts
    <3>3. commands' \in 0..MaxCommands
      BY <1>22, TypeParts DEF PushThreadCommand, TypeCounts, CommandsCounted
    <3>4. rebootQueue' \in -1..2
      BY <1>22, TypeParts DEF PushThreadCommand, TypeCounts, RequestOnce, Unanswered
    <3>5. QED
      BY <3>1, <3>2, <3>3, <3>4 DEF TypeCounts
  <2>. QED
    BY <2>1, <2>2, <2>3, <2>4, <2>5, TypeParts, TypePartsNext
<1>23. ASSUME NEW s \in Slots, Disconnect(s) PROVE TypeOK'
  BY <1>23 DEF TypeOK, Testing, ShuttingDown, Disconnect, Alive, ServerActs
<1>24. ASSUME NEW h \in Handlers, HandlerStarts(h) PROVE TypeOK'
  BY <1>24 DEF TypeOK, Testing, ShuttingDown, HandlerStarts, Move, Alive
<1>25. ASSUME NEW h \in Handlers, HandlerChecks(h) PROVE TypeOK'
  BY <1>25 DEF TypeOK, Testing, ShuttingDown, HandlerChecks, Move, Alive
<1>26. ASSUME NEW h \in Handlers, HandlerWaits(h) PROVE TypeOK'
  BY <1>26 DEF TypeOK, Testing, ShuttingDown, HandlerWaits, Move, Alive, Crash
<1>27. ASSUME NEW h \in Handlers, HandlerServes(h) PROVE TypeOK'
  BY <1>27 DEF TypeOK, Testing, ShuttingDown, HandlerServes, Move, Alive
<1>28. ASSUME NEW h \in Handlers, HandlerPeeks(h) PROVE TypeOK'
  <2>1. TypeScalars'
    BY <1>28, TypeParts DEF TypeScalars, Testing, ShuttingDown, HandlerPeeks, Move, Alive,
           CanLock, Crash
  <2>2. TypeFlags'
    BY <1>28, TypeParts DEF TypeFlags, Testing, ShuttingDown, HandlerPeeks, Move, Alive,
           CanLock, Crash
  <2>3. TypeQueue'
    BY <1>28, TypeParts DEF TypeQueue, Testing, ShuttingDown, HandlerPeeks, Move, Alive,
           CanLock, Crash
  <2>4. TypeRow'
    <3>1. clients' \subseteq Slots
      BY <1>28, TypeParts, FreeSlot DEF HandlerPeeks, TypeRow, Move
    <3>2. pc' \in [Handlers -> HandlerPlaces]
      BY <1>28, TypeParts DEF HandlerPeeks, TypeRow, HandlerPlaces, Move
    <3>3. QED
      BY <3>1, <3>2 DEF TypeRow
  <2>5. TypeCounts'
    <3>1. tally' \in [accepted : Nat, kept : Nat, stored : Nat, asked : Nat,
                     failed : BOOLEAN]
      BY <1>28, TypeParts DEF HandlerPeeks, TypeCounts
    <3>2. budget' \in [connects : 0..MaxConnects, commands : 0..MaxCommands]
      BY <1>28, TypeParts DEF HandlerPeeks, TypeCounts
    <3>3. commands' \in 0..MaxCommands
      BY <1>28, TypeParts DEF HandlerPeeks, TypeCounts, CommandsCounted
    <3>4. rebootQueue' \in -1..2
      BY <1>28, TypeParts DEF HandlerPeeks, TypeCounts, RequestOnce, Unanswered
    <3>5. QED
      BY <3>1, <3>2, <3>3, <3>4 DEF TypeCounts
  <2>. QED
    BY <2>1, <2>2, <2>3, <2>4, <2>5, TypeParts, TypePartsNext
<1>29. ASSUME NEW h \in Handlers, HandlerLeaves(h) PROVE TypeOK'
  <2>1. TypeScalars'
    BY <1>29, TypeParts DEF TypeScalars, Testing, ShuttingDown, HandlerLeaves, Move, Alive,
           CanLock, Crash
  <2>2. TypeFlags'
    BY <1>29, TypeParts DEF TypeFlags, Testing, ShuttingDown, HandlerLeaves, Move, Alive,
           CanLock, Crash
  <2>3. TypeQueue'
    BY <1>29, TypeParts DEF TypeQueue, Testing, ShuttingDown, HandlerLeaves, Move, Alive,
           CanLock, Crash
  <2>4. TypeRow'
    <3>1. clients' \subseteq Slots
      BY <1>29, TypeParts, FreeSlot DEF HandlerLeaves, TypeRow, Move
    <3>2. pc' \in [Handlers -> HandlerPlaces]
      BY <1>29, TypeParts DEF HandlerLeaves, TypeRow, HandlerPlaces, Move
    <3>3. QED
      BY <3>1, <3>2 DEF TypeRow
  <2>5. TypeCounts'
    BY <1>29, TypeParts DEF TypeCounts, Testing, ShuttingDown, HandlerLeaves, Move, Alive,
           CanLock, Crash
  <2>. QED
    BY <2>1, <2>2, <2>3, <2>4, <2>5, TypeParts, TypePartsNext
<1>30. ASSUME NEW k \in Signals, HandleSignal(k) PROVE TypeOK'
  BY <1>30 DEF TypeOK, Testing, ShuttingDown, HandleSignal, Alive
<1>31. ASSUME ProgramSends PROVE TypeOK'
  <2>1. TypeScalars'
    BY <1>31, TypeParts DEF TypeScalars, Testing, ShuttingDown, ProgramSends, Send, Fits
  <2>2. TypeFlags'
    BY <1>31, TypeParts DEF TypeFlags, Testing, ShuttingDown, ProgramSends, Send, Fits
  <2>3. TypeQueue'
    BY <1>31, SendTypes, TypeParts DEF ProgramSends
  <2>4. TypeRow'
    BY <1>31, TypeParts DEF TypeRow, Testing, ShuttingDown, ProgramSends, Send, Fits
  <2>5. TypeCounts'
    <3>1. tally' \in [accepted : Nat, kept : Nat, stored : Nat, asked : Nat,
                     failed : BOOLEAN]
      BY <1>31, TypeParts DEF ProgramSends, TypeCounts
    <3>2. budget' \in [connects : 0..MaxConnects, commands : 0..MaxCommands]
      BY <1>31, TypeParts DEF ProgramSends, TypeCounts
    <3>3. commands' \in 0..MaxCommands
      BY <1>31, TypeParts DEF ProgramSends, TypeCounts, CommandsCounted
    <3>4. rebootQueue' \in -1..2
      BY <1>31, TypeParts DEF ProgramSends, TypeCounts, RequestOnce, Unanswered
    <3>5. QED
      BY <3>1, <3>2, <3>3, <3>4 DEF TypeCounts
  <2>. QED
    BY <2>1, <2>2, <2>3, <2>4, <2>5, TypeParts, TypePartsNext
<1>32. ASSUME PowerDown PROVE TypeOK'
  <2>1. TypeScalars'
    BY <1>32, TypeParts DEF TypeScalars, Testing, ShuttingDown, PowerDown, Send, Fits
  <2>2. TypeFlags'
    BY <1>32, TypeParts DEF TypeFlags, Testing, ShuttingDown, PowerDown, Send, Fits
  <2>3. TypeQueue'
    <3>1. Send("restart") => TypeQueue'
      BY SendTypes, TypeParts
    <3>2. QED
      BY <1>32, <3>1, TypeParts DEF PowerDown, TypeQueue
  <2>4. TypeRow'
    BY <1>32, TypeParts DEF TypeRow, Testing, ShuttingDown, PowerDown, Send, Fits
  <2>5. TypeCounts'
    <3>1. tally' \in [accepted : Nat, kept : Nat, stored : Nat, asked : Nat,
                     failed : BOOLEAN]
      BY <1>32, TypeParts DEF PowerDown, TypeCounts
    <3>2. budget' \in [connects : 0..MaxConnects, commands : 0..MaxCommands]
      BY <1>32, TypeParts DEF PowerDown, TypeCounts
    <3>3. commands' \in 0..MaxCommands
      BY <1>32, TypeParts DEF PowerDown, TypeCounts, CommandsCounted
    <3>4. rebootQueue' \in -1..2
      BY <1>32, TypeParts DEF PowerDown, TypeCounts, RequestOnce, Unanswered
    <3>5. QED
      BY <3>1, <3>2, <3>3, <3>4 DEF TypeCounts
  <2>. QED
    BY <2>1, <2>2, <2>3, <2>4, <2>5, TypeParts, TypePartsNext
<1>33. CASE UNCHANGED vars
  BY <1>33 DEF TypeOK, Testing, ShuttingDown, vars
<1>. QED
  BY <1>1, <1>2, <1>3, <1>4, <1>5, <1>6, <1>7, <1>8, <1>9, <1>10, <1>11, <1>12, <1>13, <1>14,
         <1>15, <1>16, <1>17, <1>18, <1>19, <1>20, <1>21, <1>22, <1>23, <1>24, <1>25, <1>26,
         <1>27, <1>28, <1>29, <1>30, <1>31, <1>32, <1>33 DEF Next, Start, ShutDown, Listener,
         ServerGoesOn, Handler

\* Where each thread can be, step by step.
LEMMA PlacesKept ==
  ASSUME TypeOK, TypeOK', Places, [Next]_vars
  PROVE  Places'
<1>. USE DEF mainVars, ipcVars, rowVars, lockVars, powerVars
<1>. USE Bounds
<1>0. TypeScalars /\ TypeRow /\ TypeQueue
  BY TypeParts
<1>1. ASSUME CreateIpcListener PROVE Places'
  BY <1>1, <1>0 DEF Places, TypeScalars, TypeRow, HandlerPlaces, AllOff, LocksMade, Testing,
         ShuttingDown, Down, CreateIpcListener
<1>2. ASSUME CreateServerThread PROVE Places'
  BY <1>2, <1>0 DEF Places, TypeScalars, TypeRow, HandlerPlaces, AllOff, LocksMade, Testing,
         ShuttingDown, Down, CreateServerThread
<1>3. ASSUME WaitForThreads PROVE Places'
  BY <1>3, <1>0 DEF Places, TypeScalars, TypeRow, HandlerPlaces, AllOff, LocksMade, Testing,
         ShuttingDown, Down, WaitForThreads
<1>4. ASSUME GetPreviousTestData PROVE Places'
  BY <1>4, <1>0 DEF Places, TypeScalars, TypeRow, HandlerPlaces, AllOff, LocksMade, Testing,
         ShuttingDown, Down, GetPreviousTestData, CanLock, Lock, Crash, Testing
<1>5. ASSUME DatabaseDisconnect PROVE Places'
  BY <1>5, <1>0 DEF Places, TypeScalars, TypeRow, HandlerPlaces, AllOff, LocksMade, Testing,
         ShuttingDown, Down, DatabaseDisconnect
<1>6. ASSUME BreakIPCListener PROVE Places'
  BY <1>6, <1>0 DEF Places, TypeScalars, TypeRow, HandlerPlaces, AllOff, LocksMade, Testing,
         ShuttingDown, Down, BreakIPCListener, Send, Fits
<1>7. ASSUME ClearSlots PROVE Places'
  BY <1>7, <1>0 DEF Places, TypeScalars, TypeRow, HandlerPlaces, AllOff, LocksMade, Testing,
         ShuttingDown, Down, ClearSlots
<1>8. ASSUME SignalRow PROVE Places'
  <2>1. \A h \in Handlers : pc'[h] = "off" <=> pc[h] = "off"
    BY <1>8, <1>0, WakeOff DEF SignalRow, Crash
  <2>2. AllOff' <=> AllOff
    BY <2>1 DEF AllOff
  <2>. QED
    BY <1>8, <1>0, <2>2 DEF Places, TypeScalars, LocksMade, Testing, ShuttingDown, Down,
           SignalRow, Crash
<1>9. ASSUME PollStatus PROVE Places'
  BY <1>9, <1>0 DEF Places, TypeScalars, TypeRow, HandlerPlaces, AllOff, LocksMade, Testing,
         ShuttingDown, Down, PollStatus, CanLock, Lock, Crash
<1>10. ASSUME Destroy PROVE Places'
  BY <1>10, <1>0 DEF Places, TypeScalars, TypeRow, HandlerPlaces, AllOff, LocksMade, Testing,
         ShuttingDown, Down, Destroy, CanLock, Crash
<1>11. ASSUME Exit PROVE Places'
  BY <1>11, <1>0 DEF Places, TypeScalars, TypeRow, HandlerPlaces, AllOff, LocksMade, Testing,
         ShuttingDown, Down, Exit
<1>12. ASSUME ListenerStarts PROVE Places'
  BY <1>12, <1>0 DEF Places, TypeScalars, TypeRow, HandlerPlaces, AllOff, LocksMade, Testing,
         ShuttingDown, Down, ListenerStarts, Alive
<1>13. ASSUME ListenerReads PROVE Places'
  BY <1>13, <1>0, HeadTypes DEF Places, TypeScalars, TypeRow, HandlerPlaces, AllOff, LocksMade,
         Testing, ShuttingDown, Down, ListenerReads, Alive
<1>14. ASSUME ListenerStores PROVE Places'
  BY <1>14, <1>0 DEF Places, TypeScalars, TypeRow, HandlerPlaces, AllOff, LocksMade, Testing,
         ShuttingDown, Down, ListenerStores, Alive
<1>15. ASSUME ListenerKeeps PROVE Places'
  BY <1>15, <1>0 DEF Places, TypeScalars, TypeRow, HandlerPlaces, AllOff, LocksMade, Testing,
         ShuttingDown, Down, ListenerKeeps, Alive, CanLock, Lock, Crash
<1>16. ASSUME InitializeServerThreads PROVE Places'
  BY <1>16, <1>0 DEF Places, TypeScalars, TypeRow, HandlerPlaces, AllOff, LocksMade, Testing,
         ShuttingDown, Down, InitializeServerThreads, Alive
<1>17. ASSUME InitializeThreadDescriptors PROVE Places'
  BY <1>17, <1>0 DEF Places, TypeScalars, TypeRow, HandlerPlaces, AllOff, LocksMade, Testing,
         ShuttingDown, Down, InitializeThreadDescriptors, Alive, CanLock, Crash
<1>18. ASSUME OpenSockets PROVE Places'
  BY <1>18, <1>0 DEF Places, TypeScalars, TypeRow, HandlerPlaces, AllOff, LocksMade, Testing,
         ShuttingDown, Down, OpenSockets, Alive
<1>19. ASSUME Spawned PROVE Places'
  BY <1>19, <1>0 DEF Places, TypeScalars, TypeRow, HandlerPlaces, AllOff, LocksMade, Testing,
         ShuttingDown, Down, Spawned, Alive
<1>20. ASSUME NotifyThread PROVE Places'
  <2>1. \A h \in Handlers : pc'[h] = "off" <=> pc[h] = "off"
    BY <1>20, <1>0, WakeOff DEF NotifyThread, Crash
  <2>2. AllOff' <=> AllOff
    BY <2>1 DEF AllOff
  <2>. QED
    BY <1>20, <1>0, <2>2 DEF Places, TypeScalars, LocksMade, Testing, ShuttingDown, Down,
           NotifyThread, Crash, Alive
<1>21. ASSUME Connect PROVE Places'
  BY <1>21, <1>0 DEF Places, TypeScalars, TypeRow, HandlerPlaces, AllOff, LocksMade, Testing,
         ShuttingDown, Down, Connect, Alive, ServerActs
<1>22. ASSUME PushThreadCommand PROVE Places'
  BY <1>22, <1>0 DEF Places, TypeScalars, TypeRow, HandlerPlaces, AllOff, LocksMade, Testing,
         ShuttingDown, Down, PushThreadCommand, Alive, CanLock, Crash, ServerActs
<1>23. ASSUME NEW s \in Slots, Disconnect(s) PROVE Places'
  BY <1>23, <1>0 DEF Places, TypeScalars, TypeRow, HandlerPlaces, AllOff, LocksMade, Testing,
         ShuttingDown, Down, Disconnect, Alive, ServerActs
<1>24. ASSUME NEW h \in Handlers, HandlerStarts(h) PROVE Places'
  BY <1>24, <1>0 DEF Places, TypeScalars, TypeRow, HandlerPlaces, AllOff, LocksMade, Testing,
         ShuttingDown, Down, HandlerStarts, Move, Alive
<1>25. ASSUME NEW h \in Handlers, HandlerChecks(h) PROVE Places'
  BY <1>25, <1>0 DEF Places, TypeScalars, TypeRow, HandlerPlaces, AllOff, LocksMade, Testing,
         ShuttingDown, Down, HandlerChecks, Move, Alive
<1>26. ASSUME NEW h \in Handlers, HandlerWaits(h) PROVE Places'
  BY <1>26, <1>0 DEF Places, TypeScalars, TypeRow, HandlerPlaces, AllOff, LocksMade, Testing,
         ShuttingDown, Down, HandlerWaits, Move, Alive, Crash
<1>27. ASSUME NEW h \in Handlers, HandlerServes(h) PROVE Places'
  BY <1>27, <1>0 DEF Places, TypeScalars, TypeRow, HandlerPlaces, AllOff, LocksMade, Testing,
         ShuttingDown, Down, HandlerServes, Move, Alive
<1>28. ASSUME NEW h \in Handlers, HandlerPeeks(h) PROVE Places'
  BY <1>28, <1>0 DEF Places, TypeScalars, TypeRow, HandlerPlaces, AllOff, LocksMade, Testing,
         ShuttingDown, Down, HandlerPeeks, Move, Alive, CanLock, Crash
<1>29. ASSUME NEW h \in Handlers, HandlerLeaves(h) PROVE Places'
  BY <1>29, <1>0 DEF Places, TypeScalars, TypeRow, HandlerPlaces, AllOff, LocksMade, Testing,
         ShuttingDown, Down, HandlerLeaves, Move, Alive, CanLock, Crash
<1>30. ASSUME NEW k \in Signals, HandleSignal(k) PROVE Places'
  BY <1>30, <1>0 DEF Places, TypeScalars, TypeRow, HandlerPlaces, AllOff, LocksMade, Testing,
         ShuttingDown, Down, HandleSignal, Alive
<1>31. ASSUME ProgramSends PROVE Places'
  BY <1>31, <1>0 DEF Places, TypeScalars, TypeRow, HandlerPlaces, AllOff, LocksMade, Testing,
         ShuttingDown, Down, ProgramSends, Send, Fits
<1>32. ASSUME PowerDown PROVE Places'
  BY <1>32, <1>0 DEF Places, TypeScalars, TypeRow, HandlerPlaces, AllOff, LocksMade, Testing,
         ShuttingDown, Down, PowerDown, Send, Fits
<1>33. CASE UNCHANGED vars
  BY <1>33 DEF Places, TypeScalars, TypeRow, HandlerPlaces, AllOff, LocksMade, Testing,
         ShuttingDown, Down, vars
<1>. QED
  BY <1>1, <1>2, <1>3, <1>4, <1>5, <1>6, <1>7, <1>8, <1>9, <1>10, <1>11, <1>12, <1>13, <1>14,
         <1>15, <1>16, <1>17, <1>18, <1>19, <1>20, <1>21, <1>22, <1>23, <1>24, <1>25, <1>26,
         <1>27, <1>28, <1>29, <1>30, <1>31, <1>32, <1>33 DEF Next, Start, ShutDown, Listener,
         ServerGoesOn, Handler

\* Commands and what is left of the budget.
LEMMA CommandsCountedKept ==
  ASSUME TypeOK, CommandsCounted, [Next]_vars
  PROVE  CommandsCounted'
<1>. USE DEF mainVars, ipcVars, rowVars, lockVars, powerVars
<1>. USE Bounds
<1>0. TypeCounts
  BY TypeParts
<1>1. ASSUME CreateIpcListener PROVE CommandsCounted'
  BY <1>1, <1>0 DEF CommandsCounted, TypeCounts, CreateIpcListener
<1>2. ASSUME CreateServerThread PROVE CommandsCounted'
  BY <1>2, <1>0 DEF CommandsCounted, TypeCounts, CreateServerThread
<1>3. ASSUME WaitForThreads PROVE CommandsCounted'
  BY <1>3, <1>0 DEF CommandsCounted, TypeCounts, WaitForThreads
<1>4. ASSUME GetPreviousTestData PROVE CommandsCounted'
  BY <1>4, <1>0 DEF CommandsCounted, TypeCounts, GetPreviousTestData, CanLock, Lock, Crash,
         Testing
<1>5. ASSUME DatabaseDisconnect PROVE CommandsCounted'
  BY <1>5, <1>0 DEF CommandsCounted, TypeCounts, DatabaseDisconnect
<1>6. ASSUME BreakIPCListener PROVE CommandsCounted'
  BY <1>6, <1>0 DEF CommandsCounted, TypeCounts, BreakIPCListener, Send, Fits
<1>7. ASSUME ClearSlots PROVE CommandsCounted'
  BY <1>7, <1>0 DEF CommandsCounted, TypeCounts, ClearSlots
<1>8. ASSUME SignalRow PROVE CommandsCounted'
  BY <1>8, <1>0 DEF CommandsCounted, TypeCounts, SignalRow, Crash
<1>9. ASSUME PollStatus PROVE CommandsCounted'
  BY <1>9, <1>0 DEF CommandsCounted, TypeCounts, PollStatus, CanLock, Lock, Crash
<1>10. ASSUME Destroy PROVE CommandsCounted'
  BY <1>10, <1>0 DEF CommandsCounted, TypeCounts, Destroy, CanLock, Crash
<1>11. ASSUME Exit PROVE CommandsCounted'
  BY <1>11, <1>0 DEF CommandsCounted, TypeCounts, Exit
<1>12. ASSUME ListenerStarts PROVE CommandsCounted'
  BY <1>12, <1>0 DEF CommandsCounted, TypeCounts, ListenerStarts, Alive
<1>13. ASSUME ListenerReads PROVE CommandsCounted'
  BY <1>13, <1>0 DEF CommandsCounted, TypeCounts, ListenerReads, Alive
<1>14. ASSUME ListenerStores PROVE CommandsCounted'
  BY <1>14, <1>0 DEF CommandsCounted, TypeCounts, ListenerStores, Alive
<1>15. ASSUME ListenerKeeps PROVE CommandsCounted'
  BY <1>15, <1>0 DEF CommandsCounted, TypeCounts, ListenerKeeps, Alive, CanLock, Lock, Crash
<1>16. ASSUME InitializeServerThreads PROVE CommandsCounted'
  BY <1>16, <1>0 DEF CommandsCounted, TypeCounts, InitializeServerThreads, Alive
<1>17. ASSUME InitializeThreadDescriptors PROVE CommandsCounted'
  BY <1>17, <1>0 DEF CommandsCounted, TypeCounts, InitializeThreadDescriptors, Alive, CanLock,
         Crash
<1>18. ASSUME OpenSockets PROVE CommandsCounted'
  BY <1>18, <1>0 DEF CommandsCounted, TypeCounts, OpenSockets, Alive
<1>19. ASSUME Spawned PROVE CommandsCounted'
  BY <1>19, <1>0 DEF CommandsCounted, TypeCounts, Spawned, Alive
<1>20. ASSUME NotifyThread PROVE CommandsCounted'
  BY <1>20, <1>0 DEF CommandsCounted, TypeCounts, NotifyThread, Alive, Crash
<1>21. ASSUME Connect PROVE CommandsCounted'
  BY <1>21, <1>0 DEF CommandsCounted, TypeCounts, Connect, Alive, ServerActs
<1>22. ASSUME PushThreadCommand PROVE CommandsCounted'
  BY <1>22, <1>0 DEF CommandsCounted, TypeCounts, PushThreadCommand, Alive, CanLock, Crash,
         ServerActs
<1>23. ASSUME NEW s \in Slots, Disconnect(s) PROVE CommandsCounted'
  BY <1>23, <1>0 DEF CommandsCounted, TypeCounts, Disconnect, Alive, ServerActs
<1>24. ASSUME NEW h \in Handlers, HandlerStarts(h) PROVE CommandsCounted'
  BY <1>24, <1>0 DEF CommandsCounted, TypeCounts, HandlerStarts, Move, Alive
<1>25. ASSUME NEW h \in Handlers, HandlerChecks(h) PROVE CommandsCounted'
  BY <1>25, <1>0 DEF CommandsCounted, TypeCounts, HandlerChecks, Move, Alive
<1>26. ASSUME NEW h \in Handlers, HandlerWaits(h) PROVE CommandsCounted'
  BY <1>26, <1>0 DEF CommandsCounted, TypeCounts, HandlerWaits, Move, Alive, Crash
<1>27. ASSUME NEW h \in Handlers, HandlerServes(h) PROVE CommandsCounted'
  BY <1>27, <1>0 DEF CommandsCounted, TypeCounts, HandlerServes, Move, Alive
<1>28. ASSUME NEW h \in Handlers, HandlerPeeks(h) PROVE CommandsCounted'
  BY <1>28, <1>0 DEF CommandsCounted, TypeCounts, HandlerPeeks, Move, Alive, CanLock, Crash
<1>29. ASSUME NEW h \in Handlers, HandlerLeaves(h) PROVE CommandsCounted'
  BY <1>29, <1>0 DEF CommandsCounted, TypeCounts, HandlerLeaves, Move, Alive, CanLock, Crash
<1>30. ASSUME NEW k \in Signals, HandleSignal(k) PROVE CommandsCounted'
  BY <1>30, <1>0 DEF CommandsCounted, TypeCounts, HandleSignal, Alive
<1>31. ASSUME ProgramSends PROVE CommandsCounted'
  BY <1>31, <1>0 DEF CommandsCounted, TypeCounts, ProgramSends, Send, Fits
<1>32. ASSUME PowerDown PROVE CommandsCounted'
  BY <1>32, <1>0 DEF CommandsCounted, TypeCounts, PowerDown, Send, Fits
<1>33. CASE UNCHANGED vars
  BY <1>33 DEF CommandsCounted, TypeCounts, vars
<1>. QED
  BY <1>1, <1>2, <1>3, <1>4, <1>5, <1>6, <1>7, <1>8, <1>9, <1>10, <1>11, <1>12, <1>13, <1>14,
         <1>15, <1>16, <1>17, <1>18, <1>19, <1>20, <1>21, <1>22, <1>23, <1>24, <1>25, <1>26,
         <1>27, <1>28, <1>29, <1>30, <1>31, <1>32, <1>33 DEF Next, Start, ShutDown, Listener,
         ServerGoesOn, Handler

\* The request and its reply.
LEMMA RequestKept ==
  ASSUME TypeOK, RequestOnce, [Next]_vars
  PROVE  RequestOnce'
<1>. USE DEF mainVars, ipcVars, rowVars, lockVars, powerVars
<1>. USE Bounds
<1>0. TypeScalars /\ TypeRow /\ TypeQueue /\ TypeCounts
  BY TypeParts
<1>1. ASSUME CreateIpcListener PROVE RequestOnce'
  <2>1. UNCHANGED <<rebootQueue, restarter>> /\ listener' \in {listener, "created"}
    BY <1>1 DEF CreateIpcListener
  <2>2. CASE ipcQueue' = ipcQueue
    BY <2>1, <2>2 DEF RequestOnce, Unanswered
  <2>3. CASE ipcQueue' = <<>>
    <3>1. DOMAIN ipcQueue' = {}
      BY <2>3, NothingInNoQueue
    <3>. QED
      BY <2>1, <3>1 DEF RequestOnce, Unanswered
  <2>. QED
    BY <1>1, <2>2, <2>3 DEF CreateIpcListener
<1>2. ASSUME CreateServerThread PROVE RequestOnce'
  BY <1>2, <1>0 DEF RequestOnce, Unanswered, TypeScalars, CreateServerThread
<1>3. ASSUME WaitForThreads PROVE RequestOnce'
  BY <1>3, <1>0 DEF RequestOnce, Unanswered, TypeScalars, WaitForThreads
<1>4. ASSUME GetPreviousTestData PROVE RequestOnce'
  BY <1>4, <1>0 DEF RequestOnce, Unanswered, TypeScalars, GetPreviousTestData, CanLock, Lock,
         Crash, Testing
<1>5. ASSUME DatabaseDisconnect PROVE RequestOnce'
  BY <1>5, <1>0 DEF RequestOnce, Unanswered, TypeScalars, DatabaseDisconnect
<1>6. ASSUME BreakIPCListener PROVE RequestOnce'
  <2>1. CASE ipcQueue' = ipcQueue
    BY <1>6, <2>1 DEF RequestOnce, Unanswered, TypeScalars, BreakIPCListener
  <2>2. CASE ipcQueue' = NoQueue
    BY <1>6, <2>2, <1>0, NothingInNoQueue DEF RequestOnce, Unanswered, TypeScalars,
           BreakIPCListener
  <2>3. CASE Longer("release")
    BY <1>6, <2>3, <1>0 DEF RequestOnce, Unanswered, TypeScalars, BreakIPCListener, Longer
  <2>. QED
    BY <1>6, <1>0, SendAppends, <2>1, <2>2, <2>3 DEF BreakIPCListener
<1>7. ASSUME ClearSlots PROVE RequestOnce'
  BY <1>7, <1>0 DEF RequestOnce, Unanswered, TypeScalars, ClearSlots
<1>8. ASSUME SignalRow PROVE RequestOnce'
  BY <1>8, <1>0 DEF RequestOnce, Unanswered, TypeScalars, SignalRow, Crash
<1>9. ASSUME PollStatus PROVE RequestOnce'
  BY <1>9, <1>0 DEF RequestOnce, Unanswered, TypeScalars, PollStatus, CanLock, Lock, Crash
<1>10. ASSUME Destroy PROVE RequestOnce'
  BY <1>10, <1>0 DEF RequestOnce, Unanswered, TypeScalars, Destroy, CanLock, Crash
<1>11. ASSUME Exit PROVE RequestOnce'
  BY <1>11, <1>0 DEF RequestOnce, Unanswered, TypeScalars, Exit
<1>12. ASSUME ListenerStarts PROVE RequestOnce'
  BY <1>12, <1>0 DEF RequestOnce, Unanswered, TypeScalars, ListenerStarts, Alive
<1>13. ASSUME ListenerReads PROVE RequestOnce'
  BY <1>13, <1>0, HeadTypes DEF RequestOnce, Unanswered, TypeScalars, ListenerReads, Alive
<1>14. ASSUME ListenerStores PROVE RequestOnce'
  <2>1. rebootQueue \in {-1, 0, 1}
    BY <1>0 DEF RequestOnce, TypeCounts
  <2>. QED
    BY <1>14, <1>0, <2>1, Storing DEF RequestOnce, Unanswered, TypeScalars
<1>15. ASSUME ListenerKeeps PROVE RequestOnce'
  BY <1>15, <1>0 DEF RequestOnce, Unanswered, TypeScalars, ListenerKeeps, Alive, CanLock, Lock,
         Crash
<1>16. ASSUME InitializeServerThreads PROVE RequestOnce'
  BY <1>16, <1>0 DEF RequestOnce, Unanswered, TypeScalars, InitializeServerThreads, Alive
<1>17. ASSUME InitializeThreadDescriptors PROVE RequestOnce'
  BY <1>17, <1>0 DEF RequestOnce, Unanswered, TypeScalars, InitializeThreadDescriptors, Alive,
         CanLock, Crash
<1>18. ASSUME OpenSockets PROVE RequestOnce'
  BY <1>18, <1>0 DEF RequestOnce, Unanswered, TypeScalars, OpenSockets, Alive
<1>19. ASSUME Spawned PROVE RequestOnce'
  BY <1>19, <1>0 DEF RequestOnce, Unanswered, TypeScalars, Spawned, Alive
<1>20. ASSUME NotifyThread PROVE RequestOnce'
  BY <1>20, <1>0 DEF RequestOnce, Unanswered, TypeScalars, NotifyThread, Alive, Crash
<1>21. ASSUME Connect PROVE RequestOnce'
  BY <1>21, <1>0 DEF RequestOnce, Unanswered, TypeScalars, Connect, Alive, ServerActs
<1>22. ASSUME PushThreadCommand PROVE RequestOnce'
  BY <1>22, <1>0 DEF RequestOnce, Unanswered, TypeScalars, PushThreadCommand, Alive, CanLock,
         Crash, ServerActs
<1>23. ASSUME NEW s \in Slots, Disconnect(s) PROVE RequestOnce'
  BY <1>23, <1>0 DEF RequestOnce, Unanswered, TypeScalars, Disconnect, Alive, ServerActs
<1>24. ASSUME NEW h \in Handlers, HandlerStarts(h) PROVE RequestOnce'
  BY <1>24, <1>0 DEF RequestOnce, Unanswered, TypeScalars, HandlerStarts, Move, Alive
<1>25. ASSUME NEW h \in Handlers, HandlerChecks(h) PROVE RequestOnce'
  BY <1>25, <1>0 DEF RequestOnce, Unanswered, TypeScalars, HandlerChecks, Move, Alive
<1>26. ASSUME NEW h \in Handlers, HandlerWaits(h) PROVE RequestOnce'
  BY <1>26, <1>0 DEF RequestOnce, Unanswered, TypeScalars, HandlerWaits, Move, Alive, Crash
<1>27. ASSUME NEW h \in Handlers, HandlerServes(h) PROVE RequestOnce'
  BY <1>27, <1>0 DEF RequestOnce, Unanswered, TypeScalars, HandlerServes, Move, Alive
<1>28. ASSUME NEW h \in Handlers, HandlerPeeks(h) PROVE RequestOnce'
  BY <1>28, <1>0 DEF RequestOnce, Unanswered, TypeScalars, HandlerPeeks, Move, Alive, CanLock,
         Crash
<1>29. ASSUME NEW h \in Handlers, HandlerLeaves(h) PROVE RequestOnce'
  BY <1>29, <1>0 DEF RequestOnce, Unanswered, TypeScalars, HandlerLeaves, Move, Alive, CanLock,
         Crash
<1>30. ASSUME NEW k \in Signals, HandleSignal(k) PROVE RequestOnce'
  BY <1>30, <1>0 DEF RequestOnce, Unanswered, TypeScalars, HandleSignal, Alive
<1>31. ASSUME ProgramSends PROVE RequestOnce'
  <2>1. ipcQueue' = ipcQueue \/ Longer("output")
    BY <1>31, <1>0, SendAppends DEF ProgramSends
  <2>. QED
    BY <1>31, <1>0, <2>1, SMTT(30) DEF RequestOnce, Unanswered, TypeScalars, ProgramSends,
           Longer
<1>32. ASSUME PowerDown PROVE RequestOnce'
  <2>1. CASE restarter = "idle"
    BY <1>32, <2>1, <1>0 DEF RequestOnce, Unanswered, TypeScalars, TypeCounts, PowerDown
  <2>2. CASE restarter = "request" /\ ipcQueue' = ipcQueue
    BY <1>32, <2>2, <1>0 DEF RequestOnce, Unanswered, TypeScalars, TypeCounts, PowerDown
  <2>3. CASE restarter = "request" /\ Longer("restart")
    BY <1>32, <2>3, <1>0, SMTT(30) DEF RequestOnce, Unanswered, TypeScalars, TypeCounts,
           PowerDown, Longer
  <2>4. CASE restarter = "waiting"
    BY <1>32, <2>4, <1>0 DEF RequestOnce, Unanswered, TypeScalars, TypeCounts, PowerDown
  <2>. QED
    BY <1>32, <1>0, SendAppends, <2>1, <2>2, <2>3, <2>4 DEF PowerDown
<1>33. CASE UNCHANGED vars
  BY <1>33 DEF RequestOnce, Unanswered, TypeScalars, vars
<1>. QED
  BY <1>1, <1>2, <1>3, <1>4, <1>5, <1>6, <1>7, <1>8, <1>9, <1>10, <1>11, <1>12, <1>13, <1>14,
         <1>15, <1>16, <1>17, <1>18, <1>19, <1>20, <1>21, <1>22, <1>23, <1>24, <1>25, <1>26,
         <1>27, <1>28, <1>29, <1>30, <1>31, <1>32, <1>33 DEF Next, Start, ShutDown, Listener,
         ServerGoesOn, Handler

\* Where the output accepted before the request is.
LEMMA AskedKept ==
  ASSUME TypeOK, Places, RequestOnce, AskedAhead, [Next]_vars
  PROVE  AskedAhead'
<1>. USE DEF mainVars, ipcVars, rowVars, lockVars, powerVars
<1>. USE Bounds
<1>0. TypeScalars /\ TypeRow /\ TypeQueue /\ TypeCounts
  BY TypeParts
<1>T. tally.accepted \in Nat /\ tally.kept \in Nat /\ tally.stored \in Nat /\ tally.asked \in Nat
  BY <1>0 DEF TypeCounts
<1>1. ASSUME CreateIpcListener PROVE AskedAhead'
  <2>1. CASE ipcQueue' = ipcQueue
    BY <1>1, <2>1, <1>0, <1>T, NothingInNoQueue DEF AskedAhead, SafeMeansStored, InHand,
           Listens, CreateIpcListener, Places
  <2>2. CASE ipcQueue = NoQueue /\ ipcQueue' = <<>>
    <3>1. DOMAIN ipcQueue' = {} /\ Len(ipcQueue') = 0 /\ ipcQueue' # NoQueue
      BY <2>2, NothingInNoQueue
    <3>2. tally.accepted = 0 /\ UNCHANGED <<tally, rebootQueue, restarter>>
      BY <1>1, <2>2 DEF AskedAhead, CreateIpcListener
    <3>3. listener' \in {"off", "created"} /\ InHand' = 0
      BY <1>1 DEF CreateIpcListener, Places, InHand
    <3>. QED
      BY <3>1, <3>2, <3>3, <1>T DEF AskedAhead, SafeMeansStored
  <2>. QED
    BY <1>1, <2>1, <2>2 DEF CreateIpcListener
<1>2. ASSUME CreateServerThread PROVE AskedAhead'
  BY <1>2, <1>0, <1>T DEF AskedAhead, SafeMeansStored, InHand, Listens, CreateServerThread
<1>3. ASSUME WaitForThreads PROVE AskedAhead'
  BY <1>3, <1>0, <1>T DEF AskedAhead, SafeMeansStored, InHand, Listens, WaitForThreads
<1>4. ASSUME GetPreviousTestData PROVE AskedAhead'
  BY <1>4, <1>0, <1>T DEF AskedAhead, SafeMeansStored, InHand, Listens, GetPreviousTestData,
         CanLock, Lock, Crash, Testing
<1>5. ASSUME DatabaseDisconnect PROVE AskedAhead'
  BY <1>5, <1>0, <1>T DEF AskedAhead, SafeMeansStored, InHand, Listens, DatabaseDisconnect
<1>6. ASSUME BreakIPCListener PROVE AskedAhead'
  <2>1. CASE ipcQueue' = ipcQueue
    BY <1>6, <2>1, <1>T DEF AskedAhead, SafeMeansStored, InHand, Listens, Places,
           BreakIPCListener
  <2>2. CASE ipcQueue' = NoQueue
    BY <1>6, <2>2, <1>0, NothingInNoQueue, <1>T DEF AskedAhead, SafeMeansStored, InHand,
           Listens, Places, BreakIPCListener
  <2>3. CASE Longer("release")
    BY <1>6, <2>3, <1>0, <1>T, SMTT(30) DEF AskedAhead, SafeMeansStored, InHand, Listens,
           Places, BreakIPCListener, Longer
  <2>. QED
    BY <1>6, <1>0, SendAppends, <2>1, <2>2, <2>3 DEF BreakIPCListener
<1>7. ASSUME ClearSlots PROVE AskedAhead'
  BY <1>7, <1>0, <1>T DEF AskedAhead, SafeMeansStored, InHand, Listens, ClearSlots
<1>8. ASSUME SignalRow PROVE AskedAhead'
  BY <1>8, <1>0, <1>T DEF AskedAhead, SafeMeansStored, InHand, Listens, SignalRow, Crash
<1>9. ASSUME PollStatus PROVE AskedAhead'
  BY <1>9, <1>0, <1>T DEF AskedAhead, SafeMeansStored, InHand, Listens, PollStatus, CanLock,
         Lock, Crash
<1>10. ASSUME Destroy PROVE AskedAhead'
  BY <1>10, <1>0, <1>T DEF AskedAhead, SafeMeansStored, InHand, Listens, Destroy, CanLock,
         Crash
<1>11. ASSUME Exit PROVE AskedAhead'
  BY <1>11, <1>0, <1>T DEF AskedAhead, SafeMeansStored, InHand, Listens, Exit
<1>12. ASSUME ListenerStarts PROVE AskedAhead'
  BY <1>12, <1>0, <1>T DEF AskedAhead, SafeMeansStored, InHand, Listens, ListenerStarts, Alive
<1>13. ASSUME ListenerReads PROVE AskedAhead'
  <2>1. CASE Head(ipcQueue) = "output"
    BY <1>13, <2>1, <1>0, <1>T, HeadTypes, SMTT(30) DEF AskedAhead, SafeMeansStored, InHand,
           Listens, ListenerReads, Places
  <2>2. CASE Head(ipcQueue) = "release"
    BY <1>13, <2>2, <1>0, <1>T, HeadTypes, SMTT(30) DEF AskedAhead, SafeMeansStored, InHand,
           Listens, ListenerReads, Places
  <2>3. CASE Head(ipcQueue) = "restart"
    <3>1. listener' = "restart" /\ listener = "read"
          /\ UNCHANGED <<main, tally, rebootQueue, restarter>>
      BY <1>13, <2>3 DEF ListenerReads
    <3>2. Unanswered /\ tally.asked <= tally.kept
      <4>1. 1 \in DOMAIN ipcQueue /\ ipcQueue[1] = "restart"
        BY <1>13, <2>3, HeadTypes, <1>0 DEF ListenerReads
      <4>2. Listens /\ InHand = 0
        BY <3>1 DEF Listens, InHand
      <4>. QED
        BY <4>1, <4>2, <1>T DEF AskedAhead, Unanswered
    <3>3. \A k \in DOMAIN ipcQueue' : ipcQueue'[k] # "restart"
      BY <1>13, <2>3, HeadTypes, <1>0 DEF ListenerReads, RequestOnce
    <3>4. restarter \notin {"idle", "request"} /\ rebootQueue # 1 /\ main # "ipc"
      BY <3>1, <3>2, <1>0 DEF RequestOnce, Places, TypeScalars
    <3>. QED
      BY <3>1, <3>2, <3>3, <3>4 DEF AskedAhead, SafeMeansStored
  <2>. QED
    BY <1>13, <1>0, HeadTypes, <2>1, <2>2, <2>3 DEF ListenerReads
<1>14. ASSUME ListenerStores PROVE AskedAhead'
  <2>1. CASE listener = "restart"
    <3>1. /\ tally'.stored \in 0..tally.kept /\ tally'.accepted = tally.accepted
          /\ tally'.kept = tally.kept /\ tally'.asked = tally.asked
          /\ tally'.failed \/ tally'.stored = tally.kept
      BY <1>14, <1>0, <2>1, Storing
    <3>. QED
      BY <1>14, <2>1, <3>1, <1>0, <1>T, Storing DEF AskedAhead, SafeMeansStored, InHand,
             Listens, RequestOnce, Unanswered
  <2>2. CASE listener = "reply"
    BY <1>14, <2>2, <1>0, <1>T DEF AskedAhead, SafeMeansStored, InHand, Listens,
           ListenerStores, RequestOnce, Unanswered
  <2>. QED
    BY <1>14, <2>1, <2>2 DEF ListenerStores
<1>15. ASSUME ListenerKeeps PROVE AskedAhead'
  <2>1. CASE listener = "output"
    BY <1>15, <2>1, <1>0, <1>T DEF AskedAhead, SafeMeansStored, InHand, Listens, ListenerKeeps,
           Places, Lock, Crash
  <2>2. CASE listener = "keeping"
    <3>1. /\ tally'.kept = tally.kept + 1 /\ tally'.accepted = tally.accepted
          /\ tally'.stored = tally.stored /\ tally'.asked = tally.asked
          /\ tally'.failed = tally.failed
      BY <1>15, <2>2, <1>0 DEF ListenerKeeps, TypeCounts
    <3>. QED
      BY <1>15, <2>2, <3>1, <1>0, <1>T DEF AskedAhead, SafeMeansStored, InHand, Listens,
             ListenerKeeps, Places
  <2>. QED
    BY <1>15, <2>1, <2>2 DEF ListenerKeeps
<1>16. ASSUME InitializeServerThreads PROVE AskedAhead'
  BY <1>16, <1>0, <1>T DEF AskedAhead, SafeMeansStored, InHand, Listens,
         InitializeServerThreads, Alive
<1>17. ASSUME InitializeThreadDescriptors PROVE AskedAhead'
  BY <1>17, <1>0, <1>T DEF AskedAhead, SafeMeansStored, InHand, Listens,
         InitializeThreadDescriptors, Alive, CanLock, Crash
<1>18. ASSUME OpenSockets PROVE AskedAhead'
  BY <1>18, <1>0, <1>T DEF AskedAhead, SafeMeansStored, InHand, Listens, OpenSockets, Alive
<1>19. ASSUME Spawned PROVE AskedAhead'
  BY <1>19, <1>0, <1>T DEF AskedAhead, SafeMeansStored, InHand, Listens, Spawned, Alive
<1>20. ASSUME NotifyThread PROVE AskedAhead'
  BY <1>20, <1>0, <1>T DEF AskedAhead, SafeMeansStored, InHand, Listens, NotifyThread, Alive,
         Crash
<1>21. ASSUME Connect PROVE AskedAhead'
  BY <1>21, <1>0, <1>T DEF AskedAhead, SafeMeansStored, InHand, Listens, Connect, Alive,
         ServerActs
<1>22. ASSUME PushThreadCommand PROVE AskedAhead'
  BY <1>22, <1>0, <1>T DEF AskedAhead, SafeMeansStored, InHand, Listens, PushThreadCommand,
         Alive, CanLock, Crash, ServerActs
<1>23. ASSUME NEW s \in Slots, Disconnect(s) PROVE AskedAhead'
  BY <1>23, <1>0, <1>T DEF AskedAhead, SafeMeansStored, InHand, Listens, Disconnect, Alive,
         ServerActs
<1>24. ASSUME NEW h \in Handlers, HandlerStarts(h) PROVE AskedAhead'
  BY <1>24, <1>0, <1>T DEF AskedAhead, SafeMeansStored, InHand, Listens, HandlerStarts, Move,
         Alive
<1>25. ASSUME NEW h \in Handlers, HandlerChecks(h) PROVE AskedAhead'
  BY <1>25, <1>0, <1>T DEF AskedAhead, SafeMeansStored, InHand, Listens, HandlerChecks, Move,
         Alive
<1>26. ASSUME NEW h \in Handlers, HandlerWaits(h) PROVE AskedAhead'
  BY <1>26, <1>0, <1>T DEF AskedAhead, SafeMeansStored, InHand, Listens, HandlerWaits, Move,
         Alive, Crash
<1>27. ASSUME NEW h \in Handlers, HandlerServes(h) PROVE AskedAhead'
  BY <1>27, <1>0, <1>T DEF AskedAhead, SafeMeansStored, InHand, Listens, HandlerServes, Move,
         Alive
<1>28. ASSUME NEW h \in Handlers, HandlerPeeks(h) PROVE AskedAhead'
  BY <1>28, <1>0, <1>T DEF AskedAhead, SafeMeansStored, InHand, Listens, HandlerPeeks, Move,
         Alive, CanLock, Crash
<1>29. ASSUME NEW h \in Handlers, HandlerLeaves(h) PROVE AskedAhead'
  BY <1>29, <1>0, <1>T DEF AskedAhead, SafeMeansStored, InHand, Listens, HandlerLeaves, Move,
         Alive, CanLock, Crash
<1>30. ASSUME NEW k \in Signals, HandleSignal(k) PROVE AskedAhead'
  BY <1>30, <1>0, <1>T DEF AskedAhead, SafeMeansStored, InHand, Listens, HandleSignal, Alive
<1>31. ASSUME ProgramSends PROVE AskedAhead'
  <2>1. /\ tally'.accepted = tally.accepted + 1 /\ tally'.kept = tally.kept
        /\ tally'.stored = tally.stored /\ tally'.asked = tally.asked
        /\ tally'.failed = tally.failed
    BY <1>31, <1>0 DEF ProgramSends, TypeCounts
  <2>2. Longer("output")
    BY <1>31, <1>0, SendAppends DEF ProgramSends
  <2>. QED
    <3>1. UNCHANGED <<main, listener, restarter, rebootQueue>> /\ InHand' = InHand
          /\ (Listens' <=> Listens) /\ ipcQueue' # NoQueue /\ ipcQueue # NoQueue
      BY <1>31, <2>2, LongerIsAQueue DEF ProgramSends, InHand, Listens, Longer
    <3>2. InHand \in Nat
      BY DEF InHand
    <3>3. restarter \in {"idle", "request"} /\ Listens =>
            tally'.accepted <= tally.kept + InHand + Len(ipcQueue')
      BY <2>1, <2>2, <3>1, <3>2, <1>T DEF AskedAhead, Longer
    <3>4. ASSUME NEW k \in DOMAIN ipcQueue', ipcQueue'[k] = "restart"
          PROVE  k \in DOMAIN ipcQueue /\ ipcQueue[k] = "restart"
      BY <2>2, <3>4 DEF Longer
    <3>. QED
      BY <2>1, <3>1, <3>3, <3>4 DEF AskedAhead, SafeMeansStored
<1>32. ASSUME PowerDown PROVE AskedAhead'
  <2>1. CASE restarter = "idle"
    BY <1>32, <2>1, <1>0, <1>T DEF AskedAhead, SafeMeansStored, InHand, Listens, PowerDown
  <2>2. CASE restarter = "request"
    <3>1. /\ tally'.asked = tally.accepted /\ tally'.accepted = tally.accepted
          /\ tally'.kept = tally.kept /\ tally'.stored = tally.stored
          /\ tally'.failed = tally.failed
      BY <1>32, <2>2, <1>0 DEF PowerDown, TypeCounts
    <3>2. ~Unanswered /\ rebootQueue <= 0
      BY <2>2 DEF RequestOnce
    <3>3. CASE ipcQueue' = ipcQueue
      BY <1>32, <2>2, <3>1, <3>2, <3>3, <1>0, <1>T DEF AskedAhead, SafeMeansStored, InHand,
             Listens, PowerDown, Unanswered
    <3>4. CASE Longer("restart")
      <4>1. UNCHANGED <<main, listener, rebootQueue>> /\ InHand' = InHand /\ (Listens' <=> Listens)
            /\ ipcQueue # NoQueue /\ ipcQueue' # NoQueue /\ restarter' = "waiting"
        BY <1>32, <2>2, <3>4, LongerIsAQueue DEF PowerDown, InHand, Listens, Longer
      <4>2. InHand \in Nat
        BY DEF InHand
      <4>3. Listens => tally.accepted <= tally.kept + InHand + Len(ipcQueue)
        BY <2>2, <4>1 DEF AskedAhead
      <4>4. ASSUME NEW k \in DOMAIN ipcQueue', ipcQueue'[k] = "restart" PROVE k = Len(ipcQueue) + 1
        BY <3>2, <3>4, <4>4 DEF Unanswered, Longer
      <4>5. ASSUME NEW k \in DOMAIN ipcQueue', ipcQueue'[k] = "restart", Listens
            PROVE  tally.accepted <= tally.kept + InHand + (k - 1)
        BY <3>4, <4>2, <4>3, <4>4, <4>5, <1>T DEF Longer
      <4>. QED
        BY <3>1, <3>2, <4>1, <4>5, <1>T DEF AskedAhead, SafeMeansStored, Unanswered
    <3>. QED
      BY <1>32, <2>2, <1>0, SendAppends, <3>3, <3>4 DEF PowerDown
  <2>3. CASE restarter = "waiting"
    BY <1>32, <2>3, <1>0, <1>T DEF AskedAhead, SafeMeansStored, InHand, Listens, PowerDown,
           RequestOnce, TypeCounts
  <2>. QED
    BY <1>32, <2>1, <2>2, <2>3 DEF PowerDown
<1>33. CASE UNCHANGED vars
  BY <1>33 DEF AskedAhead, SafeMeansStored, InHand, Listens, vars
<1>. QED
  BY <1>1, <1>2, <1>3, <1>4, <1>5, <1>6, <1>7, <1>8, <1>9, <1>10, <1>11, <1>12, <1>13, <1>14,
         <1>15, <1>16, <1>17, <1>18, <1>19, <1>20, <1>21, <1>22, <1>23, <1>24, <1>25, <1>26,
         <1>27, <1>28, <1>29, <1>30, <1>31, <1>32, <1>33 DEF Next, Start, ShutDown, Listener,
         ServerGoesOn, Handler

\* An orderly shutdown stays orderly.
LEMMA CalmKept ==
  ASSUME TypeOK, Places, CalmIInv, [Next]_vars
  PROVE  CalmIInv'
<1>. USE DEF mainVars, ipcVars, rowVars, lockVars, powerVars
<1>0. TypeScalars /\ TypeFlags /\ TypeRow /\ TypeQueue
  BY TypeParts
<1>1. ASSUME CreateIpcListener PROVE CalmIInv'
  <2>1. SameUsers
    BY <1>1, <1>0 DEF SameUsers, CreateIpcListener, TypeRow
  <2>. QED
    BY <1>1, <1>0, <2>1, UsersSame DEF CalmIInv, OrderlyDown, LocksMade, Down, ShuttingDown,
           TypeScalars, TypeFlags, Places, Testing, CreateIpcListener
<1>2. ASSUME CreateServerThread PROVE CalmIInv'
  <2>1. SameUsers
    BY <1>2, <1>0 DEF SameUsers, CreateServerThread, TypeRow
  <2>. QED
    BY <1>2, <1>0, <2>1, UsersSame DEF CalmIInv, OrderlyDown, LocksMade, Down, ShuttingDown,
           TypeScalars, TypeFlags, Places, Testing, CreateServerThread
<1>3. ASSUME WaitForThreads PROVE CalmIInv'
  <2>1. SameUsers
    BY <1>3, <1>0 DEF SameUsers, WaitForThreads, TypeRow
  <2>. QED
    BY <1>3, <1>0, <2>1, UsersSame DEF CalmIInv, OrderlyDown, LocksMade, Down, ShuttingDown,
           TypeScalars, TypeFlags, Places, Testing, WaitForThreads
<1>4. ASSUME GetPreviousTestData PROVE CalmIInv'
  <2>1. SameUsers
    BY <1>4, <1>0 DEF SameUsers, GetPreviousTestData, CanLock, Lock, Crash, Testing, TypeRow
  <2>. QED
    BY <1>4, <1>0, <2>1, UsersSame DEF CalmIInv, OrderlyDown, LocksMade, Down, ShuttingDown,
           TypeScalars, TypeFlags, Places, Testing, GetPreviousTestData, CanLock, Lock, Crash,
           Testing
<1>5. ASSUME DatabaseDisconnect PROVE CalmIInv'
  <2>1. SameUsers
    BY <1>5, <1>0 DEF SameUsers, DatabaseDisconnect, TypeRow
  <2>. QED
    BY <1>5, <1>0, <2>1, UsersSame DEF CalmIInv, OrderlyDown, LocksMade, Down, ShuttingDown,
           TypeScalars, TypeFlags, Places, Testing, DatabaseDisconnect
<1>6. ASSUME BreakIPCListener PROVE CalmIInv'
  <2>1. SameUsers
    BY <1>6, <1>0 DEF SameUsers, BreakIPCListener, Send, Fits, TypeRow
  <2>. QED
    BY <1>6, <1>0, <2>1, UsersSame DEF CalmIInv, OrderlyDown, LocksMade, Down, ShuttingDown,
           TypeScalars, TypeFlags, Places, Testing, BreakIPCListener, Send, Fits
<1>7. ASSUME ClearSlots PROVE CalmIInv'
  <2>1. SameUsers
    BY <1>7, <1>0 DEF SameUsers, ClearSlots, TypeRow
  <2>. QED
    BY <1>7, <1>0, <2>1, UsersSame DEF CalmIInv, OrderlyDown, LocksMade, Down, ShuttingDown,
           TypeScalars, TypeFlags, Places, Testing, ClearSlots
<1>8. ASSUME SignalRow PROVE CalmIInv'
  <2>1. SameUsers
    BY <1>8, <1>0, WakeOff DEF SameUsers, SignalRow, Crash, TypeRow
  <2>. QED
    BY <1>8, <1>0, <2>1, UsersSame DEF CalmIInv, OrderlyDown, LocksMade, Down, ShuttingDown,
           TypeScalars, TypeFlags, Places, Testing, SignalRow, Crash
<1>9. ASSUME PollStatus PROVE CalmIInv'
  <2>1. SameUsers
    BY <1>9, <1>0 DEF SameUsers, PollStatus, CanLock, Lock, Crash, TypeRow
  <2>2. AtMostOneUser /\ ~started => AllOff
    BY DEF AtMostOneUser
  <2>. QED
    BY <1>9, <1>0, <2>1, UsersSame, <2>2 DEF CalmIInv, OrderlyDown, LocksMade, Down,
           ShuttingDown,
           TypeScalars, TypeFlags, Places, Testing, PollStatus, CanLock, Lock, Crash
<1>10. ASSUME Destroy PROVE CalmIInv'
  <2>1. SameUsers
    BY <1>10, <1>0 DEF SameUsers, Destroy, CanLock, Crash, TypeRow
  <2>. QED
    BY <1>10, <1>0, <2>1, UsersSame DEF CalmIInv, OrderlyDown, LocksMade, Down, ShuttingDown,
           TypeScalars, TypeFlags, Places, Testing, Destroy, CanLock, Crash
<1>11. ASSUME Exit PROVE CalmIInv'
  <2>1. SameUsers
    BY <1>11, <1>0 DEF SameUsers, Exit, TypeRow
  <2>. QED
    BY <1>11, <1>0, <2>1, UsersSame DEF CalmIInv, OrderlyDown, LocksMade, Down, ShuttingDown,
           TypeScalars, TypeFlags, Places, Testing, Exit
<1>12. ASSUME ListenerStarts PROVE CalmIInv'
  <2>1. SameUsers
    BY <1>12, <1>0 DEF SameUsers, ListenerStarts, Alive, TypeRow
  <2>. QED
    BY <1>12, <1>0, <2>1, UsersSame DEF CalmIInv, OrderlyDown, LocksMade, Down, ShuttingDown,
           TypeScalars, TypeFlags, Places, Testing, ListenerStarts, Alive
<1>13. ASSUME ListenerReads PROVE CalmIInv'
  <2>1. SameUsers
    BY <1>13, <1>0 DEF SameUsers, ListenerReads, Alive, TypeRow
  <2>. QED
    BY <1>13, <1>0, <2>1, UsersSame, HeadTypes DEF CalmIInv, OrderlyDown, LocksMade, Down,
           ShuttingDown,
           TypeScalars, TypeFlags, Places, Testing, ListenerReads, Alive
<1>14. ASSUME ListenerStores PROVE CalmIInv'
  <2>1. SameUsers
    BY <1>14, <1>0 DEF SameUsers, ListenerStores, Alive, TypeRow
  <2>. QED
    BY <1>14, <1>0, <2>1, UsersSame DEF CalmIInv, OrderlyDown, LocksMade, Down, ShuttingDown,
           TypeScalars, TypeFlags, Places, Testing, ListenerStores, Alive
<1>15. ASSUME ListenerKeeps PROVE CalmIInv'
  <2>1. SameUsers
    BY <1>15, <1>0 DEF SameUsers, ListenerKeeps, Alive, CanLock, Lock, Crash, TypeRow
  <2>. QED
    BY <1>15, <1>0, <2>1, UsersSame DEF CalmIInv, OrderlyDown, LocksMade, Down, ShuttingDown,
           TypeScalars, TypeFlags, Places, Testing, ListenerKeeps, Alive, CanLock, Lock, Crash
<1>16. ASSUME InitializeServerThreads PROVE CalmIInv'
  BY <1>16, <1>0 DEF CalmIInv, OrderlyDown, LocksMade, Down, ShuttingDown, TypeScalars,
         TypeFlags, Places, Testing, InitializeServerThreads, Alive
<1>17. ASSUME InitializeThreadDescriptors PROVE CalmIInv'
  BY <1>17, <1>0 DEF CalmIInv, OrderlyDown, LocksMade, Down, ShuttingDown, TypeScalars,
         TypeFlags, Places, Testing, InitializeThreadDescriptors, Alive, CanLock, Crash
<1>18. ASSUME OpenSockets PROVE CalmIInv'
  <2>1. SameUsers
    BY <1>18, <1>0 DEF SameUsers, OpenSockets, Alive, TypeRow
  <2>. QED
    BY <1>18, <1>0, <2>1, UsersSame DEF CalmIInv, OrderlyDown, LocksMade, Down, ShuttingDown,
           TypeScalars, TypeFlags, Places, Testing, OpenSockets, Alive
<1>19. ASSUME Spawned PROVE CalmIInv'
  <2>1. SameUsers
    BY <1>19, <1>0 DEF SameUsers, Spawned, Alive, TypeRow
  <2>. QED
    BY <1>19, <1>0, <2>1, UsersSame DEF CalmIInv, OrderlyDown, LocksMade, Down, ShuttingDown,
           TypeScalars, TypeFlags, Places, Testing, Spawned, Alive
<1>20. ASSUME NotifyThread PROVE CalmIInv'
  <2>1. SameUsers
    BY <1>20, <1>0, WakeOff DEF SameUsers, NotifyThread, Alive, Crash, TypeRow
  <2>. QED
    BY <1>20, <1>0, <2>1, UsersSame DEF CalmIInv, OrderlyDown, LocksMade, Down, ShuttingDown,
           TypeScalars, TypeFlags, Places, Testing, NotifyThread, Alive, Crash
<1>21. ASSUME Connect PROVE CalmIInv'
  BY <1>21, <1>0 DEF CalmIInv, OrderlyDown, LocksMade, Down, ShuttingDown, TypeScalars,
         TypeFlags, Places, Testing, Connect, Alive, ServerActs
<1>22. ASSUME PushThreadCommand PROVE CalmIInv'
  <2>1. SameUsers
    BY <1>22, <1>0 DEF SameUsers, PushThreadCommand, Alive, CanLock, Crash, ServerActs, TypeRow
  <2>. QED
    BY <1>22, <1>0, <2>1, UsersSame DEF CalmIInv, OrderlyDown, LocksMade, Down, ShuttingDown,
           TypeScalars, TypeFlags, Places, Testing, PushThreadCommand, Alive, CanLock, Crash,
           ServerActs
<1>23. ASSUME NEW s \in Slots, Disconnect(s) PROVE CalmIInv'
  <2>1. SameUsers
    BY <1>23, <1>0 DEF SameUsers, Disconnect, Alive, ServerActs, TypeRow
  <2>. QED
    BY <1>23, <1>0, <2>1, UsersSame DEF CalmIInv, OrderlyDown, LocksMade, Down, ShuttingDown,
           TypeScalars, TypeFlags, Places, Testing, Disconnect, Alive, ServerActs
<1>24. ASSUME NEW h \in Handlers, HandlerStarts(h) PROVE CalmIInv'
  <2>1. AtMostOneUser => SameUsers
    BY <1>24, <1>0 DEF AtMostOneUser, AllOff, HandlerStarts, Move, SameUsers, TypeRow, TypeFlags
  <2>. QED
    BY <1>24, <1>0, <2>1, UsersSame DEF CalmIInv, OrderlyDown, LocksMade, Down, ShuttingDown,
           TypeScalars, TypeFlags, Places, Testing, HandlerStarts, Move, Alive
<1>25. ASSUME NEW h \in Handlers, HandlerChecks(h) PROVE CalmIInv'
  <2>1. SameUsers
    BY <1>25, <1>0 DEF SameUsers, HandlerChecks, Move, Alive, TypeRow
  <2>. QED
    BY <1>25, <1>0, <2>1, UsersSame DEF CalmIInv, OrderlyDown, LocksMade, Down, ShuttingDown,
           TypeScalars, TypeFlags, Places, Testing, HandlerChecks, Move, Alive
<1>26. ASSUME NEW h \in Handlers, HandlerWaits(h) PROVE CalmIInv'
  <2>1. SameUsers
    BY <1>26, <1>0 DEF SameUsers, HandlerWaits, Move, Alive, Crash, TypeRow
  <2>2. ~AllOff
    BY <1>26 DEF AllOff, HandlerWaits
  <2>. QED
    BY <1>26, <1>0, <2>1, UsersSame, <2>2 DEF CalmIInv, OrderlyDown, LocksMade, Down,
           ShuttingDown,
           TypeScalars, TypeFlags, Places, Testing, HandlerWaits, Move, Alive, Crash
<1>27. ASSUME NEW h \in Handlers, HandlerServes(h) PROVE CalmIInv'
  <2>1. SameUsers
    BY <1>27, <1>0 DEF SameUsers, HandlerServes, Move, Alive, TypeRow
  <2>. QED
    BY <1>27, <1>0, <2>1, UsersSame DEF CalmIInv, OrderlyDown, LocksMade, Down, ShuttingDown,
           TypeScalars, TypeFlags, Places, Testing, HandlerServes, Move, Alive
<1>28. ASSUME NEW h \in Handlers, HandlerPeeks(h) PROVE CalmIInv'
  <2>1. SameUsers
    BY <1>28, <1>0 DEF SameUsers, HandlerPeeks, Move, Alive, CanLock, Crash, TypeRow
  <2>2. ~AllOff
    BY <1>28 DEF AllOff, HandlerPeeks
  <2>. QED
    BY <1>28, <1>0, <2>1, UsersSame, <2>2 DEF CalmIInv, OrderlyDown, LocksMade, Down,
           ShuttingDown,
           TypeScalars, TypeFlags, Places, Testing, HandlerPeeks, Move, Alive, CanLock, Crash
<1>29. ASSUME NEW h \in Handlers, HandlerLeaves(h) PROVE CalmIInv'
  <2>1. ~AllOff
    BY <1>29 DEF AllOff, HandlerLeaves
  <2>2. AtMostOneUser /\ started' = FALSE /\ pc' = [pc EXCEPT ![h] = "off"]
          => AtMostOneUser' /\ AllOff'
    BY <1>29, <1>0 DEF AtMostOneUser, AllOff, TypeRow, HandlerLeaves
  <2>4. CASE UNCHANGED <<pc, started>>
    <3>1. SameUsers
      BY <2>4 DEF SameUsers
    <3>. QED
      BY <1>29, <1>0, <2>1, <2>4, <3>1, UsersSame DEF CalmIInv, OrderlyDown, LocksMade, Down,
             ShuttingDown, TypeScalars, TypeFlags, Places, Testing, HandlerLeaves, Move, Crash,
             CanLock, Alive
  <2>5. CASE pc' = [pc EXCEPT ![h] = "off"] /\ started' = FALSE
    BY <1>29, <1>0, <2>1, <2>2, <2>5 DEF CalmIInv, OrderlyDown, LocksMade, Down, ShuttingDown,
           TypeScalars, TypeFlags, Places, Testing, HandlerLeaves, Move, Crash, CanLock, Alive
  <2>. QED
    BY <1>29, <2>4, <2>5 DEF HandlerLeaves, Move
<1>30. ASSUME NEW k \in Signals, HandleSignal(k) PROVE CalmIInv'
  <2>1. SameUsers
    BY <1>30 DEF SameUsers, HandleSignal
  <2>2. calm' => AtMostOneUser'
    BY <1>30, <1>0, <2>1, UsersSame, UsersCounted DEF HandleSignal
  <2>. QED
    BY <1>30, <1>0, <2>2 DEF CalmIInv, OrderlyDown, LocksMade, Down, ShuttingDown, TypeScalars,
           TypeFlags, Places, Testing, HandleSignal, Alive
<1>31. ASSUME ProgramSends PROVE CalmIInv'
  <2>1. SameUsers
    BY <1>31, <1>0 DEF SameUsers, ProgramSends, Send, Fits, TypeRow
  <2>. QED
    BY <1>31, <1>0, <2>1, UsersSame DEF CalmIInv, OrderlyDown, LocksMade, Down, ShuttingDown,
           TypeScalars, TypeFlags, Places, Testing, ProgramSends, Send, Fits
<1>32. ASSUME PowerDown PROVE CalmIInv'
  <2>1. SameUsers
    BY <1>32, <1>0 DEF SameUsers, PowerDown, Send, Fits, TypeRow
  <2>. QED
    BY <1>32, <1>0, <2>1, UsersSame DEF CalmIInv, OrderlyDown, LocksMade, Down, ShuttingDown,
           TypeScalars, TypeFlags, Places, Testing, PowerDown, Send, Fits
<1>33. CASE UNCHANGED vars
  <2>1. SameUsers
    BY <1>33 DEF vars, SameUsers
  <2>. QED
    BY <1>33, <2>1, UsersSame DEF vars, CalmIInv, OrderlyDown, LocksMade
<1>. QED
  BY <1>1, <1>2, <1>3, <1>4, <1>5, <1>6, <1>7, <1>8, <1>9, <1>10, <1>11, <1>12, <1>13, <1>14,
         <1>15, <1>16, <1>17, <1>18, <1>19, <1>20, <1>21, <1>22, <1>23, <1>24, <1>25, <1>26,
         <1>27, <1>28, <1>29, <1>30, <1>31, <1>32, <1>33 DEF Next, Start, ShutDown, Listener,
         ServerGoesOn, Handler

-------------------------------------------------------------------------------
\* Packets of output left in a queue are no more than its packets.
LEMMA LeftOutput ==
  ASSUME NEW q \in LeftBehind
  PROVE  /\ q \in Seq({"output", "release", "restart"}) /\ Len(q) <= QueueSize
         /\ DOMAIN q = 1..Len(q) /\ \A k \in DOMAIN q : q[k] \in {"output", "release"}
         /\ Cardinality({k \in DOMAIN q : q[k] = "output"}) \in Nat
         /\ Cardinality({k \in DOMAIN q : q[k] = "output"}) <= Len(q)
<1>1. q \in Seq({"output", "release"}) /\ Len(q) <= QueueSize
  BY LifecycleAssumption
<1>2. Len(q) \in Nat /\ DOMAIN q = 1..Len(q) /\ \A k \in 1..Len(q) : q[k] \in {"output", "release"}
  BY <1>1
<1>3. q \in Seq({"output", "release", "restart"})
  BY <1>1, <1>2
<1>4. IsFiniteSet(1..Len(q)) /\ Cardinality(1..Len(q)) = Len(q)
  <2>1. IsFiniteSet(1..Len(q)) /\ Cardinality(1..Len(q)) = IF 1 > Len(q) THEN 0 ELSE Len(q) - 1 + 1
    BY <1>2, FS_Interval
  <2>. QED
    BY <1>2, <2>1
<1>5. {k \in DOMAIN q : q[k] = "output"} \subseteq 1..Len(q)
  BY <1>2
<1>6. IsFiniteSet({k \in DOMAIN q : q[k] = "output"})
      /\ Cardinality({k \in DOMAIN q : q[k] = "output"}) <= Len(q)
  BY <1>4, <1>5, FS_Subset
<1>. QED
  BY <1>1, <1>2, <1>3, <1>6, FS_CardinalityType

\* What main finds.
LEMMA LifeInit == Init => LifeIInv /\ CalmIInv
<1>. SUFFICES ASSUME Init PROVE LifeIInv /\ CalmIInv
  OBVIOUS
<1>0. TypeScalars /\ TypeFlags /\ TypeRow
  BY DEF Init, TypeScalars, TypeFlags, TypeRow, HandlerPlaces
<1>1. /\ TypeQueue /\ tally.accepted \in Nat
      /\ ipcQueue # NoQueue => tally.accepted <= Len(ipcQueue) /\ Len(ipcQueue) \in Nat
      /\ ipcQueue = NoQueue => tally.accepted = 0
      /\ \A k \in DOMAIN ipcQueue : ipcQueue[k] # "restart"
  <2>0. tally.accepted = Cardinality({k \in DOMAIN ipcQueue : ipcQueue[k] = "output"})
    BY DEF Init
  <2>1. CASE ipcQueue = NoQueue
    <3>1. {k \in DOMAIN ipcQueue : ipcQueue[k] = "output"} = {}
          /\ \A k \in DOMAIN ipcQueue : ipcQueue[k] # "restart"
      BY <2>1, NothingInNoQueue
    <3>2. Cardinality({k \in DOMAIN ipcQueue : ipcQueue[k] = "output"}) = 0
      BY <3>1, FS_EmptySet
    <3>. QED
      BY <2>0, <2>1, <3>1, <3>2 DEF TypeQueue
  <2>2. CASE ipcQueue \in LeftBehind
    <3>1. ipcQueue # NoQueue
      BY <2>2, NothingInNoQueue, LeftOutput
    <3>2. Len(ipcQueue) \in Nat
      BY <2>2, LeftOutput
    <3>. QED
      BY <2>0, <2>2, <3>1, <3>2, LeftOutput DEF TypeQueue
  <2>. QED
    BY <2>1, <2>2 DEF Init
<1>2. TypeCounts
  BY <1>1, Bounds DEF Init, TypeCounts
<1>3. Places /\ CommandsCounted
  BY Bounds DEF Init, Places, CommandsCounted, AllOff, LocksMade, Testing, ShuttingDown, Down
<1>4. RequestOnce
  BY <1>1 DEF Init, RequestOnce, Unanswered
<1>5. AskedAhead
  BY <1>1 DEF Init, AskedAhead, SafeMeansStored, InHand, Listens
<1>6. CalmIInv
  BY DEF Init, CalmIInv, Down, ShuttingDown
<1>. QED
  BY <1>0, <1>1, <1>2, <1>3, <1>4, <1>5, <1>6, TypeParts DEF LifeIInv

LEMMA LifeInvariant == Spec => [](LifeIInv /\ CalmIInv)
<1>1. LifeIInv /\ CalmIInv /\ [Next]_vars => (LifeIInv /\ CalmIInv)'
  <2>. SUFFICES ASSUME LifeIInv, CalmIInv, [Next]_vars PROVE LifeIInv' /\ CalmIInv'
    OBVIOUS
  <2>1. TypeOK'
    BY TypesKept DEF LifeIInv
  <2>. QED
    BY <2>1, PlacesKept, CommandsCountedKept, RequestKept, AskedKept, CalmKept DEF LifeIInv
<1>. QED
  BY LifeInit, <1>1, PTL DEF Spec

\* While main tests the board, the locks and the listener that it uses are there
\* (waitForThreadRunningStatus, TDThreadHandler.c:384-390).
THEOREM ThreadsReadyWhenTesting == Spec => []StartInv
<1>1. LifeIInv => StartInv
  BY DEF LifeIInv, StartInv, ReadyWhenTesting, Places, LocksMade, TypeOK, Testing,
         ShuttingDown, Down
<1>. QED
  BY LifeInvariant, <1>1, PTL

\* An orderly shutdown destroys only what no thread can come back to, and no thread dies of it
\* (destroyServerThreads, TDServerThreads.c:165-334).
THEOREM OrderlyShutdownSafe == Spec => []CalmShutdown
<1>1. LifeIInv /\ CalmIInv => CalmShutdown
  BY DEF LifeIInv, CalmIInv, OrderlyDown, CalmShutdown, CalmNeverCrashes, LocksOutliveUsers,
         AllOff,
         Places
<1>. QED
  BY LifeInvariant, <1>1, PTL

\* When powerDown tells the user that it is safe, the output accepted before its request is in
\* the database, unless an insert failed that nobody asked about
\* (OperatingSystemFunctions.c:41-110, TDThreadHandler.c:244-261, TDTestFunctions.c:659).
THEOREM SafeToRestart == Spec => []SafeMeansStored
<1>1. LifeIInv => SafeMeansStored
  BY DEF LifeIInv, AskedAhead
<1>. QED
  BY LifeInvariant, <1>1, PTL
===============================================================================
