---------------------------- MODULE TestFeed_proofs ----------------------------
(***************************************************************************)
(* Proofs about how the output of the tests reaches the clients, for every *)
(* number of connections, lines, requests and lost messages: counters skip *)
(* nothing, no index is outside of an array, what clients show is current, *)
(* threadHandler is not left locked, and no failure is taken back.         *)
(***************************************************************************)
EXTENDS TestFeed, SequenceTheorems, WellFoundedInduction, TLAPS

\* The parts of TypeOK: the arrays, the flags, the listener, the handler, its queue, and
\* what each connection was sent.
ArraysType ==
  /\ lines \in [Arrays -> Seq(Line)]
  /\ count \in [Arrays -> 0..MaxPrints] /\ \A a \in Arrays : count[a] <= Len(lines[a])
FlagsType ==
  /\ testType \in TestTypes /\ isBurnout \in BOOLEAN /\ lockHeld \in BOOLEAN
  /\ live \in [Slots -> BOOLEAN] /\ viewing \in BOOLEAN
  /\ threadFD \in [Slots -> Descriptors \cup {0}] /\ \A s \in Slots : live[s] <=> threadFD[s] # 0
  /\ overtaken \in [Slots -> BOOLEAN] /\ missed \in BOOLEAN /\ late \subseteq 0..MaxPrints
ListenerRecords == [at : {"idle", "check", "start", "push", "add"}, array : Arrays,
                    kind : {"", "TSTDAX", "SINGLX"}, todo : SUBSET Slots,
                    next : Commands \cup {NoCommand}]
ListenerType ==
  /\ previous \in Arrays \cup {"NONE"}
  /\ listener \in ListenerRecords
  /\ script \in {"any", "line", "failure"}
HandlerType ==
  /\ cmd \in Commands \cup {NoCommand}
  /\ pc \in {"enter", "waiting", "peek", "compare", "call", "send", "finish", "crashed"}
  /\ arr \in Arrays /\ served \in BOOLEAN
  /\ call \in [end : 0..MaxPrints, stale : BOOLEAN]
QueueType == messageQueue \in Seq(Commands)
SentType == sent \in [Arrays -> [Slots -> 0..MaxPrints]]
GotType == got \in [Arrays -> [Slots -> [1..MaxPrints -> Line \cup {NoLine}]]]
BoundsType ==
  /\ printed \in 0..MaxPrints /\ asked \in 0..MaxAsked /\ left \in 0..MaxLeft
  /\ lost \in 0..MaxLost
Types == ArraysType /\ FlagsType /\ ListenerType /\ HandlerType /\ QueueType /\ SentType
         /\ GotType /\ BoundsType

\* Where the lines are that the listener writes to: there is one wherever it writes.
Places ==
  /\ \A a \in Arrays : count[a] <= printed
  /\ script = "line" => count["TEST"] > 0
  /\ script = "failure" => previous = "DIAG" /\ testType = "FUNCTIONAL"
  /\ previous = "DIAG" => isBurnout \/ count["DIAG"] > 0
  /\ isBurnout => testType = "BURNIN"
  /\ listener.at = "check" => count[listener.array] > 0
  /\ listener.at \in {"start", "push", "add"} => listener.kind \in {"TSTDAX", "SINGLX"}
  /\ listener.at = "add" => listener.next \in Commands

\* Whom the handler serves, and that it finds the lines it will send.
Serving ==
  /\ pc \in {"compare", "call", "send", "finish"} => cmd \in Commands
  /\ pc \in {"enter", "waiting", "peek"} => cmd = NoCommand
  /\ pc = "send" => call.end <= Len(lines[arr])

\* CounterHonest, also for slots without a connection.
SentHonest ==
  \A a \in Arrays, s \in Slots : ~overtaken[s] => \A i \in 1..sent[a][s] : got[a][s][i] # NoLine

FeedIInv == Types /\ Places /\ Serving /\ SentHonest

\* While nobody leaves, every command goes to the connection of its slot.
Steady ==
  left = 0 =>
    /\ \A s \in Slots : live[s] /\ ~overtaken[s]
    /\ \A k \in DOMAIN messageQueue : messageQueue[k].fd = threadFD[messageQueue[k].slot]
    /\ listener.at = "add" => listener.next.fd = threadFD[listener.next.slot]
    /\ cmd # NoCommand => cmd.fd = threadFD[cmd.slot]

-------------------------------------------------------------------------------
LEMMA LeastNatural ==
  ASSUME NEW S, S \subseteq Nat, S # {}
  PROVE  \E m \in S : \A k \in S : m <= k
<1>1. PICK m \in S : \A k \in S : ~(<<k, m>> \in OpToRel(<, Nat))
  BY WFMin, NatLessThanWellFounded, Zenon
<1>2. \A k \in S : ~(k < m)
  BY <1>1 DEF OpToRel
<1>. QED
  BY <1>2

\* A sequence of lines with one of them changed, or one more.
LEMMA LineChanged ==
  ASSUME NEW t \in Seq(Line), NEW n \in 1..Len(t), NEW x \in Line
  PROVE  /\ [t EXCEPT ![n] = x] \in Seq(Line) /\ Len([t EXCEPT ![n] = x]) = Len(t)
         /\ \A i \in 1..Len(t) : [t EXCEPT ![n] = x][i] = IF i = n THEN x ELSE t[i]
BY ExceptSeq

LEMMA LineAppended ==
  ASSUME NEW t \in Seq(Line), NEW x \in Line
  PROVE  /\ Append(t, x) \in Seq(Line) /\ Len(Append(t, x)) = Len(t) + 1
         /\ \A i \in 1..Len(t) : Append(t, x)[i] = t[i]
         /\ Append(t, x)[Len(t) + 1] = x
BY AppendProperties

LEMMA LinesAre ==
  ASSUME NEW t \in Seq(Line)
  PROVE  Len(t) \in Nat /\ DOMAIN t = 1..Len(t) /\ \A i \in 1..Len(t) : t[i] \in Line
BY LenProperties, ElementOfSeq

LEMMA LineRecord ==
  ASSUME NEW x \in Line
  PROVE  /\ x.text \in 1..MaxPrints /\ x.nl \in BOOLEAN /\ x.status \in Statuses /\ x # NoLine
         /\ \A p \in 1..MaxPrints : [x EXCEPT !.text = p, !.nl = FALSE] \in Line
         /\ \A st \in Statuses : [x EXCEPT !.status = st] \in Line
         /\ [x EXCEPT !.nl = FALSE] \in Line
<1>1. x.text \in 1..MaxPrints /\ x.nl \in BOOLEAN /\ x.status \in Statuses
  BY DEF Line
<1>2. x # NoLine
  BY <1>1, FeedAssumption DEF NoLine
<1>3. \A p \in 1..MaxPrints : [x EXCEPT !.text = p, !.nl = FALSE] \in Line
  BY DEF Line
<1>4. \A st \in Statuses : [x EXCEPT !.status = st] \in Line
  BY DEF Line
<1>5. [x EXCEPT !.nl = FALSE] \in Line
  BY DEF Line
<1>. QED
  BY <1>1, <1>2, <1>3, <1>4, <1>5

LEMMA TypesMeanTypeOK == Types => TypeOK
BY Zenon DEF Types, TypeOK, ArraysType, FlagsType, ListenerType, ListenerRecords, HandlerType,
   QueueType, SentType, GotType, BoundsType

LEMMA InitFeed == Init => FeedIInv
<1> SUFFICES ASSUME Init PROVE FeedIInv
  OBVIOUS
<1>1. Types
  <2>1. ArraysType
    <3>1. lines \in [Arrays -> Seq(Line)] /\ \A a \in Arrays : count[a] = 0 /\ Len(lines[a]) = 0
      BY EmptySeq DEF Init
    <3>2. count \in [Arrays -> 0..MaxPrints]
      BY FeedAssumption DEF Init
    <3>. QED
      BY <3>1, <3>2 DEF ArraysType
  <2>2. FlagsType
    <3>1. /\ threadFD \in [Slots -> Descriptors] /\ live = [s \in Slots |-> TRUE]
          /\ 0 \notin Descriptors /\ overtaken \in [Slots -> BOOLEAN]
      BY FeedAssumption DEF Init
    <3>2. \A s \in Slots : threadFD[s] \in Descriptors /\ threadFD[s] # 0 /\ live[s]
      BY <3>1
    <3>. QED
      BY <3>1, <3>2 DEF Init, FlagsType
  <2>3. ListenerType
    BY DEF Init, ListenerType, ListenerRecords, Idle, Arrays
  <2>4. HandlerType
    <3>1. call \in [end : 0..MaxPrints, stale : BOOLEAN]
      BY FeedAssumption DEF Init, NoCall
    <3>. QED
      BY <3>1 DEF Init, HandlerType, Arrays
  <2>5. QueueType
    BY EmptySeq DEF Init, QueueType
  <2>6. SentType
    BY FeedAssumption DEF Init, SentType
  <2>7. GotType
    BY DEF Init, GotType, Unsent
  <2>8. BoundsType
    BY FeedAssumption DEF Init, BoundsType
  <2>. QED
    BY <2>1, <2>2, <2>3, <2>4, <2>5, <2>6, <2>7, <2>8 DEF Types
<1>2. Places
  <2>1. \A a \in Arrays : count[a] <= printed
    BY DEF Init
  <2>. QED
    BY <2>1 DEF Init, Places, Idle
<1>3. Serving
  BY DEF Init, Serving
<1>4. SentHonest
  BY DEF Init, SentHonest
<1>. QED
  BY <1>1, <1>2, <1>3, <1>4 DEF FeedIInv

\* The least of a set of slots, the one updateUserQueues comes to next.
LEMMA NextSlot ==
  ASSUME NEW S, S \subseteq Slots, S # {}
  PROVE  /\ (CHOOSE x \in S : \A y \in S : x <= y) \in S
         /\ \A y \in S : (CHOOSE x \in S : \A z \in S : x <= z) <= y
BY LeastNatural, FeedAssumption

\* The listener at rest, and in front of updateUserQueues.
LEMMA ListenerAtRest ==
  /\ Idle \in ListenerRecords /\ Idle.at = "idle" /\ Idle.kind = ""
  /\ \A k \in {"TSTDAX", "SINGLX"} :
       LET started == [Idle EXCEPT !.at = "start", !.kind = k] IN
       started \in ListenerRecords /\ started.at = "start" /\ started.kind = k
  /\ \A a \in Arrays : LET checking == [Idle EXCEPT !.at = "check", !.array = a] IN
       /\ checking \in ListenerRecords /\ checking.at = "check" /\ checking.array = a
       /\ checking.kind = ""
BY DEF Idle, ListenerRecords, Arrays

\* What the handler turns to when an array is done.
LEMMA NextArrayIs ==
  ASSUME NextArray
  PROVE  /\ call' = NoCall /\ call' \in [end : 0..MaxPrints, stale : BOOLEAN]
         /\ arr' \in Arrays /\ pc' \in {"compare", "call", "finish"}
         /\ pc' = "compare" => cmd.kind = "SINGLX" /\ arr' = "DIAG"
<1>1. NoCall \in [end : 0..MaxPrints, stale : BOOLEAN]
  BY FeedAssumption DEF NoCall
<1>. QED
  BY <1>1 DEF NextArray, BeginArray, Arrays

LEMMA BeginIs ==
  ASSUME NEW m \in Commands, Begin(m)
  PROVE  /\ call' = NoCall /\ call' \in [end : 0..MaxPrints, stale : BOOLEAN]
         /\ arr' = "TEST" /\ pc' \in {"compare", "call"} /\ cmd' = m
         /\ pc' = "compare" <=> m.kind = "SINGLX"
<1>1. NoCall \in [end : 0..MaxPrints, stale : BOOLEAN]
  BY FeedAssumption DEF NoCall
<1>. QED
  BY <1>1 DEF Begin, BeginArray

LEMMA QueuePeeked ==
  ASSUME messageQueue \in Seq(Commands), messageQueue # <<>>
  PROVE  /\ Head(messageQueue) \in Commands /\ Head(messageQueue) = messageQueue[1]
         /\ Len(messageQueue) \in Nat \ {0}
         /\ Tail(messageQueue) \in Seq(Commands)
         /\ Len(Tail(messageQueue)) = Len(messageQueue) - 1
         /\ \A k \in 1..Len(messageQueue) - 1 : Tail(messageQueue)[k] = messageQueue[k + 1]
BY EmptySeq, HeadTailProperties, LenProperties

LEMMA CommandIs ==
  ASSUME NEW m \in Commands
  PROVE  /\ m.slot \in Slots /\ m.kind \in {"TSTDAT", "TSTDAX", "SINGLX"} /\ m # NoCommand
         /\ m.fd \in Descriptors /\ m.fd # 0
<1>0. m.fd \in Descriptors /\ m.fd # 0
  BY FeedAssumption DEF Commands
<1>1. m.slot \in Slots /\ m.kind \in {"TSTDAT", "TSTDAX", "SINGLX"}
  BY DEF Commands
<1>2. m.slot # NoCommand.slot
  BY <1>1, FeedAssumption DEF NoCommand
<1>. QED
  BY <1>0, <1>1, <1>2

\* send_test_data takes the newline of the lines it sends.
Stripped(t, B) == [i \in DOMAIN t |-> IF i \in B THEN [t[i] EXCEPT !.nl = FALSE] ELSE t[i]]

LEMMA LinesSent ==
  ASSUME NEW t \in Seq(Line), NEW B, NEW u, u = Stripped(t, B)
  PROVE  /\ u \in Seq(Line) /\ Len(u) = Len(t)
         /\ \A i \in 1..Len(t) : /\ u[i] \in Line /\ u[i].text = t[i].text
                                 /\ u[i].status = t[i].status
<1>1. \A i \in 1..Len(t) : u[i] \in Line /\ u[i].text = t[i].text /\ u[i].status = t[i].status
  <2>. SUFFICES ASSUME NEW i \in 1..Len(t)
                PROVE  u[i] \in Line /\ u[i].text = t[i].text /\ u[i].status = t[i].status
    OBVIOUS
  <2>1. t[i] \in Line /\ i \in DOMAIN t
    BY LinesAre
  <2>2. u[i] = IF i \in B THEN [t[i] EXCEPT !.nl = FALSE] ELSE t[i]
    BY <2>1 DEF Stripped
  <2>. HIDE DEF Line
  <2>3. \A x \in Line : [x EXCEPT !.nl = FALSE].text = x.text /\ [x EXCEPT !.nl = FALSE].status = x.status
    BY DEF Line
  <2>. QED
    BY <2>1, <2>2, <2>3, LineRecord
<1>2. DOMAIN u = 1..Len(t) /\ Len(t) \in Nat
  BY LinesAre DEF Stripped
<1>3. u \in [1..Len(t) -> Line]
  BY <1>1, <1>2 DEF Stripped
<1>. QED
  BY <1>1, <1>2, <1>3, LenProperties, IsASeq

USE DEF arrayVars, modeVars, listenerVars, handlerVars, clientVars, bounds

\* The lines of a batch, as they are after send_test_data.
LEMMA LinesSentAre ==
  ASSUME FeedIInv, SendTestData
  PROVE  /\ lines' \in [Arrays -> Seq(Line)]
         /\ \A i \in sent[arr][cmd.slot] + 1..call.end : lines'[arr][i] \in Line
         /\ \A a \in Arrays : Len(lines'[a]) = Len(lines[a])
         /\ \A a \in Arrays : \A i \in 1..Len(lines[a]) :
              lines'[a][i].text = lines[a][i].text /\ lines'[a][i].status = lines[a][i].status
<1>. DEFINE s == cmd.slot
            batch == sent[arr][s] + 1..call.end
            t == lines[arr]
            u == Stripped(t, batch)
<1>1. s \in Slots /\ arr \in Arrays /\ sent[arr][s] \in 0..MaxPrints /\ call.end \in 0..MaxPrints
  BY CommandIs DEF FeedIInv, Types, HandlerType, SentType, Serving, SendTestData
<1>2. t \in Seq(Line) /\ Len(t) \in Nat /\ call.end <= Len(t)
  BY <1>1, LenProperties DEF FeedIInv, Types, ArraysType, Serving, SendTestData
<1>3. lines' = [lines EXCEPT ![arr] = u]
  BY DEF SendTestData, Stripped
<1>4. u \in Seq(Line) /\ Len(u) = Len(t)
  BY <1>2, LinesSent
<1>5. \A i \in 1..Len(t) : u[i] \in Line /\ u[i].text = t[i].text /\ u[i].status = t[i].status
  BY <1>2, LinesSent
<1>6. \A i \in batch : i \in 1..Len(t)
  BY <1>1, <1>2
<1>. HIDE DEF u, batch
<1>7. lines'[arr] = u /\ \A a \in Arrays : a # arr => lines'[a] = lines[a]
  BY <1>1, <1>3 DEF FeedIInv, Types, ArraysType
<1>8. \A i \in batch : lines'[arr][i] \in Line
  BY <1>5, <1>6, <1>7
<1>9. \A a \in Arrays : Len(lines'[a]) = Len(lines[a])
  BY <1>4, <1>7
<1>10. \A a \in Arrays : \A i \in 1..Len(lines[a]) :
         lines'[a][i].text = lines[a][i].text /\ lines'[a][i].status = lines[a][i].status
  BY <1>5, <1>7
<1>11. lines' \in [Arrays -> Seq(Line)]
  BY <1>3, <1>4 DEF FeedIInv, Types, ArraysType
<1>. QED
  BY <1>8, <1>9, <1>10, <1>11 DEF batch

\* One line of an array is written.
Replaced(a, n, x) == lines' = [lines EXCEPT ![a] = [lines[a] EXCEPT ![n] = x]]

LEMMA LineReplaced ==
  ASSUME ArraysType, NEW a \in Arrays, NEW n \in 1..Len(lines[a]), NEW x \in Line,
         Replaced(a, n, x)
  PROVE  /\ lines' \in [Arrays -> Seq(Line)]
         /\ \A b \in Arrays : Len(lines'[b]) = Len(lines[b])
         /\ lines'[a][n] = x
         /\ \A b \in Arrays : \A i \in 1..Len(lines[b]) :
              ~(b = a /\ i = n) => lines'[b][i] = lines[b][i]
<1>. DEFINE t == lines[a]
            u == [t EXCEPT ![n] = x]
<1>1. t \in Seq(Line) /\ lines \in [Arrays -> Seq(Line)]
  BY DEF ArraysType
<1>2. u \in Seq(Line) /\ Len(u) = Len(t) /\ \A i \in 1..Len(t) : u[i] = IF i = n THEN x ELSE t[i]
  BY <1>1, LineChanged
<1>3. lines' = [lines EXCEPT ![a] = u]
  BY DEF Replaced
<1>. HIDE DEF u
<1>4. lines' \in [Arrays -> Seq(Line)] /\ lines'[a] = u /\ \A b \in Arrays : b # a => lines'[b] = lines[b]
  BY <1>1, <1>2, <1>3
<1>. QED
  BY <1>2, <1>4

\* updateTestDataQueue changes one line, the last one.
LEMMA TextChanged ==
  ASSUME FeedIInv, UpdateTestDataQueue
  PROVE  /\ lines' \in [Arrays -> Seq(Line)]
         /\ \A a \in Arrays : Len(lines'[a]) = Len(lines[a])
         /\ \A a \in Arrays : \A i \in 1..Len(lines[a]) :
              /\ lines'[a][i].status = lines[a][i].status
              /\ ~(a = "TEST" /\ i = count["TEST"]) => lines'[a][i] = lines[a][i]
<1>. DEFINE n == count["TEST"]
            t == lines["TEST"]
            x == [t[n] EXCEPT !.text = printed + 1, !.nl = FALSE]
<1>1. "TEST" \in Arrays /\ t \in Seq(Line) /\ n \in 1..Len(t) /\ printed + 1 \in 1..MaxPrints
  <2>1. "TEST" \in Arrays /\ t \in Seq(Line) /\ n <= Len(t) /\ n \in 0..MaxPrints
    BY DEF FeedIInv, Types, ArraysType, Arrays
  <2>2. n > 0
    BY DEF FeedIInv, Places, UpdateTestDataQueue
  <2>3. printed + 1 \in 1..MaxPrints
    BY FeedAssumption DEF FeedIInv, Types, BoundsType, UpdateTestDataQueue
  <2>. QED
    BY <2>1, <2>2, <2>3, LenProperties
<1>2. t[n] \in Line
  BY <1>1, LinesAre
<1>3. x \in Line /\ x.status = t[n].status
  BY <1>1, <1>2, LineRecord DEF Line
<1>4. Replaced("TEST", n, x)
  BY DEF UpdateTestDataQueue, Replaced
<1>5. ArraysType
  BY DEF FeedIInv, Types
<1>. HIDE DEF x, n
<1>6. /\ lines' \in [Arrays -> Seq(Line)]
      /\ \A b \in Arrays : Len(lines'[b]) = Len(lines[b])
      /\ lines'["TEST"][n] = x
      /\ \A b \in Arrays : \A i \in 1..Len(lines[b]) :
           ~(b = "TEST" /\ i = n) => lines'[b][i] = lines[b][i]
  BY <1>1, <1>3, <1>4, <1>5, LineReplaced
<1>7. \A b \in Arrays : \A i \in 1..Len(lines[b]) : lines'[b][i].status = lines[b][i].status
  BY <1>3, <1>6
<1>. QED
  BY <1>6, <1>7 DEF n

\* A status is written to the last line of the array that got the last message, or the line
\* is taken back, or, in burn-in mode, a status of diagnostics is dropped with the lock.
StatusWritten(a, status) ==
  /\ lines' = [lines EXCEPT ![a] = [lines[a] EXCEPT ![count[a]] =
                                     [lines[a][count[a]] EXCEPT !.status = status]]]
  /\ count' = count /\ lockHeld' = lockHeld
  /\ \E k \in {"TSTDAX", "SINGLX"} : UpdateUserQueues(k)
  /\ a = "TEST" => UpdateUserQueues("TSTDAX")
  /\ a = previous /\ count[a] > 0
LineTakenBack ==
  /\ lines' = lines /\ listener' = listener /\ lockHeld' = lockHeld
  /\ count' = [count EXCEPT !["TEST"] = count["TEST"] - 1]
  /\ isBurnout /\ previous = "TEST" /\ script = "line"
StatusDropped ==
  /\ lines' = lines /\ listener' = listener /\ count' = count
  /\ isBurnout /\ previous = "DIAG" /\ script = "line"

LEMMA StatusCases ==
  ASSUME FeedIInv, NEW status \in {"Passed", "FAILED"}, UpdateStatus(status)
  PROVE  \/ \E a \in Arrays : StatusWritten(a, status)
         \/ LineTakenBack /\ status = "Passed"
         \/ StatusDropped
<1>1. CASE previous = "TEST" /\ status # "FAILED" /\ isBurnout
  BY <1>1 DEF UpdateStatus, UpdateTestDataStatus, LineTakenBack
<1>2. CASE previous = "TEST" /\ ~(status # "FAILED" /\ isBurnout)
  <2>1. "TEST" \in Arrays /\ count["TEST"] > 0
    BY <1>2 DEF FeedIInv, Places, UpdateStatus, Arrays
  <2>2. /\ lines' = [lines EXCEPT !["TEST"][count["TEST"]].status = status]
        /\ UpdateUserQueues("TSTDAX") /\ count' = count /\ lockHeld' = lockHeld
    BY <1>2 DEF UpdateStatus, UpdateTestDataStatus
  <2>. QED
    BY <1>2, <2>1, <2>2 DEF StatusWritten
<1>3. CASE previous = "DIAG" /\ isBurnout
  <2>1. script = "line"
    BY <1>3, FeedAssumption DEF FeedIInv, Places, UpdateStatus
  <2>. QED
    BY <1>3, <2>1 DEF UpdateStatus, UpdateDiagnosticDataStatus, StatusDropped
<1>4. CASE previous = "DIAG" /\ ~isBurnout
  <2>1. "DIAG" \in Arrays /\ count["DIAG"] > 0
    BY <1>4 DEF FeedIInv, Places, Arrays
  <2>2. /\ lines' = [lines EXCEPT !["DIAG"][count["DIAG"]].status = status]
        /\ UpdateUserQueues("SINGLX") /\ count' = count /\ lockHeld' = lockHeld
    BY <1>4 DEF UpdateStatus, UpdateDiagnosticDataStatus
  <2>. QED
    BY <1>4, <2>1, <2>2 DEF StatusWritten
<1>. QED
  BY <1>1, <1>2, <1>3, <1>4 DEF UpdateStatus

LEMMA StatusChanged ==
  ASSUME FeedIInv, NEW status \in {"Passed", "FAILED"}, NEW a \in Arrays, StatusWritten(a, status)
  PROVE  /\ lines' \in [Arrays -> Seq(Line)]
         /\ \A b \in Arrays : Len(lines'[b]) = Len(lines[b])
         /\ \A b \in Arrays : \A i \in 1..Len(lines[b]) :
              /\ lines'[b][i].text = lines[b][i].text
              /\ ~(b = a /\ i = count[a]) => lines'[b][i] = lines[b][i]
<1>. DEFINE n == count[a]
            t == lines[a]
            x == [t[n] EXCEPT !.status = status]
<1>1. t \in Seq(Line) /\ n \in 1..Len(t)
  BY LenProperties DEF FeedIInv, Types, ArraysType, StatusWritten
<1>2. t[n] \in Line
  BY <1>1, LinesAre
<1>3. x \in Line /\ x.text = t[n].text
  BY <1>2, LineRecord DEF Line, Statuses
<1>4. Replaced(a, n, x) /\ ArraysType
  BY DEF FeedIInv, Types, StatusWritten, Replaced
<1>. HIDE DEF x, n
<1>6. /\ lines' \in [Arrays -> Seq(Line)]
      /\ \A b \in Arrays : Len(lines'[b]) = Len(lines[b])
      /\ lines'[a][n] = x
      /\ \A b \in Arrays : \A i \in 1..Len(lines[b]) :
           ~(b = a /\ i = n) => lines'[b][i] = lines[b][i]
  BY <1>1, <1>3, <1>4, LineReplaced
<1>7. \A b \in Arrays : \A i \in 1..Len(lines[b]) : lines'[b][i].text = lines[b][i].text
  BY <1>3, <1>6
<1>. QED
  BY <1>6, <1>7 DEF n

\* A new line is behind the others, in the place of one that was taken back or at the end.
LEMMA LineQueued ==
  ASSUME FeedIInv, NEW a \in Arrays, NEW nl \in BOOLEAN, NEW next, QueueData(a, nl, next),
         ~(a = "DIAG" /\ isBurnout)
  PROVE  LET n == count[a] + 1
             new == [text |-> printed + 1, nl |-> nl, status |-> "none"] IN
         /\ lines' \in [Arrays -> Seq(Line)] /\ new \in Line
         /\ Len(lines'[a]) = IF n <= Len(lines[a]) THEN Len(lines[a]) ELSE n
         /\ \A b \in Arrays : b # a => lines'[b] = lines[b]
         /\ \A i \in 1..Len(lines[a]) : i # n => lines'[a][i] = lines[a][i]
         /\ n \in 1..MaxPrints /\ n <= Len(lines'[a]) /\ lines'[a][n] = new
         /\ count' = [count EXCEPT ![a] = n]
         /\ n <= printed + 1
<1>. DEFINE t == lines[a]
            n == count[a] + 1
            new == [text |-> printed + 1, nl |-> nl, status |-> "none"]
            u == IF count[a] < Len(t) THEN [t EXCEPT ![n] = new] ELSE Append(t, new)
<1>1. t \in Seq(Line) /\ Len(t) \in Nat /\ count[a] \in 0..MaxPrints /\ count[a] <= Len(t)
  BY LenProperties DEF FeedIInv, Types, ArraysType
<1>2. printed \in Nat /\ printed < MaxPrints /\ count[a] <= printed
  BY FeedAssumption DEF FeedIInv, Types, BoundsType, Places, QueueData
<1>3. new \in Line
  BY <1>2, FeedAssumption DEF Line, Statuses
<1>4. lines' = [lines EXCEPT ![a] = u] /\ count' = [count EXCEPT ![a] = n]
  BY DEF QueueData
<1>5. n \in 1..MaxPrints /\ n <= printed + 1
  BY <1>1, <1>2, FeedAssumption
<1>6. /\ u \in Seq(Line) /\ Len(u) = (IF n <= Len(t) THEN Len(t) ELSE n)
      /\ u[n] = new /\ \A i \in 1..Len(t) : i # n => u[i] = t[i]
  <2>. HIDE DEF new
  <2>1. CASE count[a] < Len(t)
    <3>1. n \in 1..Len(t) /\ n <= Len(t) /\ u = [t EXCEPT ![n] = new]
      BY <1>1, <2>1
    <3>. HIDE DEF u, n
    <3>. QED
      BY <1>1, <1>3, <3>1, LineChanged
  <2>2. CASE ~(count[a] < Len(t))
    <3>1. n = Len(t) + 1 /\ ~(n <= Len(t)) /\ u = Append(t, new)
      BY <1>1, <2>2
    <3>. HIDE DEF u, n
    <3>. QED
      BY <1>1, <1>3, <3>1, LineAppended
  <2>. QED
    BY <2>1, <2>2
<1>. HIDE DEF u, new
<1>7. /\ lines' \in [Arrays -> Seq(Line)] /\ lines'[a] = u
      /\ \A b \in Arrays : b # a => lines'[b] = lines[b]
  BY <1>4, <1>6 DEF FeedIInv, Types, ArraysType
<1>8. n <= Len(u)
  BY <1>1, <1>5, <1>6
<1>. QED
  BY <1>3, <1>4, <1>5, <1>6, <1>7, <1>8 DEF new

LEMMA TestOutputIs ==
  ASSUME TestOutput
  PROVE  \E a \in Arrays, nl \in BOOLEAN, next \in {"any", "line", "failure"} :
           /\ QueueData(a, nl, next)
           /\ next = "line" => a = "TEST" \/ (script = "line" /\ Debug)
           /\ next = "failure" => a = "DIAG" /\ testType = "FUNCTIONAL"
BY DEF TestOutput, Arrays

LEMMA CheckNewlineKeeps == ASSUME FeedIInv, CheckNewline PROVE FeedIInv'
<1>1. ArraysType'
  BY DEF FeedIInv, Types, ArraysType, CheckNewline, UpdateUserQueues, Idle
<1>2. FlagsType'
  BY DEF FeedIInv, Types, FlagsType, CheckNewline, UpdateUserQueues, Idle
<1>3. ListenerType'
  <2>1. CASE lines[listener.array][count[listener.array]].nl
    BY <2>1, ListenerAtRest DEF CheckNewline, UpdateUserQueues, FeedIInv, Types, ListenerType
  <2>2. CASE ~lines[listener.array][count[listener.array]].nl
    BY <2>2, ListenerAtRest DEF CheckNewline, FeedIInv, Types, ListenerType
  <2>. QED
    BY <2>1, <2>2
<1>4. HandlerType'
  BY DEF FeedIInv, Types, HandlerType, Arrays, CheckNewline, UpdateUserQueues, Idle
<1>5. QueueType'
  BY DEF FeedIInv, Types, QueueType, CheckNewline, UpdateUserQueues, Idle
<1>6. SentType'
  BY FeedAssumption DEF FeedIInv, Types, SentType, CheckNewline, UpdateUserQueues, Idle
<1>7. GotType'
  BY DEF FeedIInv, Types, GotType, CheckNewline, UpdateUserQueues, Idle
<1>8. BoundsType'
  BY FeedAssumption DEF FeedIInv, Types, BoundsType, CheckNewline, UpdateUserQueues, Idle
<1>9. Places'
  <2>1. /\ UNCHANGED <<count, printed, script, previous, testType, isBurnout>>
        /\ listener' \in {Idle, [Idle EXCEPT !.at = "start", !.kind = "TSTDAX"]}
    BY DEF CheckNewline, UpdateUserQueues
  <2>2. listener'.at # "check" /\ (listener'.at = "start" => listener'.kind = "TSTDAX")
        /\ listener'.at \notin {"push", "add"}
    BY <2>1, ListenerAtRest
  <2>. QED
    BY <2>1, <2>2 DEF FeedIInv, Places
<1>10. Serving'
  BY DEF FeedIInv, Types, Serving, FlagsType, HandlerType, Commands, NoCommand, CheckNewline,
     UpdateUserQueues, Idle
<1>11. SentHonest'
  BY DEF FeedIInv, Types, SentHonest, SentType, FlagsType, CheckNewline, UpdateUserQueues, Idle
<1>. QED
  BY <1>1, <1>2, <1>3, <1>4, <1>5, <1>6, <1>7, <1>8, <1>9, <1>10, <1>11 DEF FeedIInv, Types

LEMMA StartUpdateKeeps == ASSUME FeedIInv, StartUpdate PROVE FeedIInv'
<1>1. ArraysType'
  BY DEF FeedIInv, Types, ArraysType, StartUpdate
<1>2. FlagsType'
  BY DEF FeedIInv, Types, FlagsType, StartUpdate
<1>3. ListenerType'
  BY DEF FeedIInv, Types, ListenerType, ListenerRecords, Arrays, StartUpdate
<1>4. HandlerType'
  BY DEF FeedIInv, Types, HandlerType, Arrays, StartUpdate
<1>5. QueueType'
  BY DEF FeedIInv, Types, QueueType, StartUpdate
<1>6. SentType'
  BY FeedAssumption DEF FeedIInv, Types, SentType, StartUpdate
<1>7. GotType'
  BY DEF FeedIInv, Types, GotType, StartUpdate
<1>8. BoundsType'
  BY FeedAssumption DEF FeedIInv, Types, BoundsType, StartUpdate
<1>9. Places'
  BY DEF FeedIInv, Types, Places, ArraysType, ListenerType, BoundsType, StartUpdate, Arrays
<1>10. Serving'
  BY DEF FeedIInv, Types, Serving, FlagsType, HandlerType, Commands, NoCommand, StartUpdate
<1>11. SentHonest'
  BY DEF FeedIInv, Types, SentHonest, SentType, FlagsType, StartUpdate
<1>. QED
  BY <1>1, <1>2, <1>3, <1>4, <1>5, <1>6, <1>7, <1>8, <1>9, <1>10, <1>11 DEF FeedIInv, Types

\* The listener reads the descriptor of the next connection, or finds none.
LEMMA DescriptorRead ==
  ASSUME FeedIInv, ReadDescriptor
  PROVE  LET s == CHOOSE x \in listener.todo : \A y \in listener.todo : x <= y
             m == [slot |-> s, kind |-> listener.kind, fd |-> threadFD[s]]
         IN /\ s \in Slots /\ listener.at = "push" /\ s \in listener.todo
            /\ listener' \in ListenerRecords /\ listener'.kind = listener.kind
            /\ listener.kind \in {"TSTDAX", "SINGLX"} /\ listener'.todo = listener.todo \ {s}
            /\ live[s] => m \in Commands /\ listener'.at = "add" /\ listener'.next = m
            /\ ~live[s] => listener'.at = "push" /\ listener'.next = listener.next
<1>. DEFINE s == CHOOSE x \in listener.todo : \A y \in listener.todo : x <= y
            m == [slot |-> s, kind |-> listener.kind, fd |-> threadFD[s]]
<1>1. listener.todo \subseteq Slots /\ listener.todo # {} /\ listener.at = "push"
  BY DEF ReadDescriptor, FeedIInv, Types, ListenerType, ListenerRecords
<1>2. s \in Slots /\ s \in listener.todo
  BY <1>1, NextSlot
<1>3. listener \in ListenerRecords /\ listener.kind \in {"TSTDAX", "SINGLX"}
  BY <1>1 DEF FeedIInv, Types, ListenerType, Places
<1>4. \/ live[s] /\ listener' = [listener EXCEPT !.at = "add", !.todo = listener.todo \ {s},
                                                 !.next = m]
      \/ ~live[s] /\ listener' = [listener EXCEPT !.todo = listener.todo \ {s}]
  BY DEF ReadDescriptor
<1>5. live[s] => threadFD[s] \in Descriptors
  BY <1>2 DEF FeedIInv, Types, FlagsType
<1>. HIDE DEF s
<1>6. live[s] => m \in Commands
  BY <1>2, <1>3, <1>5 DEF Commands
<1>7. listener.todo \ {s} \in SUBSET Slots
  BY <1>1
<1>. HIDE DEF m
<1>8. CASE live[s]
  BY <1>1, <1>2, <1>3, <1>4, <1>6, <1>7, <1>8 DEF ListenerRecords, m, s
<1>9. CASE ~live[s]
  BY <1>1, <1>2, <1>3, <1>4, <1>7, <1>9 DEF ListenerRecords, m, s
<1>. QED
  BY <1>8, <1>9 DEF m, s

LEMMA ReadDescriptorKeeps == ASSUME FeedIInv, ReadDescriptor PROVE FeedIInv'
<1>1. ArraysType'
  BY DEF FeedIInv, Types, ArraysType, ReadDescriptor
<1>2. FlagsType'
  BY DEF FeedIInv, Types, FlagsType, ReadDescriptor
<1>3. ListenerType'
  BY DescriptorRead DEF FeedIInv, Types, ListenerType, ReadDescriptor
<1>4. HandlerType'
  BY DEF FeedIInv, Types, HandlerType, Arrays, ReadDescriptor
<1>5. QueueType'
  BY DEF FeedIInv, Types, QueueType, ReadDescriptor
<1>6. SentType'
  BY FeedAssumption DEF FeedIInv, Types, SentType, ReadDescriptor
<1>7. GotType'
  BY DEF FeedIInv, Types, GotType, ReadDescriptor
<1>8. BoundsType'
  BY FeedAssumption DEF FeedIInv, Types, BoundsType, ReadDescriptor
<1>9. Places'
  <2>1. /\ listener'.at \in {"push", "add"} /\ listener'.kind \in {"TSTDAX", "SINGLX"}
        /\ listener'.at = "add" => listener'.next \in Commands
    BY DescriptorRead
  <2>2. UNCHANGED <<count, printed, script, previous, testType, isBurnout>>
    BY DEF ReadDescriptor
  <2>. QED
    BY <2>1, <2>2 DEF FeedIInv, Places
<1>10. Serving'
  BY DEF FeedIInv, Types, Serving, FlagsType, HandlerType, Commands, NoCommand, ReadDescriptor
<1>11. SentHonest'
  BY DEF FeedIInv, Types, SentHonest, SentType, FlagsType, ReadDescriptor
<1>. QED
  BY <1>1, <1>2, <1>3, <1>4, <1>5, <1>6, <1>7, <1>8, <1>9, <1>10, <1>11 DEF FeedIInv, Types

LEMMA PushUpdateKeeps == ASSUME FeedIInv, PushUpdate PROVE FeedIInv'
<1>0. /\ listener.at = "add" /\ listener.next \in Commands
      /\ listener' \in ListenerRecords /\ listener'.at = "push" /\ listener'.kind = listener.kind
  <2>1. listener.at = "add" /\ listener \in ListenerRecords
    BY DEF PushUpdate, FeedIInv, Types, ListenerType
  <2>2. listener.next \in Commands
    BY <2>1 DEF FeedIInv, Places
  <2>. QED
    BY <2>1, <2>2 DEF PushUpdate, ListenerRecords
<1>1. ArraysType'
  BY DEF FeedIInv, Types, ArraysType, PushUpdate
<1>2. FlagsType'
  BY DEF FeedIInv, Types, FlagsType, PushUpdate
<1>3. ListenerType'
  BY <1>0 DEF FeedIInv, Types, ListenerType, PushUpdate
<1>4. HandlerType'
  BY DEF FeedIInv, Types, HandlerType, Arrays, PushUpdate
<1>5. QueueType'
  BY <1>0, AppendProperties DEF FeedIInv, Types, QueueType, PushUpdate
<1>6. SentType'
  BY FeedAssumption DEF FeedIInv, Types, SentType, PushUpdate
<1>7. GotType'
  BY DEF FeedIInv, Types, GotType, PushUpdate
<1>8. BoundsType'
  BY FeedAssumption DEF FeedIInv, Types, BoundsType, PushUpdate
<1>9. Places'
  <2>1. UNCHANGED <<count, printed, script, previous, testType, isBurnout>>
    BY DEF PushUpdate
  <2>. QED
    BY <1>0, <2>1 DEF FeedIInv, Places
<1>10. Serving'
  BY DEF FeedIInv, Types, Serving, FlagsType, HandlerType, Commands, NoCommand, PushUpdate
<1>11. SentHonest'
  BY DEF FeedIInv, Types, SentHonest, SentType, FlagsType, PushUpdate
<1>. QED
  BY <1>1, <1>2, <1>3, <1>4, <1>5, <1>6, <1>7, <1>8, <1>9, <1>10, <1>11 DEF FeedIInv, Types

LEMMA SignalUpdateKeeps == ASSUME FeedIInv, SignalUpdate PROVE FeedIInv'
<1>1. ArraysType'
  BY DEF FeedIInv, Types, ArraysType, SignalUpdate, Idle, Signal
<1>2. FlagsType'
  BY DEF FeedIInv, Types, FlagsType, SignalUpdate, Idle, Signal
<1>3. ListenerType'
  BY DEF FeedIInv, Types, ListenerType, ListenerRecords, Arrays, SignalUpdate, Idle, Signal
<1>4. HandlerType'
  BY DEF FeedIInv, Types, HandlerType, Arrays, SignalUpdate, Idle, Signal
<1>5. QueueType'
  BY DEF FeedIInv, Types, QueueType, SignalUpdate, Idle, Signal
<1>6. SentType'
  BY FeedAssumption DEF FeedIInv, Types, SentType, SignalUpdate, Idle, Signal
<1>7. GotType'
  BY DEF FeedIInv, Types, GotType, SignalUpdate, Idle, Signal
<1>8. BoundsType'
  BY FeedAssumption DEF FeedIInv, Types, BoundsType, SignalUpdate, Idle, Signal
<1>9. Places'
  BY DEF FeedIInv, Types, Places, ArraysType, ListenerType, BoundsType, SignalUpdate, Idle,
     Signal
<1>10. Serving'
  BY DEF FeedIInv, Types, Serving, FlagsType, HandlerType, Commands, NoCommand, SignalUpdate,
     Idle, Signal
<1>11. SentHonest'
  BY DEF FeedIInv, Types, SentHonest, SentType, FlagsType, SignalUpdate, Idle, Signal
<1>. QED
  BY <1>1, <1>2, <1>3, <1>4, <1>5, <1>6, <1>7, <1>8, <1>9, <1>10, <1>11 DEF FeedIInv, Types

LEMMA LoseKeeps == ASSUME FeedIInv, Lose PROVE FeedIInv'
<1>1. ArraysType'
  BY DEF FeedIInv, Types, ArraysType, Lose
<1>2. FlagsType'
  BY DEF FeedIInv, Types, FlagsType, Lose
<1>3. ListenerType'
  BY DEF FeedIInv, Types, ListenerType, ListenerRecords, Arrays, Lose
<1>4. HandlerType'
  BY DEF FeedIInv, Types, HandlerType, Arrays, Lose
<1>5. QueueType'
  BY DEF FeedIInv, Types, QueueType, Lose
<1>6. SentType'
  BY FeedAssumption DEF FeedIInv, Types, SentType, Lose
<1>7. GotType'
  BY DEF FeedIInv, Types, GotType, Lose
<1>8. BoundsType'
  BY FeedAssumption DEF FeedIInv, Types, BoundsType, Lose
<1>9. Places'
  BY DEF FeedIInv, Types, Places, ArraysType, ListenerType, BoundsType, Lose
<1>10. Serving'
  BY DEF FeedIInv, Types, Serving, FlagsType, HandlerType, Commands, NoCommand, Lose
<1>11. SentHonest'
  BY DEF FeedIInv, Types, SentHonest, SentType, FlagsType, Lose
<1>. QED
  BY <1>1, <1>2, <1>3, <1>4, <1>5, <1>6, <1>7, <1>8, <1>9, <1>10, <1>11 DEF FeedIInv, Types

LEMMA SetBurnoutTestKeeps == ASSUME FeedIInv, SetBurnoutTest PROVE FeedIInv'
<1>1. ArraysType'
  BY DEF FeedIInv, Types, ArraysType, SetBurnoutTest
<1>2. FlagsType'
  BY DEF FeedIInv, Types, FlagsType, SetBurnoutTest
<1>3. ListenerType'
  BY DEF FeedIInv, Types, ListenerType, ListenerRecords, Arrays, SetBurnoutTest
<1>4. HandlerType'
  BY DEF FeedIInv, Types, HandlerType, Arrays, SetBurnoutTest
<1>5. QueueType'
  BY DEF FeedIInv, Types, QueueType, SetBurnoutTest
<1>6. SentType'
  BY FeedAssumption DEF FeedIInv, Types, SentType, SetBurnoutTest
<1>7. GotType'
  BY DEF FeedIInv, Types, GotType, SetBurnoutTest
<1>8. BoundsType'
  BY FeedAssumption DEF FeedIInv, Types, BoundsType, SetBurnoutTest
<1>9. Places'
  BY DEF FeedIInv, Types, Places, ArraysType, ListenerType, BoundsType, SetBurnoutTest
<1>10. Serving'
  BY DEF FeedIInv, Types, Serving, FlagsType, HandlerType, Commands, NoCommand, SetBurnoutTest
<1>11. SentHonest'
  BY DEF FeedIInv, Types, SentHonest, SentType, FlagsType, SetBurnoutTest
<1>. QED
  BY <1>1, <1>2, <1>3, <1>4, <1>5, <1>6, <1>7, <1>8, <1>9, <1>10, <1>11 DEF FeedIInv, Types

LEMMA ConnectKeeps == ASSUME FeedIInv, NEW s \in Slots, Connect(s) PROVE FeedIInv'
<1>1. ArraysType'
  BY DEF FeedIInv, Types, ArraysType, Connect
<1>2. FlagsType'
  BY FeedAssumption DEF FeedIInv, Types, FlagsType, Connect
<1>3. ListenerType'
  BY DEF FeedIInv, Types, ListenerType, ListenerRecords, Arrays, Connect
<1>4. HandlerType'
  BY DEF FeedIInv, Types, HandlerType, Arrays, Connect
<1>5. QueueType'
  BY DEF FeedIInv, Types, QueueType, Connect
<1>6. SentType'
  BY FeedAssumption DEF FeedIInv, Types, SentType, Connect
<1>7. GotType'
  BY DEF FeedIInv, Types, GotType, Connect
<1>8. BoundsType'
  BY FeedAssumption DEF FeedIInv, Types, BoundsType, Connect
<1>9. Places'
  BY DEF FeedIInv, Types, Places, ArraysType, ListenerType, BoundsType, Connect
<1>10. Serving'
  BY DEF FeedIInv, Types, Serving, FlagsType, HandlerType, Commands, NoCommand, Connect
<1>11. SentHonest'
  BY DEF FeedIInv, Types, SentHonest, SentType, FlagsType, Connect
<1>. QED
  BY <1>1, <1>2, <1>3, <1>4, <1>5, <1>6, <1>7, <1>8, <1>9, <1>10, <1>11 DEF FeedIInv, Types

LEMMA LeaveKeeps == ASSUME FeedIInv, NEW s \in Slots, Leave(s) PROVE FeedIInv'
<1>1. ArraysType'
  BY DEF FeedIInv, Types, ArraysType, Leave, Signal
<1>2. FlagsType'
  BY DEF FeedIInv, Types, FlagsType, Leave, Signal
<1>3. ListenerType'
  BY DEF FeedIInv, Types, ListenerType, ListenerRecords, Arrays, Leave, Signal
<1>4. HandlerType'
  BY DEF FeedIInv, Types, HandlerType, Arrays, Leave, Signal
<1>5. QueueType'
  BY DEF FeedIInv, Types, QueueType, Leave, Signal
<1>6. SentType'
  BY FeedAssumption DEF FeedIInv, Types, SentType, Leave, Signal
<1>7. GotType'
  <2>1. Unsent \in [1..MaxPrints -> Line \cup {NoLine}]
    BY DEF Unsent
  <2>. QED
    BY <2>1 DEF FeedIInv, Types, GotType, Leave
<1>8. BoundsType'
  BY FeedAssumption DEF FeedIInv, Types, BoundsType, Leave, Signal
<1>9. Places'
  BY DEF FeedIInv, Types, Places, ArraysType, ListenerType, BoundsType, Leave, Signal
<1>10. Serving'
  BY DEF FeedIInv, Types, Serving, FlagsType, HandlerType, Commands, NoCommand, Leave, Signal
<1>11. SentHonest'
  <2>1. \A a \in Arrays, x \in Slots : x # s => sent'[a][x] = sent[a][x] /\ got'[a][x] = got[a][x]
                                               /\ overtaken'[x] = overtaken[x]
    BY DEF Leave, FeedIInv, Types, SentType, GotType, FlagsType
  <2>2. \A a \in Arrays : sent'[a][s] = 0
    BY DEF Leave, FeedIInv, Types, SentType
  <2>. QED
    BY <2>1, <2>2 DEF FeedIInv, SentHonest
<1>. QED
  BY <1>1, <1>2, <1>3, <1>4, <1>5, <1>6, <1>7, <1>8, <1>9, <1>10, <1>11 DEF FeedIInv, Types

LEMMA RequestKeeps == ASSUME FeedIInv, NEW s \in Slots, Request(s) PROVE FeedIInv'
<1>1. ArraysType'
  BY DEF FeedIInv, Types, ArraysType, Request, Signal
<1>2. FlagsType'
  BY DEF FeedIInv, Types, FlagsType, Request, Signal
<1>3. ListenerType'
  BY DEF FeedIInv, Types, ListenerType, ListenerRecords, Arrays, Request, Signal
<1>4. HandlerType'
  BY DEF FeedIInv, Types, HandlerType, Arrays, Request, Signal
<1>5. QueueType'
  <2>1. [slot |-> s, kind |-> "TSTDAT", fd |-> threadFD[s]] \in Commands
    <3>1. threadFD[s] \in Descriptors
      BY DEF FeedIInv, Types, FlagsType, Request
    <3>. QED
      BY <3>1 DEF Commands
  <2>. QED
    BY <2>1, AppendProperties DEF FeedIInv, Types, QueueType, Request
<1>6. SentType'
  BY FeedAssumption DEF FeedIInv, Types, SentType, Request, Signal
<1>7. GotType'
  BY DEF FeedIInv, Types, GotType, Request, Signal
<1>8. BoundsType'
  BY FeedAssumption DEF FeedIInv, Types, BoundsType, Request, Signal
<1>9. Places'
  BY DEF FeedIInv, Types, Places, ArraysType, ListenerType, BoundsType, Request, Signal
<1>10. Serving'
  BY DEF FeedIInv, Types, Serving, FlagsType, HandlerType, Commands, NoCommand, Request, Signal
<1>11. SentHonest'
  BY DEF FeedIInv, Types, SentHonest, SentType, FlagsType, Request, Signal
<1>. QED
  BY <1>1, <1>2, <1>3, <1>4, <1>5, <1>6, <1>7, <1>8, <1>9, <1>10, <1>11 DEF FeedIInv, Types

LEMMA WaitKeeps == ASSUME FeedIInv, Wait PROVE FeedIInv'
<1>1. ArraysType'
  BY DEF FeedIInv, Types, ArraysType, Wait
<1>2. FlagsType'
  BY DEF FeedIInv, Types, FlagsType, Wait
<1>3. ListenerType'
  BY DEF FeedIInv, Types, ListenerType, ListenerRecords, Arrays, Wait
<1>4. HandlerType'
  BY DEF FeedIInv, Types, HandlerType, Arrays, Wait
<1>5. QueueType'
  BY DEF FeedIInv, Types, QueueType, Wait
<1>6. SentType'
  BY FeedAssumption DEF FeedIInv, Types, SentType, Wait
<1>7. GotType'
  BY DEF FeedIInv, Types, GotType, Wait
<1>8. BoundsType'
  BY FeedAssumption DEF FeedIInv, Types, BoundsType, Wait
<1>9. Places'
  BY DEF FeedIInv, Types, Places, ArraysType, ListenerType, BoundsType, Wait
<1>10. Serving'
  BY DEF FeedIInv, Types, Serving, FlagsType, HandlerType, Commands, NoCommand, Wait
<1>11. SentHonest'
  BY DEF FeedIInv, Types, SentHonest, SentType, FlagsType, Wait
<1>. QED
  BY <1>1, <1>2, <1>3, <1>4, <1>5, <1>6, <1>7, <1>8, <1>9, <1>10, <1>11 DEF FeedIInv, Types

LEMMA PeekKeeps == ASSUME FeedIInv, Peek PROVE FeedIInv'
<1>1. ArraysType'
  BY DEF FeedIInv, Types, ArraysType, Peek, Begin, BeginArray, NoCall
<1>2. FlagsType'
  BY DEF FeedIInv, Types, FlagsType, Peek, Begin, BeginArray, NoCall
<1>3. ListenerType'
  BY DEF FeedIInv, Types, ListenerType, ListenerRecords, Arrays, Peek, Begin, BeginArray, NoCall
<1>4. HandlerType'
  <2>1. CASE messageQueue # <<>> /\ live[Head(messageQueue).slot]
    BY <2>1, QueuePeeked, BeginIs DEF FeedIInv, Types, QueueType, HandlerType, Peek, Arrays
  <2>2. CASE ~(messageQueue # <<>> /\ live[Head(messageQueue).slot])
    BY <2>2 DEF FeedIInv, Types, HandlerType, Peek
  <2>. QED
    BY <2>1, <2>2
<1>5. QueueType'
  BY QueuePeeked, EmptySeq DEF FeedIInv, Types, QueueType, Peek
<1>6. SentType'
  <2>1. sent' = sent \/ \E s : sent' = [a \in Arrays |-> [sent[a] EXCEPT ![s] = 0]]
    BY DEF Peek, Begin
  <2>. QED
    BY <2>1, FeedAssumption DEF FeedIInv, Types, SentType
<1>7. GotType'
  BY DEF FeedIInv, Types, GotType, Peek, Begin, BeginArray, NoCall
<1>8. BoundsType'
  BY FeedAssumption DEF FeedIInv, Types, BoundsType, Peek, Begin, BeginArray, NoCall
<1>9. Places'
  BY DEF FeedIInv, Types, Places, ArraysType, ListenerType, BoundsType, Peek, Begin,
     BeginArray, NoCall
<1>10. Serving'
  <2>1. CASE messageQueue # <<>> /\ live[Head(messageQueue).slot]
    BY <2>1, QueuePeeked, BeginIs, CommandIs DEF FeedIInv, Types, QueueType, Serving, Peek
  <2>2. CASE ~(messageQueue # <<>> /\ live[Head(messageQueue).slot])
    BY <2>2 DEF FeedIInv, Serving, Peek
  <2>. QED
    BY <2>1, <2>2
<1>11. SentHonest'
  <2>1. CASE messageQueue # <<>> /\ live[Head(messageQueue).slot] /\ Head(messageQueue).kind = "TSTDAT"
    <3>. DEFINE s == Head(messageQueue).slot
    <3>1. s \in Slots
      BY <2>1, QueuePeeked, CommandIs DEF FeedIInv, Types, QueueType
    <3>2. \A a \in Arrays : sent'[a] = [sent[a] EXCEPT ![s] = 0]
      BY <2>1 DEF Peek, Begin
    <3>3. overtaken' = [overtaken EXCEPT ![s] = FALSE] /\ got' = got
      BY <2>1 DEF Peek, Begin
    <3>. HIDE DEF s
    <3>4. /\ \A a \in Arrays, x \in Slots : x # s => sent'[a][x] = sent[a][x]
          /\ \A x \in Slots : x # s => overtaken'[x] = overtaken[x]
      <4>1. \A a \in Arrays : sent[a] \in [Slots -> 0..MaxPrints]
        BY DEF FeedIInv, Types, SentType
      <4>2. overtaken \in [Slots -> BOOLEAN]
        BY DEF FeedIInv, Types, FlagsType
      <4>3. \A a \in Arrays, x \in Slots : x # s => sent'[a][x] = sent[a][x]
        BY <3>1, <3>2, <4>1
      <4>. QED
        BY <3>1, <3>3, <4>2, <4>3
    <3>5. \A a \in Arrays : sent'[a][s] = 0
      BY <3>1, <3>2 DEF FeedIInv, Types, SentType
    <3>. QED
      BY <3>3, <3>4, <3>5 DEF FeedIInv, SentHonest
  <2>2. CASE ~(messageQueue # <<>> /\ live[Head(messageQueue).slot] /\ Head(messageQueue).kind = "TSTDAT")
    <3>1. UNCHANGED <<sent, got, overtaken>>
      BY <2>2 DEF Peek, Begin
    <3>. QED
      BY <3>1 DEF FeedIInv, SentHonest
  <2>. QED
    BY <2>1, <2>2
<1>. QED
  BY <1>1, <1>2, <1>3, <1>4, <1>5, <1>6, <1>7, <1>8, <1>9, <1>10, <1>11 DEF FeedIInv, Types

LEMMA CompareKeeps == ASSUME FeedIInv, Compare PROVE FeedIInv'
<1>1. ArraysType'
  BY DEF FeedIInv, Types, ArraysType, Compare, NextArray, BeginArray, NoCall
<1>2. FlagsType'
  BY DEF FeedIInv, Types, FlagsType, Compare, NextArray, BeginArray, NoCall
<1>3. ListenerType'
  BY DEF FeedIInv, Types, ListenerType, ListenerRecords, Arrays, Compare, NextArray,
     BeginArray, NoCall
<1>4. HandlerType'
  BY NextArrayIs DEF FeedIInv, Types, HandlerType, Compare
<1>5. QueueType'
  BY DEF FeedIInv, Types, QueueType, Compare, NextArray, BeginArray, NoCall
<1>6. SentType'
  BY FeedAssumption DEF FeedIInv, Types, SentType, Compare, NextArray, BeginArray, NoCall
<1>7. GotType'
  BY DEF FeedIInv, Types, GotType, Compare, NextArray, BeginArray, NoCall
<1>8. BoundsType'
  BY FeedAssumption DEF FeedIInv, Types, BoundsType, Compare, NextArray, BeginArray, NoCall
<1>9. Places'
  BY DEF FeedIInv, Types, Places, ArraysType, ListenerType, BoundsType, Compare, NextArray,
     BeginArray, NoCall
<1>10. Serving'
  BY DEF FeedIInv, Types, Serving, FlagsType, HandlerType, Commands, NoCommand, Compare,
     NextArray, BeginArray, NoCall
<1>11. SentHonest'
  <2>1. cmd.slot \in Slots /\ arr \in Arrays
    BY CommandIs DEF FeedIInv, Types, HandlerType, Serving, Compare
  <2>2. \A a \in Arrays, x \in Slots : sent'[a][x] \in 0..MaxPrints /\ sent'[a][x] <= sent[a][x]
    <3>1. sent' = sent \/ (sent[arr][cmd.slot] >= 1
                          /\ sent' = [sent EXCEPT ![arr][cmd.slot] = sent[arr][cmd.slot] - 1])
      BY DEF Compare
    <3>2. \A a \in Arrays, x \in Slots : sent[a][x] \in 0..MaxPrints
      BY DEF FeedIInv, Types, SentType
    <3>3. CASE sent' = sent
      BY <3>2, <3>3
    <3>4. CASE /\ sent[arr][cmd.slot] >= 1
               /\ sent' = [sent EXCEPT ![arr][cmd.slot] = sent[arr][cmd.slot] - 1]
      <4>1. \A a \in Arrays, x \in Slots : ~(a = arr /\ x = cmd.slot) => sent'[a][x] = sent[a][x]
        BY <2>1, <3>4 DEF FeedIInv, Types, SentType
      <4>2. sent'[arr][cmd.slot] = sent[arr][cmd.slot] - 1 /\ sent[arr][cmd.slot] \in 1..MaxPrints
        <5>1. sent'[arr] = [sent[arr] EXCEPT ![cmd.slot] = sent[arr][cmd.slot] - 1]
          BY <2>1, <3>4 DEF FeedIInv, Types, SentType
        <5>2. sent[arr] \in [Slots -> 0..MaxPrints]
          BY <2>1 DEF FeedIInv, Types, SentType
        <5>. QED
          BY <2>1, <3>4, <5>1, <5>2, FeedAssumption
      <4>3. sent'[arr][cmd.slot] \in 0..MaxPrints /\ sent'[arr][cmd.slot] <= sent[arr][cmd.slot]
        BY <4>2, FeedAssumption
      <4>4. \A a \in Arrays, x \in Slots : sent[a][x] <= sent[a][x]
        BY <3>2, FeedAssumption
      <4>. QED
        BY <3>2, <4>1, <4>3, <4>4
    <3>. QED
      BY <3>1, <3>3, <3>4
  <2>3. UNCHANGED <<got, overtaken>>
    BY DEF Compare
  <2>. QED
    BY <2>2, <2>3 DEF FeedIInv, SentHonest, Types, SentType
<1>. QED
  BY <1>1, <1>2, <1>3, <1>4, <1>5, <1>6, <1>7, <1>8, <1>9, <1>10, <1>11 DEF FeedIInv, Types

LEMMA CallKeeps == ASSUME FeedIInv, Call PROVE FeedIInv'
<1>1. ArraysType'
  BY DEF FeedIInv, Types, ArraysType, Call, NextArray, BeginArray, NoCall
<1>2. FlagsType'
  BY DEF FeedIInv, Types, FlagsType, Call, NextArray, BeginArray, NoCall
<1>3. ListenerType'
  BY DEF FeedIInv, Types, ListenerType, ListenerRecords, Arrays, Call, NextArray, BeginArray,
     NoCall
<1>4. HandlerType'
  <2>1. CASE sent[arr][cmd.slot] >= count[arr]
    BY <2>1, NextArrayIs DEF FeedIInv, Types, HandlerType, Call
  <2>2. CASE ~(sent[arr][cmd.slot] >= count[arr])
    BY <2>2 DEF FeedIInv, Types, HandlerType, ArraysType, Call
  <2>. QED
    BY <2>1, <2>2
<1>5. QueueType'
  BY DEF FeedIInv, Types, QueueType, Call, NextArray, BeginArray, NoCall
<1>6. SentType'
  BY FeedAssumption DEF FeedIInv, Types, SentType, Call, NextArray, BeginArray, NoCall
<1>7. GotType'
  BY DEF FeedIInv, Types, GotType, Call, NextArray, BeginArray, NoCall
<1>8. BoundsType'
  BY FeedAssumption DEF FeedIInv, Types, BoundsType, Call, NextArray, BeginArray, NoCall
<1>9. Places'
  BY DEF FeedIInv, Types, Places, ArraysType, ListenerType, BoundsType, Call, NextArray,
     BeginArray, NoCall
<1>10. Serving'
  <2>1. CASE sent[arr][cmd.slot] >= count[arr]
    BY <2>1, NextArrayIs DEF FeedIInv, Serving, Call
  <2>2. CASE ~(sent[arr][cmd.slot] >= count[arr])
    BY <2>2 DEF FeedIInv, Types, Serving, HandlerType, ArraysType, Call
  <2>. QED
    BY <2>1, <2>2
<1>11. SentHonest'
  BY DEF FeedIInv, Types, SentHonest, SentType, FlagsType, Call, NextArray, BeginArray, NoCall
<1>. QED
  BY <1>1, <1>2, <1>3, <1>4, <1>5, <1>6, <1>7, <1>8, <1>9, <1>10, <1>11 DEF FeedIInv, Types

\* What the connections have when a batch was sent: the one with the command's descriptor
\* has its lines, as they are now, the others what they had.
LEMMA GotSent ==
  ASSUME FeedIInv, SendTestData
  PROVE  /\ got' \in [Arrays -> [Slots -> [1..MaxPrints -> Line \cup {NoLine}]]]
         /\ \A a \in Arrays, x \in Slots, i \in 1..MaxPrints :
              got'[a][x][i] = IF /\ a = arr /\ threadFD[x] = cmd.fd
                                 /\ i \in sent[arr][cmd.slot] + 1..call.end
                              THEN lines'[arr][i] ELSE got[a][x][i]
<1>. DEFINE batch == sent[arr][cmd.slot] + 1..call.end
            new == [x \in Slots |-> [i \in 1..MaxPrints |->
                     IF threadFD[x] = cmd.fd /\ i \in batch THEN lines'[arr][i] ELSE got[arr][x][i]]]
<1>1. arr \in Arrays /\ got \in [Arrays -> [Slots -> [1..MaxPrints -> Line \cup {NoLine}]]]
  BY DEF FeedIInv, Types, HandlerType, GotType
<1>2. \A i \in batch : lines'[arr][i] \in Line
  BY LinesSentAre
<1>3. got' = [got EXCEPT ![arr] = new]
  <2>1. new = [x \in Slots |-> [i \in 1..MaxPrints |->
                IF x \in {y \in Slots : threadFD[y] = cmd.fd} /\ i \in batch
                THEN lines'[arr][i] ELSE got[arr][x][i]]]
    OBVIOUS
  <2>. QED
    BY <2>1 DEF SendTestData
<1>4. \A x \in Slots : \A i \in 1..MaxPrints :
        new[x][i] = IF threadFD[x] = cmd.fd /\ i \in batch THEN lines'[arr][i] ELSE got[arr][x][i]
  OBVIOUS
<1>5. new \in [Slots -> [1..MaxPrints -> Line \cup {NoLine}]]
  <2>. SUFFICES ASSUME NEW x \in Slots, NEW i \in 1..MaxPrints
                PROVE  (IF threadFD[x] = cmd.fd /\ i \in batch THEN lines'[arr][i]
                        ELSE got[arr][x][i]) \in Line \cup {NoLine}
    OBVIOUS
  <2>. HIDE DEF batch
  <2>1. got[arr][x][i] \in Line \cup {NoLine}
    <3>1. got[arr] \in [Slots -> [1..MaxPrints -> Line \cup {NoLine}]]
      BY <1>1
    <3>2. got[arr][x] \in [1..MaxPrints -> Line \cup {NoLine}]
      BY <3>1
    <3>. QED
      BY <3>2
  <2>2. i \in batch => lines'[arr][i] \in Line
    BY <1>2
  <2>. QED
    BY <2>1, <2>2, Zenon
<1>. HIDE DEF new, batch
<1>6. got' \in [Arrays -> [Slots -> [1..MaxPrints -> Line \cup {NoLine}]]]
  BY <1>1, <1>3, <1>5
<1>7. \A a \in Arrays : got'[a] = IF a = arr THEN new ELSE got[a]
  BY <1>1, <1>3
<1>. QED
  BY <1>4, <1>6, <1>7 DEF batch

LEMMA SendTestDataKeeps == ASSUME FeedIInv, SendTestData PROVE FeedIInv'
<1>1. ArraysType'
  BY LinesSentAre DEF FeedIInv, Types, ArraysType, SendTestData
<1>2. FlagsType'
  BY DEF FeedIInv, Types, FlagsType, SendTestData, NextArray, BeginArray, NoCall
<1>3. ListenerType'
  BY DEF FeedIInv, Types, ListenerType, ListenerRecords, Arrays, SendTestData, NextArray,
     BeginArray, NoCall
<1>4. HandlerType'
  <2>1. served' \in BOOLEAN
    BY DEF FeedIInv, Types, HandlerType, SendTestData
  <2>. QED
    BY <2>1, NextArrayIs DEF FeedIInv, Types, HandlerType, SendTestData
<1>5. QueueType'
  BY DEF FeedIInv, Types, QueueType, SendTestData, NextArray, BeginArray, NoCall
<1>6. SentType'
  BY DEF FeedIInv, Types, SentType, HandlerType, SendTestData
<1>7. GotType'
  BY GotSent DEF GotType
<1>8. BoundsType'
  BY FeedAssumption DEF FeedIInv, Types, BoundsType, SendTestData, NextArray, BeginArray, NoCall
<1>9. Places'
  BY DEF FeedIInv, Types, Places, ArraysType, ListenerType, BoundsType, SendTestData,
     NextArray, BeginArray, NoCall
<1>10. Serving'
  BY DEF FeedIInv, Types, Serving, FlagsType, HandlerType, Commands, NoCommand, SendTestData,
     NextArray, BeginArray, NoCall
<1>11. SentHonest'
  <2>. DEFINE s == cmd.slot
  <2>1. /\ s \in Slots /\ arr \in Arrays /\ call.end \in 0..MaxPrints
        /\ overtaken' = [overtaken EXCEPT ![s] = overtaken[s] \/ threadFD[s] # cmd.fd]
    BY CommandIs DEF FeedIInv, Types, HandlerType, Serving, SendTestData
  <2>2. \A a \in Arrays, x \in Slots :
          /\ sent[a][x] \in 0..MaxPrints
          /\ ~(a = arr /\ x = s) => sent'[a][x] = sent[a][x]
    BY <2>1 DEF FeedIInv, Types, SentType, SendTestData
  <2>3. sent'[arr][s] = call.end
    BY <2>1 DEF FeedIInv, Types, SentType, SendTestData
  <2>4. \A x \in Slots : ~overtaken'[x] => ~overtaken[x] /\ (x = s => threadFD[s] = cmd.fd)
    BY <2>1 DEF FeedIInv, Types, FlagsType
  <2>5. \A i \in sent[arr][s] + 1..call.end : lines'[arr][i] # NoLine
    BY LinesSentAre, LineRecord
  <2>. HIDE DEF s
  <2>6. ASSUME NEW a \in Arrays, NEW x \in Slots, ~overtaken'[x], NEW i \in 1..sent'[a][x]
        PROVE  got'[a][x][i] # NoLine
    <3>0. sent'[a][x] \in 0..MaxPrints /\ call.end \in Int
      <4>1. call.end \in 0..MaxPrints /\ call.end \in Int
        BY <2>1, FeedAssumption
      <4>2. CASE a = arr /\ x = s
        BY <2>3, <4>1, <4>2
      <4>3. CASE ~(a = arr /\ x = s)
        <5>1. sent'[a][x] = sent[a][x] /\ sent[a][x] \in 0..MaxPrints
          BY <2>2, <2>6, <4>3, Zenon
        <5>. QED
          BY <4>1, <5>1
      <4>. QED
        BY <4>2, <4>3
    <3>1. i \in 1..MaxPrints /\ i \in 1..sent'[a][x]
      BY <2>6, <3>0, FeedAssumption
    <3>2. got'[a][x][i] = IF a = arr /\ threadFD[x] = cmd.fd /\ i \in sent[arr][s] + 1..call.end
                          THEN lines'[arr][i] ELSE got[a][x][i]
      BY <3>1, GotSent DEF s
    <3>3. CASE i \in 1..sent[a][x]
      BY <2>4, <2>5, <2>6, <3>2, <3>3 DEF FeedIInv, SentHonest
    <3>4. CASE ~(i \in 1..sent[a][x])
      <4>1. a = arr /\ x = s
        <5>. SUFFICES ASSUME ~(a = arr /\ x = s) PROVE FALSE
          OBVIOUS
        <5>1. sent'[a][x] = sent[a][x]
          BY <2>2, <2>6, Zenon
        <5>. QED
          BY <3>1, <3>4, <5>1
      <4>3. i \in 1..call.end /\ ~(i \in 1..sent[arr][s]) /\ sent[arr][s] \in 0..MaxPrints
        <5>1. sent'[a][x] = call.end
          BY <2>3, <4>1
        <5>2. sent[arr][s] \in 0..MaxPrints
          BY <2>1, <2>2, Zenon
        <5>3. sent[a][x] = sent[arr][s]
          BY <4>1
        <5>. QED
          BY <3>1, <3>4, <5>1, <5>2, <5>3
      <4>2. i \in sent[arr][s] + 1..call.end
        BY <3>0, <4>3, FeedAssumption
      <4>. QED
        BY <2>4, <2>5, <2>6, <3>2, <4>1, <4>2
    <3>. QED
      BY <3>3, <3>4
  <2>. QED
    BY <2>6 DEF SentHonest
<1>. QED
  BY <1>1, <1>2, <1>3, <1>4, <1>5, <1>6, <1>7, <1>8, <1>9, <1>10, <1>11 DEF FeedIInv, Types

LEMMA SendStaleKeeps == ASSUME FeedIInv, SendStale PROVE FeedIInv'
<1>1. ArraysType'
  BY DEF FeedIInv, Types, ArraysType, SendStale
<1>2. FlagsType'
  BY DEF FeedIInv, Types, FlagsType, SendStale
<1>3. ListenerType'
  BY DEF FeedIInv, Types, ListenerType, ListenerRecords, Arrays, SendStale
<1>4. HandlerType'
  BY DEF FeedIInv, Types, HandlerType, Arrays, SendStale
<1>5. QueueType'
  BY DEF FeedIInv, Types, QueueType, SendStale
<1>6. SentType'
  BY FeedAssumption DEF FeedIInv, Types, SentType, SendStale
<1>7. GotType'
  BY DEF FeedIInv, Types, GotType, SendStale
<1>8. BoundsType'
  BY FeedAssumption DEF FeedIInv, Types, BoundsType, SendStale
<1>9. Places'
  BY DEF FeedIInv, Types, Places, ArraysType, ListenerType, BoundsType, SendStale
<1>10. Serving'
  BY DEF FeedIInv, Types, Serving, FlagsType, HandlerType, Commands, NoCommand, SendStale
<1>11. SentHonest'
  BY DEF FeedIInv, Types, SentHonest, SentType, FlagsType, SendStale
<1>. QED
  BY <1>1, <1>2, <1>3, <1>4, <1>5, <1>6, <1>7, <1>8, <1>9, <1>10, <1>11 DEF FeedIInv, Types

LEMMA FinishKeeps == ASSUME FeedIInv, Finish PROVE FeedIInv'
<1>1. ArraysType'
  BY DEF FeedIInv, Types, ArraysType, Finish
<1>2. FlagsType'
  BY DEF FeedIInv, Types, FlagsType, Finish
<1>3. ListenerType'
  BY DEF FeedIInv, Types, ListenerType, ListenerRecords, Arrays, Finish
<1>4. HandlerType'
  BY DEF FeedIInv, Types, HandlerType, Arrays, Finish
<1>5. QueueType'
  BY DEF FeedIInv, Types, QueueType, Finish
<1>6. SentType'
  BY FeedAssumption DEF FeedIInv, Types, SentType, Finish
<1>7. GotType'
  BY DEF FeedIInv, Types, GotType, Finish
<1>8. BoundsType'
  BY FeedAssumption DEF FeedIInv, Types, BoundsType, Finish
<1>9. Places'
  BY DEF FeedIInv, Types, Places, ArraysType, ListenerType, BoundsType, Finish
<1>10. Serving'
  BY DEF FeedIInv, Types, Serving, FlagsType, HandlerType, Commands, NoCommand, Finish
<1>11. SentHonest'
  BY DEF FeedIInv, Types, SentHonest, SentType, FlagsType, Finish
<1>. QED
  BY <1>1, <1>2, <1>3, <1>4, <1>5, <1>6, <1>7, <1>8, <1>9, <1>10, <1>11 DEF FeedIInv, Types

LEMMA UpdateTestDataQueueKeeps == ASSUME FeedIInv, UpdateTestDataQueue PROVE FeedIInv'
<1>1. ArraysType'
  BY TextChanged DEF FeedIInv, Types, ArraysType, UpdateTestDataQueue
<1>2. FlagsType'
  BY DEF FeedIInv, Types, FlagsType, UpdateTestDataQueue, UpdateUserQueues, Idle
<1>3. ListenerType'
  BY ListenerAtRest DEF FeedIInv, Types, ListenerType, UpdateTestDataQueue,
     UpdateUserQueues
<1>4. HandlerType'
  BY DEF FeedIInv, Types, HandlerType, Arrays, UpdateTestDataQueue, UpdateUserQueues, Idle
<1>5. QueueType'
  BY DEF FeedIInv, Types, QueueType, UpdateTestDataQueue, UpdateUserQueues, Idle
<1>6. SentType'
  BY FeedAssumption DEF FeedIInv, Types, SentType, UpdateTestDataQueue, UpdateUserQueues, Idle
<1>7. GotType'
  BY DEF FeedIInv, Types, GotType, UpdateTestDataQueue, UpdateUserQueues, Idle
<1>8. BoundsType'
  BY FeedAssumption DEF FeedIInv, Types, BoundsType, UpdateTestDataQueue, UpdateUserQueues, Idle
<1>9. Places'
  <2>1. count' = count /\ printed' = printed + 1 /\ printed \in Nat
        /\ \A a \in Arrays : count[a] \in Nat
    BY FeedAssumption DEF UpdateTestDataQueue, FeedIInv, Types, ArraysType, BoundsType
  <2>2. \A a \in Arrays : count'[a] <= printed'
    BY <2>1 DEF FeedIInv, Places
  <2>. QED
    BY <2>1, <2>2, ListenerAtRest DEF FeedIInv, Places, UpdateTestDataQueue, UpdateUserQueues
<1>10. Serving'
  <2>1. pc' = "send" => call'.end <= Len(lines'[arr'])
    <3>1. pc' = pc /\ call' = call /\ arr' = arr
      BY DEF UpdateTestDataQueue
    <3>2. Len(lines'[arr]) = Len(lines[arr])
      BY TextChanged DEF FeedIInv, Types, HandlerType
    <3>. QED
      BY <3>1, <3>2 DEF FeedIInv, Serving
  <2>. QED
    BY <2>1 DEF FeedIInv, Serving, UpdateTestDataQueue
<1>11. SentHonest'
  BY DEF FeedIInv, Types, SentHonest, SentType, FlagsType, UpdateTestDataQueue,
     UpdateUserQueues, Idle
<1>. QED
  BY <1>1, <1>2, <1>3, <1>4, <1>5, <1>6, <1>7, <1>8, <1>9, <1>10, <1>11 DEF FeedIInv, Types

LEMMA UpdateStatusKeeps ==
  ASSUME FeedIInv, NEW status \in {"Passed", "FAILED"}, UpdateStatus(status)
  PROVE  FeedIInv'
<1>1. /\ UNCHANGED <<testType, isBurnout, previous, messageQueue, pc, cmd, arr, call, served>>
      /\ UNCHANGED <<live, threadFD, got, overtaken, missed, late, viewing, sent>>
      /\ UNCHANGED <<printed, asked, left, lost>>
      /\ script' = "any" /\ lockHeld' \in BOOLEAN /\ listener.at = "idle"
  BY DEF UpdateStatus, UpdateTestDataStatus, UpdateDiagnosticDataStatus, FeedIInv, Types, FlagsType
<1>2. /\ lines' \in [Arrays -> Seq(Line)] /\ \A a \in Arrays : Len(lines'[a]) = Len(lines[a])
      /\ count' \in [Arrays -> 0..MaxPrints] /\ \A a \in Arrays : count'[a] <= count[a]
      /\ \A a \in Arrays : count'[a] # count[a] => previous # "DIAG"
      /\ listener' \in ListenerRecords /\ listener'.at # "check"
      /\ listener'.at \in {"start", "push", "add"} => listener'.kind \in {"TSTDAX", "SINGLX"}
      /\ listener'.at # "add"
  <2>1. CASE \E a \in Arrays : StatusWritten(a, status)
    <3>0. PICK a \in Arrays : StatusWritten(a, status)
      BY <2>1
    <3>1. \A b \in Arrays : count[b] <= count[b]
      BY DEF FeedIInv, Types, ArraysType
    <3>2. /\ lines' \in [Arrays -> Seq(Line)] /\ \A b \in Arrays : Len(lines'[b]) = Len(lines[b])
          /\ count' = count
      <4>1. count' = count
        BY <3>0 DEF StatusWritten
      <4>. QED
        BY <3>0, <4>1, StatusChanged
    <3>3. PICK k \in {"TSTDAX", "SINGLX"} : listener' = [Idle EXCEPT !.at = "start", !.kind = k]
      BY <3>0 DEF StatusWritten, UpdateUserQueues
    <3>. QED
      BY <3>1, <3>2, <3>3, ListenerAtRest DEF FeedIInv, Types, ArraysType
  <2>2. CASE LineTakenBack
    <3>1. "TEST" \in Arrays /\ count["TEST"] \in 1..MaxPrints
      BY <2>2, FeedAssumption DEF LineTakenBack, FeedIInv, Types, ArraysType, Places, Arrays
    <3>2. \A a \in Arrays : count[a] \in 0..MaxPrints
      BY DEF FeedIInv, Types, ArraysType
    <3>3. /\ count' \in [Arrays -> 0..MaxPrints] /\ count'["TEST"] = count["TEST"] - 1
          /\ \A a \in Arrays : a # "TEST" => count'[a] = count[a]
      BY <2>2, <3>1, FeedAssumption DEF LineTakenBack, FeedIInv, Types, ArraysType
    <3>4. \A a \in Arrays : count'[a] <= count[a]
      BY <3>1, <3>2, <3>3, FeedAssumption
    <3>. QED
      BY <1>1, <2>2, <3>3, <3>4
      DEF LineTakenBack, FeedIInv, Types, ArraysType, ListenerType
  <2>3. CASE StatusDropped
    <3>1. \A a \in Arrays : count[a] <= count[a]
      BY DEF FeedIInv, Types, ArraysType
    <3>. QED
      BY <1>1, <2>3, <3>1 DEF StatusDropped, FeedIInv, Types, ArraysType, ListenerType
  <2>. QED
    BY <2>1, <2>2, <2>3, StatusCases
<1>3. \A a \in Arrays : count[a] \in Nat /\ count'[a] \in Nat /\ Len(lines[a]) \in Nat
  BY <1>2, LenProperties, FeedAssumption DEF FeedIInv, Types, ArraysType
<1>4. Types'
  <2>1. ArraysType'
    BY <1>2, <1>3 DEF ArraysType, FeedIInv, Types
  <2>2. FlagsType' /\ ListenerType'
    BY <1>1, <1>2 DEF FeedIInv, Types, FlagsType, ListenerType
  <2>3. HandlerType' /\ QueueType' /\ SentType' /\ GotType' /\ BoundsType'
    BY <1>1 DEF FeedIInv, Types, HandlerType, QueueType, SentType, GotType, BoundsType
  <2>. QED
    BY <2>1, <2>2, <2>3 DEF Types
<1>5. Places'
  <2>1. \A a \in Arrays : count'[a] <= printed'
    BY <1>1, <1>2, <1>3, FeedAssumption DEF FeedIInv, Places, Types, BoundsType
  <2>2. previous' = "DIAG" => isBurnout' \/ count'["DIAG"] > 0
    BY <1>1, <1>2 DEF FeedIInv, Places, Arrays
  <2>. QED
    BY <1>1, <1>2, <2>1, <2>2 DEF FeedIInv, Places
<1>6. Serving'
  BY <1>1, <1>2 DEF FeedIInv, Serving, Types, HandlerType
<1>7. SentHonest'
  BY <1>1 DEF FeedIInv, SentHonest
<1>. QED
  BY <1>4, <1>5, <1>6, <1>7 DEF FeedIInv

LEMMA TestOutputKeeps ==
  ASSUME FeedIInv, TestOutput
  PROVE  FeedIInv'
<1>1. PICK a \in Arrays, nl \in BOOLEAN, next \in {"any", "line", "failure"} :
        /\ QueueData(a, nl, next)
        /\ next = "line" => a = "TEST" \/ (script = "line" /\ Debug)
        /\ next = "failure" => a = "DIAG" /\ testType = "FUNCTIONAL"
  BY TestOutputIs
<1>2. /\ UNCHANGED <<testType, isBurnout, lockHeld, messageQueue, pc, cmd, arr, served>>
      /\ UNCHANGED <<live, threadFD, got, overtaken, missed, viewing, sent>>
      /\ UNCHANGED <<asked, left, lost>>
      /\ script' = next /\ previous' = a /\ printed' = printed + 1
  BY <1>1 DEF QueueData
<1>3. printed \in Nat /\ printed' \in 0..MaxPrints /\ listener.at = "idle"
  BY <1>1, FeedAssumption DEF QueueData, FeedIInv, Types, BoundsType
<1>4. /\ lines' \in [Arrays -> Seq(Line)] /\ \A b \in Arrays : Len(lines'[b]) >= Len(lines[b])
      /\ count' \in [Arrays -> 0..MaxPrints] /\ \A b \in Arrays : count'[b] <= Len(lines'[b])
      /\ \A b \in Arrays : count'[b] <= printed'
      /\ \A b \in Arrays : count'[b] >= count[b]
      /\ count'[a] > 0 \/ (a = "DIAG" /\ isBurnout)
      /\ listener' \in ListenerRecords /\ listener'.at \notin {"start", "push", "add"}
      /\ listener'.at = "check" => count'[listener'.array] > 0
      /\ call'.end = call.end /\ call' \in [end : 0..MaxPrints, stale : BOOLEAN]
  <2>1. /\ \A b \in Arrays : count[b] \in Nat /\ count[b] <= printed /\ Len(lines[b]) \in Nat
        /\ \A b \in Arrays : count[b] <= Len(lines[b])
        /\ lines \in [Arrays -> Seq(Line)] /\ count \in [Arrays -> 0..MaxPrints]
    BY LenProperties, FeedAssumption DEF FeedIInv, Types, ArraysType, Places
  <2>2. call \in [end : 0..MaxPrints, stale : BOOLEAN]
    BY DEF FeedIInv, Types, HandlerType
  <2>3. CASE a = "DIAG" /\ isBurnout
    <3>1. lines' = lines /\ count' = count /\ call' = call /\ listener' = listener
      BY <1>1, <2>3 DEF QueueData
    <3>2. \A b \in Arrays : count[b] <= printed + 1 /\ count[b] >= count[b]
                             /\ Len(lines[b]) >= Len(lines[b])
      BY <1>3, <2>1
    <3>. QED
      BY <1>2, <1>3, <2>1, <2>2, <2>3, <3>1, <3>2 DEF FeedIInv, Types, ListenerType
  <2>4. CASE ~(a = "DIAG" /\ isBurnout)
    <3>. DEFINE n == count[a] + 1
    <3>1. /\ lines' \in [Arrays -> Seq(Line)]
          /\ Len(lines'[a]) = IF n <= Len(lines[a]) THEN Len(lines[a]) ELSE n
          /\ \A b \in Arrays : b # a => lines'[b] = lines[b]
          /\ n \in 1..MaxPrints /\ n <= Len(lines'[a])
          /\ count' = [count EXCEPT ![a] = n] /\ n <= printed + 1
      BY <1>1, <2>4, LineQueued
    <3>2. /\ count' \in [Arrays -> 0..MaxPrints] /\ count'[a] = n
          /\ \A b \in Arrays : b # a => count'[b] = count[b]
      BY <2>1, <3>1, FeedAssumption
    <3>3. /\ listener' = [Idle EXCEPT !.at = "check", !.array = a]
          /\ call' = [call EXCEPT !.stale = call.stale \/ (pc = "send" /\ arr = a)]
      BY <1>1, <2>4 DEF QueueData
    <3>4. call'.end = call.end /\ call' \in [end : 0..MaxPrints, stale : BOOLEAN]
      BY <2>2, <3>3
    <3>5. n \in Nat /\ n > 0 /\ n >= count[a] /\ Len(lines'[a]) >= Len(lines[a])
      BY <2>1, <3>1
    <3>6. \A b \in Arrays : count'[b] <= printed' /\ count'[b] >= count[b]
                             /\ count'[b] <= Len(lines'[b]) /\ Len(lines'[b]) >= Len(lines[b])
      BY <1>2, <1>3, <2>1, <3>1, <3>2, <3>5
    <3>7. /\ listener' \in ListenerRecords /\ listener'.at = "check" /\ listener'.array = a
      BY <3>3, ListenerAtRest
    <3>. HIDE DEF n
    <3>. QED
      BY <3>1, <3>2, <3>4, <3>5, <3>6, <3>7
  <2>. QED
    BY <2>3, <2>4
<1>5. Types'
  <2>1. ArraysType'
    BY <1>4 DEF ArraysType
  <2>2. FlagsType' /\ ListenerType'
    <3>1. late \subseteq 0..MaxPrints /\ count[a] \in 0..MaxPrints
      BY DEF FeedIInv, Types, FlagsType, ArraysType
    <3>2. late' \subseteq 0..MaxPrints
      BY <1>1, <3>1 DEF QueueData
    <3>. QED
      BY <1>2, <1>4, <3>2 DEF FeedIInv, Types, FlagsType, ListenerType
  <2>3. HandlerType'
    BY <1>2, <1>4 DEF FeedIInv, Types, HandlerType
  <2>4. QueueType' /\ SentType' /\ GotType' /\ BoundsType'
    BY <1>2, <1>3 DEF FeedIInv, Types, QueueType, SentType, GotType, BoundsType
  <2>. QED
    BY <2>1, <2>2, <2>3, <2>4 DEF Types
<1>6. Places'
  <2>1. "TEST" \in Arrays /\ "DIAG" \in Arrays /\ a \in {"TEST", "DIAG"}
        /\ \A b \in Arrays : count[b] \in Int /\ count'[b] \in Int
    BY <1>4 DEF Arrays, FeedIInv, Types, ArraysType
  <2>2. script' = "line" => count'["TEST"] > 0
    <3>1. script = "line" => count["TEST"] > 0
      BY DEF FeedIInv, Places
    <3>. QED
      BY <1>1, <1>2, <1>4, <2>1, <3>1
  <2>3. script' = "failure" => previous' = "DIAG" /\ testType' = "FUNCTIONAL"
    BY <1>1, <1>2
  <2>4. previous' = "DIAG" => isBurnout' \/ count'["DIAG"] > 0
    BY <1>2, <1>4
  <2>5. isBurnout' => testType' = "BURNIN"
    BY <1>2 DEF FeedIInv, Places
  <2>. QED
    BY <1>4, <2>2, <2>3, <2>4, <2>5 DEF Places
<1>7. Serving'
  <2>1. pc' = "send" => call'.end <= Len(lines'[arr'])
    <3>1. pc = "send" => call.end <= Len(lines[arr])
      BY DEF FeedIInv, Serving
    <3>2. arr \in Arrays /\ call.end \in Int
      BY DEF FeedIInv, Types, HandlerType
    <3>3. Len(lines[arr]) \in Int /\ Len(lines'[arr]) \in Int
      BY <1>4, <3>2, LenProperties DEF FeedIInv, Types, ArraysType
    <3>. QED
      BY <1>2, <1>4, <3>1, <3>2, <3>3
  <2>. QED
    BY <1>2, <2>1 DEF FeedIInv, Serving
<1>8. SentHonest'
  BY <1>2 DEF FeedIInv, SentHonest
<1>. QED
  BY <1>5, <1>6, <1>7, <1>8 DEF FeedIInv

LEMMA StutterKeeps ==
  ASSUME FeedIInv, UNCHANGED vars
  PROVE  FeedIInv'
<1>1. Types'
  BY DEF FeedIInv, Types, ArraysType, FlagsType, ListenerType, HandlerType, QueueType, SentType,
     GotType, BoundsType, vars
<1>2. Places'
  BY DEF FeedIInv, Places, vars
<1>3. Serving'
  BY DEF FeedIInv, Serving, vars
<1>4. SentHonest'
  BY DEF FeedIInv, SentHonest, vars
<1>. QED
  BY <1>1, <1>2, <1>3, <1>4 DEF FeedIInv

LEMMA FeedStep == FeedIInv /\ [Next]_vars => FeedIInv'
<1> SUFFICES ASSUME FeedIInv, [Next]_vars PROVE FeedIInv'
  OBVIOUS
<1>1. CASE TestOutput
  BY <1>1, TestOutputKeeps
<1>2. CASE UpdateTestDataQueue
  BY <1>2, UpdateTestDataQueueKeeps
<1>3. ASSUME NEW status \in {"Passed", "FAILED"}, UpdateStatus(status) PROVE FeedIInv'
  BY <1>3, UpdateStatusKeeps
<1>4. CASE Lose
  BY <1>4, LoseKeeps
<1>5. CASE SetBurnoutTest
  BY <1>5, SetBurnoutTestKeeps
<1>6. CASE ListenerStep
  BY <1>6, CheckNewlineKeeps, StartUpdateKeeps, ReadDescriptorKeeps, PushUpdateKeeps,
     SignalUpdateKeeps
  DEF ListenerStep
<1>7. ASSUME NEW s \in Slots, Connect(s) \/ Leave(s) \/ Request(s) PROVE FeedIInv'
  BY <1>7, ConnectKeeps, LeaveKeeps, RequestKeeps
<1>8. CASE HandlerStep
  BY <1>8, WaitKeeps, PeekKeeps, CompareKeeps, CallKeeps, SendTestDataKeeps, SendStaleKeeps,
     FinishKeeps DEF HandlerStep
<1>9. CASE UNCHANGED vars
  BY <1>9, StutterKeeps
<1>. QED
  BY <1>1, <1>2, <1>3, <1>4, <1>5, <1>6, <1>7, <1>8, <1>9 DEF Next

LEMMA SteadyFrame ==
  ASSUME Steady, left' = left, live' = live, threadFD' = threadFD,
         overtaken' = overtaken, messageQueue' = messageQueue,
         cmd' \in {cmd, NoCommand}, listener'.at = "add" => listener' = listener
  PROVE  Steady'
BY DEF Steady

LEMMA InitSteady == Init => Steady
<1> SUFFICES ASSUME Init PROVE Steady
  OBVIOUS
<1>1. DOMAIN messageQueue = {}
  BY DEF Init
<1>. QED
  BY <1>1 DEF Init, Steady, Idle

\* A command at the end of the queue that goes to its slot's connection.
LEMMA SteadyAppended ==
  ASSUME FeedIInv, Steady, left' = left, live' = live, threadFD' = threadFD,
         overtaken' = overtaken, cmd' = cmd, NEW m \in Commands,
         left = 0 => m.fd = threadFD[m.slot],
         messageQueue' = Append(messageQueue, m), listener'.at = "add" => listener' = listener
  PROVE  Steady'
<1>1. messageQueue \in Seq(Commands) /\ Len(messageQueue) \in Nat
      /\ DOMAIN messageQueue = 1..Len(messageQueue)
  BY LenProperties DEF FeedIInv, Types, QueueType
<1>2. /\ DOMAIN messageQueue' = 1..Len(messageQueue) + 1
      /\ \A k \in 1..Len(messageQueue) : messageQueue'[k] = messageQueue[k]
      /\ messageQueue'[Len(messageQueue) + 1] = m
  BY <1>1, AppendProperties, LenProperties
<1>3. \A k \in DOMAIN messageQueue' : k \in DOMAIN messageQueue \/ k = Len(messageQueue) + 1
  BY <1>1, <1>2
<1>. QED
  BY <1>1, <1>2, <1>3 DEF Steady

LEMMA SteadyStep == FeedIInv /\ Steady /\ [Next]_vars => Steady'
<1> SUFFICES ASSUME FeedIInv, Steady, [Next]_vars PROVE Steady'
  OBVIOUS
<1>1. CASE TestOutput
  <2>1. PICK a \in Arrays, nl \in BOOLEAN, next \in {"any", "line", "failure"} :
          QueueData(a, nl, next)
    BY <1>1, TestOutputIs
  <2>2. listener'.at # "add"
    BY <2>1, ListenerAtRest DEF QueueData
  <2>. QED
    BY <2>1, <2>2, SteadyFrame DEF QueueData
<1>2. CASE UpdateTestDataQueue
  <2>1. listener'.at # "add"
    BY <1>2, ListenerAtRest DEF UpdateTestDataQueue, UpdateUserQueues
  <2>. QED
    BY <1>2, <2>1, SteadyFrame DEF UpdateTestDataQueue
<1>3. ASSUME NEW status \in {"Passed", "FAILED"}, UpdateStatus(status) PROVE Steady'
  <2>1. listener'.at # "add"
    <3>1. listener' = listener \/ \E k \in {"TSTDAX", "SINGLX"} : UpdateUserQueues(k)
      BY <1>3, StatusCases DEF StatusWritten, LineTakenBack, StatusDropped
    <3>2. listener.at = "idle"
      BY <1>3 DEF UpdateStatus
    <3>. QED
      BY <3>1, <3>2, ListenerAtRest DEF UpdateUserQueues
  <2>. QED
    BY <1>3, <2>1, SteadyFrame DEF UpdateStatus
<1>4. CASE Lose \/ SetBurnoutTest
  BY <1>4, SteadyFrame DEF Lose, SetBurnoutTest
<1>5. CASE CheckNewline \/ StartUpdate \/ SignalUpdate
  <2>1. listener'.at # "add"
    BY <1>5, ListenerAtRest
    DEF CheckNewline, StartUpdate, SignalUpdate, UpdateUserQueues, FeedIInv, Types, ListenerType,
        ListenerRecords
  <2>. QED
    BY <1>5, <2>1, SteadyFrame DEF CheckNewline, StartUpdate, SignalUpdate
<1>6. CASE ReadDescriptor
  <2>1. listener'.at = "add" => listener'.next.fd = threadFD[listener'.next.slot]
    <3>. DEFINE s == CHOOSE x \in listener.todo : \A y \in listener.todo : x <= y
    <3>1. /\ live[s] => listener'.next = [slot |-> s, kind |-> listener.kind, fd |-> threadFD[s]]
          /\ ~live[s] => listener'.at = "push"
      BY <1>6, DescriptorRead
    <3>. HIDE DEF s
    <3>. QED
      BY <3>1
  <2>2. UNCHANGED <<left, live, threadFD, overtaken, messageQueue, cmd>>
    BY <1>6 DEF ReadDescriptor
  <2>. QED
    BY <2>1, <2>2 DEF Steady
<1>7. CASE PushUpdate
  <2>1. listener.at = "add" /\ listener'.at = "push" /\ listener.next \in Commands
    BY <1>7 DEF PushUpdate, FeedIInv, Types, ListenerType, ListenerRecords, Places
  <2>2. left = 0 => listener.next.fd = threadFD[listener.next.slot]
    BY <2>1 DEF Steady
  <2>. QED
    BY <1>7, <2>1, <2>2, SteadyAppended DEF PushUpdate
<1>8. ASSUME NEW s \in Slots, Connect(s) PROVE Steady'
  BY <1>8 DEF Connect, Steady
<1>9. ASSUME NEW s \in Slots, Leave(s) PROVE Steady'
  <2>1. left' # 0
    BY <1>9, FeedAssumption DEF Leave, FeedIInv, Types, BoundsType
  <2>. QED
    BY <2>1 DEF Steady
<1>10. ASSUME NEW s \in Slots, Request(s) PROVE Steady'
  <2>. DEFINE m == [slot |-> s, kind |-> "TSTDAT", fd |-> threadFD[s]]
  <2>1. m \in Commands /\ m.fd = threadFD[m.slot]
    BY <1>10 DEF Commands, Request, FeedIInv, Types, FlagsType
  <2>. HIDE DEF m
  <2>2. messageQueue' = Append(messageQueue, m)
    BY <1>10 DEF Request, m
  <2>. QED
    BY <1>10, <2>1, <2>2, SteadyAppended DEF Request
<1>11. CASE Peek
  <2>1. UNCHANGED <<left, live, threadFD, listener>>
    BY <1>11 DEF Peek
  <2>2. CASE messageQueue = <<>>
    BY <1>11, <2>2, SteadyFrame DEF Peek
  <2>3. CASE messageQueue # <<>>
    <3>1. /\ Head(messageQueue) = messageQueue[1] /\ Head(messageQueue) \in Commands
          /\ messageQueue' = Tail(messageQueue) /\ Len(messageQueue) \in Nat \ {0}
          /\ DOMAIN messageQueue = 1..Len(messageQueue)
          /\ DOMAIN Tail(messageQueue) = 1..Len(messageQueue) - 1
          /\ \A k \in 1..Len(messageQueue) - 1 : Tail(messageQueue)[k] = messageQueue[k + 1]
      BY <1>11, <2>3, QueuePeeked, LenProperties DEF Peek, FeedIInv, Types, QueueType
    <3>2. \A k \in DOMAIN messageQueue' :
            \E j \in DOMAIN messageQueue : messageQueue'[k] = messageQueue[j]
      <4>. SUFFICES ASSUME NEW k \in 1..Len(messageQueue) - 1
                    PROVE  k + 1 \in 1..Len(messageQueue)
        BY <3>1
      <4>. QED
        BY <3>1
    <3>3. 1 \in DOMAIN messageQueue
      BY <3>1
    <3>4. /\ cmd' = cmd \/ cmd' = Head(messageQueue)
          /\ \A s \in Slots : ~overtaken[s] => ~overtaken'[s]
      BY <1>11 DEF Peek, Begin, FeedIInv, Types, FlagsType
    <3>. QED
      BY <2>1, <3>1, <3>2, <3>3, <3>4 DEF Steady
  <2>. QED
    BY <2>2, <2>3
<1>12. CASE SendTestData
  <2>1. UNCHANGED <<left, live, threadFD, listener, messageQueue, cmd>>
    BY <1>12 DEF SendTestData
  <2>2. cmd # NoCommand
    BY <1>12, CommandIs DEF SendTestData, FeedIInv, Serving
  <2>3. overtaken' = [overtaken EXCEPT ![cmd.slot] = overtaken[cmd.slot] \/ threadFD[cmd.slot] # cmd.fd]
    BY <1>12, CommandIs DEF SendTestData, FeedIInv, Serving
  <2>. QED
    BY <2>1, <2>2, <2>3 DEF Steady, FeedIInv, Types, FlagsType
<1>13. CASE Wait \/ Compare \/ Call \/ SendStale \/ Finish
  BY <1>13, SteadyFrame DEF Wait, Compare, Call, SendStale, Finish
<1>14. CASE UNCHANGED vars
  BY <1>14, SteadyFrame DEF vars
<1>. QED
  BY <1>1, <1>2, <1>3, <1>4, <1>5, <1>6, <1>7, <1>8, <1>9, <1>10, <1>11, <1>12, <1>13, <1>14
  DEF Next, ListenerStep, HandlerStep

LEMMA FeedInvHolds == FeedIInv /\ Steady => FeedInv
<1> SUFFICES ASSUME FeedIInv, Steady PROVE FeedInv
  OBVIOUS
<1>1. TypeOK
  BY TypesMeanTypeOK DEF FeedIInv
<1>2. CounterHonest
  BY DEF FeedIInv, SentHonest, Steady, CounterHonest
<1>. QED
  BY <1>1, <1>2 DEF FeedInv

LEMMA FeedIInvAlways == Spec => []FeedIInv
<1>1. Init => FeedIInv
  BY InitFeed
<1>. QED
  BY <1>1, FeedStep, PTL DEF Spec

\* A slot's counter never runs ahead of what its client was sent, unless it counts lines that
\* went to an earlier connection's descriptor, which no counter does while nobody leaves; and
\* no index of queueTestData, updateTestDataQueue or updateTestDataStatus is outside of an
\* array: for every number of connections, descriptors, lines, requests, departures and lost
\* messages.
THEOREM CountersSkipNothing == Spec => []FeedInv
<1>1. Spec => []Steady
  BY InitSteady, SteadyStep, FeedIInvAlways, PTL DEF Spec
<1>. QED
  BY <1>1, FeedIInvAlways, FeedInvHolds, PTL

-------------------------------------------------------------------------------
\* Only Lose counts a lost message.
LEMMA LostGrows == FeedIInv /\ [Next]_vars => lost \in Nat /\ (lost' = lost \/ lost' = lost + 1)
<1> SUFFICES ASSUME FeedIInv, [Next]_vars PROVE lost \in Nat /\ (lost' = lost \/ lost' = lost + 1)
  OBVIOUS
<1>1. lost \in Nat
  BY FeedAssumption DEF FeedIInv, Types, BoundsType
<1>2. CASE TestOutput
  BY <1>1, <1>2, TestOutputIs DEF QueueData
<1>3. CASE UpdateTestDataQueue \/ \E status \in {"Passed", "FAILED"} : UpdateStatus(status)
  BY <1>1, <1>3 DEF UpdateTestDataQueue, UpdateStatus
<1>4. CASE Lose \/ SetBurnoutTest
  BY <1>1, <1>4 DEF Lose, SetBurnoutTest
<1>5. CASE ListenerStep
  BY <1>1, <1>5 DEF ListenerStep, CheckNewline, StartUpdate, ReadDescriptor, PushUpdate,
     SignalUpdate
<1>6. CASE \E s \in Slots : Connect(s) \/ Leave(s) \/ Request(s)
  BY <1>1, <1>6 DEF Connect, Leave, Request
<1>7. CASE HandlerStep
  BY <1>1, <1>7 DEF HandlerStep, Wait, Peek, Compare, Call, SendTestData, SendStale, Finish
<1>8. CASE UNCHANGED vars
  BY <1>1, <1>8 DEF vars
<1>. QED
  BY <1>2, <1>3, <1>4, <1>5, <1>6, <1>7, <1>8 DEF Next

\* As long as no message is lost, and no test prints diagnostics before its status, the last
\* message before a status is of the line that gets it.
LockIInv ==
  ~Debug /\ lost = 0 => ~lockHeld /\ (script = "line" => previous = "TEST")

\* A status is never dropped with the lock while that is so; all other steps leave the lock.
LEMMA LockStep == FeedIInv /\ LockIInv /\ [Next]_vars => LockIInv'
<1> SUFFICES ASSUME FeedIInv, LockIInv, [Next]_vars, ~Debug, lost' = 0
             PROVE  ~lockHeld' /\ (script' = "line" => previous' = "TEST")
  BY DEF LockIInv
<1>1. lost = 0
  BY LostGrows
<1>2. ~lockHeld /\ (script = "line" => previous = "TEST")
  BY <1>1 DEF LockIInv
<1>3. CASE TestOutput
  <2>1. PICK a \in Arrays, nl \in BOOLEAN, next \in {"any", "line", "failure"} :
          QueueData(a, nl, next) /\ (next = "line" => a = "TEST" \/ (script = "line" /\ Debug))
    BY <1>3, TestOutputIs
  <2>. QED
    BY <1>2, <2>1 DEF QueueData
<1>4. CASE \E status \in {"Passed", "FAILED"} : UpdateStatus(status)
  <2>1. PICK status \in {"Passed", "FAILED"} : UpdateStatus(status)
    BY <1>4
  <2>2. script' = "any"
    BY <2>1 DEF UpdateStatus
  <2>3. lockHeld' = lockHeld
    BY <1>2, <2>1, StatusCases DEF StatusWritten, LineTakenBack, StatusDropped
  <2>. QED
    BY <1>2, <2>2, <2>3
<1>5. CASE UpdateTestDataQueue \/ SetBurnoutTest
  BY <1>2, <1>5 DEF UpdateTestDataQueue, SetBurnoutTest
<1>6. CASE Lose
  BY <1>1, <1>6 DEF Lose
<1>7. CASE ListenerStep
  BY <1>2, <1>7 DEF ListenerStep, CheckNewline, StartUpdate, ReadDescriptor, PushUpdate,
     SignalUpdate
<1>8. CASE \E s \in Slots : Connect(s) \/ Leave(s) \/ Request(s)
  BY <1>2, <1>8 DEF Connect, Leave, Request
<1>9. CASE HandlerStep
  BY <1>2, <1>9 DEF HandlerStep, Wait, Peek, Compare, Call, SendTestData, SendStale, Finish
<1>10. CASE UNCHANGED vars
  BY <1>2, <1>10 DEF vars
<1>. QED
  BY <1>3, <1>4, <1>5, <1>6, <1>7, <1>8, <1>9, <1>10 DEF Next

\* threadHandler is never left locked, whatever the tests print and the clients do, while no
\* message is lost and memoryTest is not run with the option debug.
THEOREM LockNeverLeftHeld ==
  ASSUME ~Debug
  PROVE  Spec => []LockReleased
<1>1. Init => LockIInv
  BY DEF Init, LockIInv
<1>2. LockIInv => LockReleased
  BY DEF LockIInv, LockReleased
<1>. QED
  BY <1>1, <1>2, FeedIInvAlways, LockStep, PTL DEF Spec

-------------------------------------------------------------------------------
\* As long as no message is lost, a line whose status is still to come has none.
StatusOpen == lost = 0 /\ script = "line" => lines["TEST"][count["TEST"]].status = "none"

\* What a step does to the lines of test data: it takes one back, writes the status of the
\* last one, changes texts and newlines, or adds one.
FailuresStay ==
  \A i \in 1..count["TEST"] :
    lines["TEST"][i].status = "FAILED" =>
      i <= count'["TEST"] /\ lines'["TEST"][i].status = "FAILED"
LastOpen == script' = "line" => lines'["TEST"][count'["TEST"]].status = "none"

LEMMA FailuresStep ==
  ASSUME FeedIInv, StatusOpen, [Next]_vars, lost = 0
  PROVE  FailuresStay /\ (lost' = 0 => LastOpen)
<1>. DEFINE n == count["TEST"]
<1>1. /\ "TEST" \in Arrays /\ n \in Nat /\ n <= Len(lines["TEST"]) /\ Len(lines["TEST"]) \in Nat
      /\ \A i \in 1..n : i \in 1..Len(lines["TEST"])
      /\ script = "line" => n > 0
  BY LenProperties, FeedAssumption DEF FeedIInv, Types, ArraysType, Places, Arrays
<1>2. script = "line" => lines["TEST"][n].status = "none"
  BY DEF StatusOpen
<1>3. ASSUME lines' = lines, count' = count, script' = script PROVE FailuresStay /\ LastOpen
  BY <1>1, <1>2, <1>3 DEF FailuresStay, LastOpen
<1>4. CASE TestOutput
  <2>1. PICK a \in Arrays, nl \in BOOLEAN, next \in {"any", "line", "failure"} :
          /\ QueueData(a, nl, next)
          /\ next = "line" => a = "TEST" \/ (script = "line" /\ Debug)
    BY <1>4, TestOutputIs
  <2>2. script' = next
    BY <2>1 DEF QueueData
  <2>3. CASE a = "TEST"
    <3>1. ~(a = "DIAG" /\ isBurnout)
      BY <2>3
    <3>2. /\ \A i \in 1..Len(lines["TEST"]) : i # n + 1 => lines'["TEST"][i] = lines["TEST"][i]
          /\ lines'["TEST"][n + 1] = [text |-> printed + 1, nl |-> nl, status |-> "none"]
          /\ count' = [count EXCEPT !["TEST"] = n + 1]
      BY <2>1, <2>3, <3>1, LineQueued
    <3>3. count'["TEST"] = n + 1
      BY <1>1, <3>2 DEF FeedIInv, Types, ArraysType
    <3>4. \A i \in 1..n : i # n + 1 /\ i <= n + 1
      BY <1>1
    <3>5. lines'["TEST"][n + 1].status = "none"
      BY <3>2
    <3>. QED
      BY <1>1, <3>2, <3>3, <3>4, <3>5 DEF FailuresStay, LastOpen
  <2>4. CASE a # "TEST"
    <3>1. lines'["TEST"] = lines["TEST"] /\ count'["TEST"] = count["TEST"]
      <4>1. CASE a = "DIAG" /\ isBurnout
        BY <2>1, <4>1 DEF QueueData
      <4>2. CASE ~(a = "DIAG" /\ isBurnout)
        <5>1. /\ \A b \in Arrays : b # a => lines'[b] = lines[b]
              /\ count' = [count EXCEPT ![a] = count[a] + 1]
          BY <2>1, <4>2, LineQueued
        <5>. QED
          BY <1>1, <2>4, <5>1 DEF FeedIInv, Types, ArraysType
      <4>. QED
        BY <4>1, <4>2
    <3>. QED
      BY <1>1, <1>2, <2>1, <2>2, <2>4, <3>1 DEF FailuresStay, LastOpen
  <2>. QED
    BY <2>3, <2>4
<1>5. CASE UpdateTestDataQueue
  <2>1. \A i \in 1..Len(lines["TEST"]) : lines'["TEST"][i].status = lines["TEST"][i].status
    BY <1>1, <1>5, TextChanged
  <2>2. count' = count /\ script' = script
    BY <1>5 DEF UpdateTestDataQueue
  <2>3. script = "line" => n \in 1..Len(lines["TEST"])
    BY <1>1
  <2>. QED
    BY <1>1, <1>2, <2>1, <2>2, <2>3 DEF FailuresStay, LastOpen
<1>6. ASSUME NEW status \in {"Passed", "FAILED"}, UpdateStatus(status)
      PROVE  FailuresStay /\ LastOpen
  <2>1. script' = "any"
    BY <1>6 DEF UpdateStatus
  <2>2. CASE \E a \in Arrays : StatusWritten(a, status)
    <3>1. PICK a \in Arrays : StatusWritten(a, status)
      BY <2>2
    <3>2. /\ \A i \in 1..Len(lines["TEST"]) :
               ~("TEST" = a /\ i = count[a]) => lines'["TEST"][i] = lines["TEST"][i]
          /\ count' = count
      <4>1. count' = count
        BY <3>1 DEF StatusWritten
      <4>. QED
        BY <1>1, <1>6, <3>1, <4>1, StatusChanged
    <3>3. a = "TEST" => lines["TEST"][n].status # "FAILED"
      <4>. SUFFICES ASSUME a = "TEST" PROVE lines["TEST"][n].status # "FAILED"
        OBVIOUS
      <4>1. previous = "TEST"
        BY <3>1 DEF StatusWritten
      <4>2. script = "line"
        BY <1>6, <4>1 DEF UpdateStatus, FeedIInv, Places
      <4>. QED
        BY <1>2, <4>2
    <3>. QED
      BY <1>1, <2>1, <3>2, <3>3 DEF FailuresStay, LastOpen
  <2>3. CASE LineTakenBack
    <3>1. lines' = lines /\ script = "line" /\ count'["TEST"] = n - 1
      BY <1>1, <2>3 DEF LineTakenBack, FeedIInv, Types, ArraysType
    <3>2. \A i \in 1..n : lines["TEST"][i].status = "FAILED" => i <= n - 1
      BY <1>1, <1>2, <3>1
    <3>. QED
      BY <2>1, <3>1, <3>2 DEF FailuresStay, LastOpen
  <2>4. CASE StatusDropped
    BY <1>1, <2>1, <2>4 DEF StatusDropped, FailuresStay, LastOpen
  <2>. QED
    BY <1>6, <2>2, <2>3, <2>4, StatusCases
<1>7. CASE Lose
  <2>1. lines' = lines /\ count' = count /\ lost' # 0
    BY <1>7 DEF Lose
  <2>. QED
    BY <1>1, <2>1 DEF FailuresStay
<1>8. CASE SetBurnoutTest
  BY <1>3, <1>8 DEF SetBurnoutTest
<1>9. CASE ListenerStep
  BY <1>3, <1>9 DEF ListenerStep, CheckNewline, StartUpdate, ReadDescriptor, PushUpdate,
     SignalUpdate
<1>10. CASE \E s \in Slots : Connect(s) \/ Leave(s) \/ Request(s)
  BY <1>3, <1>10 DEF Connect, Leave, Request
<1>11. CASE SendTestData
  <2>1. \A i \in 1..Len(lines["TEST"]) : lines'["TEST"][i].status = lines["TEST"][i].status
    BY <1>1, <1>11, LinesSentAre
  <2>2. count' = count /\ script' = script
    BY <1>11 DEF SendTestData
  <2>3. script = "line" => n \in 1..Len(lines["TEST"])
    BY <1>1
  <2>. QED
    BY <1>1, <1>2, <2>1, <2>2, <2>3 DEF FailuresStay, LastOpen
<1>12. CASE Wait \/ Peek \/ Compare \/ Call \/ SendStale \/ Finish
  BY <1>3, <1>12 DEF Wait, Peek, Compare, Call, SendStale, Finish
<1>13. CASE UNCHANGED vars
  BY <1>3, <1>13 DEF vars
<1>. QED
  BY <1>4, <1>5, <1>6, <1>7, <1>8, <1>9, <1>10, <1>11, <1>12, <1>13 DEF Next, HandlerStep

\* As long as no message is lost, burn-in mode takes back no line of a test that failed.
THEOREM FailuresNeverTakenBack == Spec => FailuresKept
<1>1. Init => StatusOpen
  BY DEF Init, StatusOpen
<1>2. FeedIInv /\ StatusOpen /\ [Next]_vars => StatusOpen'
  BY LostGrows, FailuresStep DEF StatusOpen, LastOpen
<1>3. FeedIInv /\ StatusOpen /\ [Next]_vars =>
        [lost = 0 => \A i \in 1..count["TEST"] :
           lines["TEST"][i].status = "FAILED" =>
             i <= count'["TEST"] /\ lines'["TEST"][i].status = "FAILED"]_vars
  BY FailuresStep DEF FailuresStay
<1>. QED
  BY <1>1, <1>2, <1>3, FeedIInvAlways, PTL DEF Spec, FailuresKept

-------------------------------------------------------------------------------
\* An update of the last line is on its way to a connection: the listener is about to push
\* it, it waits for the handler, or the handler is about to compare the counts.
Update(s) == [slot |-> s, kind |-> "SINGLX", fd |-> threadFD[s]]
UpdateComing(s) ==
  \/ /\ listener.kind = "SINGLX"
     /\ \/ listener.at = "start"
        \/ listener.at \in {"push", "add"} /\ s \in listener.todo
        \/ listener.at = "add" /\ listener.next = Update(s)
  \/ \E k \in DOMAIN messageQueue : messageQueue[k] = Update(s)
  \/ (pc = "compare" /\ arr = "TEST" /\ cmd = Update(s))
USE DEF Update

\* Until burn-in mode takes lines back, no counter is beyond the lines there are.
SentWithin ==
  ~isBurnout => \A a \in Arrays : /\ Len(lines[a]) = count[a]
                                  /\ \A s \in Slots : sent[a][s] <= count[a]

\* A slot without a connection, or of a row no client of which was sent anything, has the
\* counter 0.
SentNothing ==
  /\ cmd = NoCommand => ~served
  /\ \A a \in Arrays, s \in Slots :
       ~overtaken[s] /\ (~live[s] \/ (~viewing /\ ~served)) => sent[a][s] = 0

\* A line a client shows with an old text is the last one, and an update is on its way, or
\* it was followed by a new one while an update was.
Explained(s, i) ==
  \/ got["TEST"][s][i].text = lines["TEST"][i].text
  \/ (i = count["TEST"] /\ UpdateComing(s))
  \/ i \in late
StaleExplained ==
  ~isBurnout /\ ~missed => \A s \in Slots : live[s] /\ ~overtaken[s] =>
    \A i \in 1..sent["TEST"][s] : Explained(s, i)

CurrentIInv == SentWithin /\ SentNothing /\ StaleExplained

LEMMA CurrentTypes ==
  ASSUME FeedIInv
  PROVE  /\ "TEST" \in Arrays
         /\ \A a \in Arrays : count[a] \in Nat /\ Len(lines[a]) \in Nat
         /\ \A a \in Arrays, s \in Slots : sent[a][s] \in Nat
         /\ messageQueue \in Seq(Commands) /\ Len(messageQueue) \in Nat
         /\ DOMAIN messageQueue = 1..Len(messageQueue)
<1>1. /\ "TEST" \in Arrays
      /\ \A a \in Arrays : count[a] \in Nat /\ Len(lines[a]) \in Nat
      /\ \A a \in Arrays, s \in Slots : sent[a][s] \in Nat
  BY LenProperties, FeedAssumption DEF FeedIInv, Types, ArraysType, SentType, Arrays
<1>2. messageQueue \in Seq(Commands)
  BY DEF FeedIInv, Types, QueueType
<1>3. Len(messageQueue) \in Nat /\ DOMAIN messageQueue = 1..Len(messageQueue)
  BY <1>2, LenProperties
<1>. QED
  BY <1>1, <1>2, <1>3

\* A step that changes no line, counter or connection, and takes no update from its way.
LEMMA CurrentFrame ==
  ASSUME CurrentIInv, UNCHANGED <<lines, count, isBurnout, sent, got, overtaken, live>>,
         UNCHANGED <<viewing, served, missed, late>>, cmd' = NoCommand => cmd = NoCommand,
         \A s \in Slots : live[s] /\ UpdateComing(s) => UpdateComing(s)'
  PROVE  CurrentIInv'
<1>1. SentWithin'
  BY DEF CurrentIInv, SentWithin
<1>2. SentNothing'
  BY DEF CurrentIInv, SentNothing
<1>3. StaleExplained'
  BY DEF CurrentIInv, StaleExplained, Explained
<1>. QED
  BY <1>1, <1>2, <1>3 DEF CurrentIInv

LEMMA InitCurrent == Init => CurrentIInv
<1> SUFFICES ASSUME Init PROVE CurrentIInv
  OBVIOUS
<1>1. \A a \in Arrays : Len(lines[a]) = 0 /\ count[a] = 0 /\ \A s \in Slots : sent[a][s] = 0
  BY EmptySeq DEF Init
<1>2. "TEST" \in Arrays
  BY DEF Arrays
<1>3. SentWithin
  BY <1>1 DEF SentWithin
<1>4. SentNothing
  BY <1>1 DEF SentNothing, Init
<1>5. StaleExplained
  BY <1>1, <1>2 DEF StaleExplained
<1>. QED
  BY <1>3, <1>4, <1>5 DEF CurrentIInv

LEMMA SimpleCurrent ==
  ASSUME FeedIInv, CurrentIInv,
         Lose \/ CheckNewline \/ SignalUpdate \/ Wait \/ SendStale \/ UNCHANGED vars
  PROVE  CurrentIInv'
<1>1. CASE Lose
  BY <1>1, CurrentFrame DEF Lose, UpdateComing
<1>2. CASE CheckNewline
  BY <1>2, CurrentFrame DEF CheckNewline, UpdateComing
<1>3. CASE SignalUpdate
  BY <1>3, CurrentFrame DEF SignalUpdate, Signal, UpdateComing
<1>4. CASE Wait
  BY <1>4, CurrentFrame DEF Wait, UpdateComing
<1>5. CASE SendStale
  BY <1>5, CurrentFrame DEF SendStale, UpdateComing
<1>6. CASE UNCHANGED vars
  BY <1>6, CurrentFrame DEF vars, UpdateComing
<1>. QED
  BY <1>1, <1>2, <1>3, <1>4, <1>5, <1>6

LEMMA CallCurrent ==
  ASSUME FeedIInv, CurrentIInv, Call
  PROVE  CurrentIInv'
BY CurrentFrame DEF Call, UpdateComing

\* A command that is appended leaves those before it where they are.
LEMMA QueueAppended ==
  ASSUME FeedIInv, NEW m, messageQueue' = Append(messageQueue, m)
  PROVE  /\ \A x : (\E k \in DOMAIN messageQueue : messageQueue[k] = x)
                    => \E k \in DOMAIN messageQueue' : messageQueue'[k] = x
         /\ \E k \in DOMAIN messageQueue' : messageQueue'[k] = m
<1>1. messageQueue \in Seq(Commands \cup {m}) /\ Len(messageQueue) \in Nat
  <2>1. messageQueue \in Seq(Commands) /\ Len(messageQueue) \in Nat
    BY CurrentTypes
  <2>2. messageQueue \in [1..Len(messageQueue) -> Commands \cup {m}]
    BY <2>1, LenProperties, ElementOfSeq
  <2>. QED
    BY <2>1, <2>2, IsASeq
<1>2. /\ Append(messageQueue, m) \in Seq(Commands \cup {m})
      /\ Len(Append(messageQueue, m)) = Len(messageQueue) + 1
      /\ \A i \in 1..Len(messageQueue) : Append(messageQueue, m)[i] = messageQueue[i]
      /\ Append(messageQueue, m)[Len(messageQueue) + 1] = m
  BY <1>1, AppendProperties
<1>3. DOMAIN messageQueue = 1..Len(messageQueue)
      /\ DOMAIN Append(messageQueue, m) = 1..Len(messageQueue) + 1
  BY <1>1, <1>2, LenProperties
<1>. QED
  BY <1>1, <1>2, <1>3

LEMMA RequestCurrent ==
  ASSUME FeedIInv, CurrentIInv, NEW s \in Slots, Request(s)
  PROVE  CurrentIInv'
<1>1. \A x \in Slots : UpdateComing(x) => UpdateComing(x)'
  <2>1. messageQueue' = Append(messageQueue, [slot |-> s, kind |-> "TSTDAT", fd |-> threadFD[s]])
    BY DEF Request
  <2>2. \A x : (\E k \in DOMAIN messageQueue : messageQueue[k] = x)
                 => \E k \in DOMAIN messageQueue' : messageQueue'[k] = x
    BY <2>1, QueueAppended
  <2>. QED
    BY <2>2 DEF UpdateComing, Request, Signal
<1>. QED
  BY <1>1, CurrentFrame DEF Request

LEMMA ReadCurrent ==
  ASSUME FeedIInv, CurrentIInv, ReadDescriptor
  PROVE  CurrentIInv'
<1>. DEFINE s == CHOOSE x \in listener.todo : \A y \in listener.todo : x <= y
<1>1. /\ listener.at = "push" /\ listener'.kind = listener.kind
      /\ listener'.todo = listener.todo \ {s}
      /\ live[s] => /\ listener'.at = "add"
                    /\ listener'.next = [slot |-> s, kind |-> listener.kind, fd |-> threadFD[s]]
      /\ ~live[s] => listener'.at = "push"
  BY DescriptorRead
<1>2. UNCHANGED <<pc, arr, cmd, messageQueue, threadFD>>
  BY DEF ReadDescriptor
<1>. HIDE DEF s
<1>3. ASSUME NEW x \in Slots, live[x], UpdateComing(x) PROVE UpdateComing(x)'
  <2>1. CASE live[s]
    BY <1>1, <1>2, <1>3, <2>1 DEF UpdateComing
  <2>2. CASE ~live[s]
    BY <1>1, <1>2, <1>3, <2>2 DEF UpdateComing
  <2>. QED
    BY <2>1, <2>2
<1>. QED
  BY <1>3, CurrentFrame DEF ReadDescriptor

LEMMA PushCurrent ==
  ASSUME FeedIInv, CurrentIInv, PushUpdate
  PROVE  CurrentIInv'
<1>1. /\ listener.at = "add" /\ messageQueue' = Append(messageQueue, listener.next)
      /\ UNCHANGED <<pc, arr, cmd, threadFD>>
  BY DEF PushUpdate
<1>2. /\ listener'.at = "push" /\ listener'.kind = listener.kind
      /\ listener'.todo = listener.todo
  BY DEF PushUpdate, FeedIInv, Types, ListenerType, ListenerRecords
<1>3. /\ \A y : (\E k \in DOMAIN messageQueue : messageQueue[k] = y)
                  => \E k \in DOMAIN messageQueue' : messageQueue'[k] = y
      /\ \E k \in DOMAIN messageQueue' : messageQueue'[k] = listener.next
  BY <1>1, QueueAppended
<1>4. ASSUME NEW x \in Slots, live[x], UpdateComing(x) PROVE UpdateComing(x)'
  BY <1>1, <1>2, <1>3, <1>4 DEF UpdateComing
<1>. QED
  BY <1>4, CurrentFrame DEF PushUpdate

\* Commands reach only a row with TESTVIEW; a row without it, whose handler is at rest, has
\* sent its clients nothing.
LEMMA StartCurrent ==
  ASSUME FeedIInv, CurrentIInv, StartUpdate
  PROVE  CurrentIInv'
<1>1. /\ UNCHANGED <<lines, count, isBurnout, sent, got, overtaken, live>>
      /\ UNCHANGED <<viewing, served, late, cmd, pc, arr, messageQueue, threadFD>>
      /\ missed' = (missed \/ (~viewing /\ cmd # NoCommand))
  BY DEF StartUpdate
<1>2. /\ listener'.at = "push" /\ listener'.kind = listener.kind
      /\ listener'.todo = IF viewing THEN Slots ELSE {}
  BY DEF StartUpdate, FeedIInv, Types, ListenerType, ListenerRecords
<1>3. SentWithin'
  BY <1>1 DEF CurrentIInv, SentWithin
<1>4. SentNothing'
  BY <1>1 DEF CurrentIInv, SentNothing
<1>5. StaleExplained'
  <2>. SUFFICES ASSUME ~isBurnout, ~missed', NEW s \in Slots, live[s], ~overtaken[s],
                       NEW i \in 1..sent["TEST"][s]
                PROVE  Explained(s, i)'
    BY <1>1 DEF StaleExplained
  <2>1. viewing
    <3>. SUFFICES ASSUME ~viewing PROVE FALSE
      OBVIOUS
    <3>1. ~served
      BY <1>1 DEF CurrentIInv, SentNothing
    <3>2. sent["TEST"][s] = 0
      BY <3>1, CurrentTypes DEF CurrentIInv, SentNothing
    <3>. QED
      BY <3>2
  <2>2. Explained(s, i)
    BY <1>1 DEF CurrentIInv, StaleExplained
  <2>3. UpdateComing(s) => UpdateComing(s)'
    BY <1>1, <1>2, <2>1 DEF UpdateComing
  <2>. QED
    BY <1>1, <2>2, <2>3 DEF Explained
<1>. QED
  BY <1>3, <1>4, <1>5 DEF CurrentIInv

LEMMA BurnoutCurrent ==
  ASSUME FeedIInv, CurrentIInv, SetBurnoutTest
  PROVE  CurrentIInv'
BY DEF CurrentIInv, SetBurnoutTest, SentWithin, SentNothing, StaleExplained

LEMMA FinishCurrent ==
  ASSUME FeedIInv, CurrentIInv, Finish
  PROVE  CurrentIInv'
<1>1. SentWithin'
  BY DEF CurrentIInv, SentWithin, Finish
<1>2. SentNothing'
  BY DEF CurrentIInv, SentNothing, Finish
<1>3. \A s \in Slots : UpdateComing(s) => UpdateComing(s)'
  BY DEF UpdateComing, Finish
<1>4. StaleExplained'
  BY <1>3 DEF CurrentIInv, StaleExplained, Explained, Finish
<1>. QED
  BY <1>1, <1>2, <1>4 DEF CurrentIInv

LEMMA ConnectCurrent ==
  ASSUME FeedIInv, CurrentIInv, NEW s \in Slots, Connect(s)
  PROVE  CurrentIInv'
<1>1. /\ UNCHANGED <<lines, count, isBurnout, sent, got, overtaken, viewing, served, missed, late>>
      /\ UNCHANGED <<cmd, pc, arr, messageQueue, listener>>
      /\ live' = [live EXCEPT ![s] = TRUE] /\ ~live[s]
      /\ \E d : threadFD' = [threadFD EXCEPT ![s] = d]
  BY DEF Connect
<1>2. live'[s] /\ \A x \in Slots : x # s => live'[x] = live[x] /\ threadFD'[x] = threadFD[x]
  BY <1>1 DEF FeedIInv, Types, FlagsType
<1>3. SentWithin'
  BY <1>1 DEF CurrentIInv, SentWithin
<1>4. SentNothing'
  BY <1>1, <1>2 DEF CurrentIInv, SentNothing
<1>5. \A x \in Slots : x # s => (UpdateComing(x)' <=> UpdateComing(x))
  BY <1>1, <1>2 DEF UpdateComing
<1>6. ~overtaken[s] => sent["TEST"][s] = 0
  BY <1>1, CurrentTypes DEF CurrentIInv, SentNothing
<1>7. StaleExplained'
  <2>. SUFFICES ASSUME ~isBurnout, ~missed, NEW x \in Slots, live'[x], ~overtaken[x],
                       NEW i \in 1..sent["TEST"][x]
                PROVE  Explained(x, i)'
    BY <1>1 DEF StaleExplained
  <2>1. x # s
    BY <1>6
  <2>. QED
    BY <1>1, <1>2, <1>5, <2>1 DEF CurrentIInv, StaleExplained, Explained
<1>. QED
  BY <1>3, <1>4, <1>7 DEF CurrentIInv

LEMMA LeaveCurrent ==
  ASSUME FeedIInv, CurrentIInv, NEW s \in Slots, Leave(s)
  PROVE  CurrentIInv'
<1>1. /\ UNCHANGED <<lines, count, isBurnout, viewing, served, missed, late>>
      /\ UNCHANGED <<cmd, arr, messageQueue, listener>>
      /\ pc' = pc \/ (pc = "waiting" /\ pc' = "peek")
      /\ live' = [live EXCEPT ![s] = FALSE] /\ threadFD' = [threadFD EXCEPT ![s] = 0]
      /\ overtaken' = [overtaken EXCEPT ![s] = FALSE]
  BY DEF Leave, Signal
<1>2. /\ \A a \in Arrays : sent'[a][s] = 0
      /\ \A a \in Arrays, x \in Slots : x # s => sent'[a][x] = sent[a][x] /\ got'[a][x] = got[a][x]
      /\ \A x \in Slots : x # s => /\ live'[x] = live[x] /\ overtaken'[x] = overtaken[x]
                                  /\ threadFD'[x] = threadFD[x]
  BY DEF Leave, FeedIInv, Types, SentType, GotType, FlagsType
<1>3. \A a \in Arrays, x \in Slots : sent'[a][x] \in Nat /\ sent'[a][x] <= sent[a][x]
  BY <1>2, CurrentTypes
<1>4. SentWithin'
  <2>1. ~isBurnout => \A a \in Arrays, x \in Slots : sent'[a][x] <= count[a]
    BY <1>3, CurrentTypes DEF CurrentIInv, SentWithin
  <2>. QED
    BY <1>1, <2>1 DEF CurrentIInv, SentWithin
<1>5. SentNothing'
  BY <1>1, <1>2 DEF CurrentIInv, SentNothing
<1>6. \A x \in Slots : x # s /\ UpdateComing(x) => UpdateComing(x)'
  BY <1>1, <1>2 DEF UpdateComing
<1>7. StaleExplained'
  <2>. SUFFICES ASSUME ~isBurnout, ~missed, NEW x \in Slots, live'[x], ~overtaken'[x],
                       NEW i \in 1..sent'["TEST"][x]
                PROVE  Explained(x, i)'
    BY <1>1 DEF StaleExplained
  <2>1. x # s
    BY <1>2, CurrentTypes
  <2>2. Explained(x, i)
    BY <1>2, <2>1, CurrentTypes DEF CurrentIInv, StaleExplained
  <2>. QED
    BY <1>1, <1>2, <1>6, <2>1, <2>2, CurrentTypes DEF Explained
<1>. QED
  BY <1>4, <1>5, <1>7 DEF CurrentIInv

\* A command that is handled takes its place on the way of an update; one that is not is
\* for nobody.
LEMMA PeekComing ==
  ASSUME FeedIInv, Peek, NEW s \in Slots, live[s], UpdateComing(s)
  PROVE  UpdateComing(s)'
<1>1. listener' = listener /\ pc = "peek" /\ threadFD' = threadFD
  BY DEF Peek
<1>2. CASE messageQueue = <<>>
  <2>1. ~\E k \in DOMAIN messageQueue : messageQueue[k] = Update(s)
    BY <1>2, EmptySeq
  <2>. QED
    BY <1>1, <2>1 DEF UpdateComing
<1>3. CASE messageQueue # <<>>
  <2>. DEFINE m == Update(s)
  <2>1. messageQueue' = Tail(messageQueue)
    BY <1>3 DEF Peek
  <2>2. /\ Head(messageQueue) \in Commands /\ Head(messageQueue) = messageQueue[1]
        /\ Len(messageQueue) \in Nat \ {0}
        /\ DOMAIN messageQueue = 1..Len(messageQueue)
        /\ DOMAIN Tail(messageQueue) = 1..Len(messageQueue) - 1
        /\ \A k \in 1..Len(messageQueue) - 1 : Tail(messageQueue)[k] = messageQueue[k + 1]
    BY <1>3, CurrentTypes, QueuePeeked, LenProperties
  <2>3. CASE Head(messageQueue) = m
    <3>1. live[Head(messageQueue).slot] /\ Head(messageQueue).kind = "SINGLX"
      BY <2>3
    <3>2. Begin(Head(messageQueue))
      BY <1>3, <3>1 DEF Peek
    <3>3. cmd' = m /\ arr' = "TEST" /\ pc' = "compare"
      BY <2>2, <2>3, <3>1, <3>2, BeginIs
    <3>4. Update(s)' = m
      BY <1>1
    <3>. HIDE DEF m
    <3>. QED
      BY <3>3, <3>4 DEF UpdateComing
  <2>4. CASE Head(messageQueue) # m
    <3>1. ASSUME NEW k \in DOMAIN messageQueue, messageQueue[k] = m
          PROVE  \E j \in DOMAIN messageQueue' : messageQueue'[j] = m
      <4>1. k # 1 /\ k - 1 \in 1..Len(messageQueue) - 1 /\ (k - 1) + 1 = k
        BY <2>2, <2>4, <3>1
      <4>. QED
        BY <2>1, <2>2, <3>1, <4>1
    <3>. QED
      BY <1>1, <3>1 DEF UpdateComing
  <2>. QED
    BY <2>3, <2>4
<1>. QED
  BY <1>2, <1>3

LEMMA PeekCurrent ==
  ASSUME FeedIInv, CurrentIInv, Peek
  PROVE  CurrentIInv'
<1>1. /\ UNCHANGED <<lines, count, isBurnout, viewing, served, missed, late, live, got>>
  BY DEF Peek
<1>2. CASE messageQueue # <<>> /\ live[Head(messageQueue).slot] /\ Head(messageQueue).kind = "TSTDAT"
  <2>. DEFINE s == Head(messageQueue).slot
  <2>1. s \in Slots /\ Head(messageQueue) \in Commands
    BY <1>2, QueuePeeked, CommandIs DEF FeedIInv, Types, QueueType
  <2>2. /\ \A a \in Arrays : sent'[a] = [sent[a] EXCEPT ![s] = 0]
        /\ overtaken' = [overtaken EXCEPT ![s] = FALSE] /\ cmd' = Head(messageQueue) /\ live[s]
    BY <1>2 DEF Peek, Begin
  <2>3. cmd' # NoCommand
    BY <2>1, <2>2, CommandIs
  <2>. HIDE DEF s
  <2>4. /\ \A a \in Arrays, x \in Slots : x # s => sent'[a][x] = sent[a][x]
        /\ \A x \in Slots : x # s => overtaken'[x] = overtaken[x]
        /\ \A a \in Arrays : sent'[a][s] = 0
    <3>1. \A a \in Arrays : sent[a] \in [Slots -> 0..MaxPrints]
      BY DEF FeedIInv, Types, SentType
    <3>2. overtaken \in [Slots -> BOOLEAN]
      BY DEF FeedIInv, Types, FlagsType
    <3>3. \A x \in Slots : x # s => overtaken'[x] = overtaken[x]
      BY <2>1, <2>2, <3>2
    <3>4. \A a \in Arrays : sent'[a][s] = 0
      BY <2>1, <2>2, <3>1
    <3>5. \A a \in Arrays, x \in Slots : x # s => sent'[a][x] = sent[a][x]
      BY <2>1, <2>2, <3>1
    <3>. QED
      BY <3>3, <3>4, <3>5
  <2>5. \A a \in Arrays, x \in Slots : sent'[a][x] \in Nat /\ sent'[a][x] <= sent[a][x]
    BY <2>4, CurrentTypes
  <2>6. SentWithin'
    <3>1. ~isBurnout => \A a \in Arrays, x \in Slots : sent'[a][x] <= count[a]
      BY <2>5, CurrentTypes DEF CurrentIInv, SentWithin
    <3>. QED
      BY <1>1, <3>1 DEF CurrentIInv, SentWithin
  <2>7. SentNothing'
    BY <1>1, <2>3, <2>4 DEF CurrentIInv, SentNothing
  <2>8. StaleExplained'
    <3>. SUFFICES ASSUME ~isBurnout, ~missed, NEW x \in Slots, live[x], ~overtaken'[x],
                         NEW i \in 1..sent'["TEST"][x]
                  PROVE  Explained(x, i)'
      BY <1>1 DEF StaleExplained
    <3>1. x # s
      BY <2>4, CurrentTypes
    <3>2. Explained(x, i)
      BY <2>4, <3>1, CurrentTypes DEF CurrentIInv, StaleExplained
    <3>3. UpdateComing(x) => UpdateComing(x)'
      BY PeekComing
    <3>. QED
      BY <1>1, <3>2, <3>3 DEF Explained
  <2>. QED
    BY <2>6, <2>7, <2>8 DEF CurrentIInv
<1>3. CASE ~(messageQueue # <<>> /\ live[Head(messageQueue).slot] /\ Head(messageQueue).kind = "TSTDAT")
  <2>1. UNCHANGED <<sent, overtaken>>
    BY <1>3 DEF Peek, Begin
  <2>2. cmd' = NoCommand => cmd = NoCommand
    BY DEF Peek, FeedIInv, Serving
  <2>. QED
    BY <1>1, <2>1, <2>2, PeekComing, CurrentFrame
<1>. QED
  BY <1>2, <1>3

\* The handler compares the counts when the update arrives: a client that has everything
\* loses its last line, to be sent it again, and one that has not was not sent the last.
LEMMA CompareCurrent ==
  ASSUME FeedIInv, CurrentIInv, Compare
  PROVE  CurrentIInv'
<1>. DEFINE s == cmd.slot
            n == sent[arr][s]
<1>1. /\ UNCHANGED <<lines, count, isBurnout, viewing, served, missed, late, live, got, overtaken>>
      /\ UNCHANGED <<cmd, messageQueue, listener, threadFD>> /\ pc = "compare"
  BY DEF Compare
<1>2. s \in Slots /\ arr \in Arrays /\ cmd # NoCommand
  BY <1>1, CommandIs DEF FeedIInv, Types, HandlerType, Serving
<1>3. n \in Nat /\ count[arr] \in Nat
  BY <1>2, CurrentTypes
<1>4. /\ \A a \in Arrays, x \in Slots : ~(a = arr /\ x = s) => sent'[a][x] = sent[a][x]
      /\ sent'[arr][s] \in Nat /\ sent'[arr][s] <= n
      /\ n >= count[arr] => sent'[arr][s] = 0 \/ sent'[arr][s] < n
      /\ n = 0 => sent'[arr][s] = 0
  <2>1. CASE n >= 1 /\ n >= count[arr]
    <3>1. sent' = [sent EXCEPT ![arr][s] = n - 1]
      BY <2>1 DEF Compare
    <3>. HIDE DEF n, s
    <3>2. sent'[arr][s] = n - 1 /\ \A a \in Arrays, x \in Slots :
            ~(a = arr /\ x = s) => sent'[a][x] = sent[a][x]
      <4>1. sent'[arr] = [sent[arr] EXCEPT ![s] = n - 1]
            /\ \A a \in Arrays : a # arr => sent'[a] = sent[a]
        BY <1>2, <3>1 DEF FeedIInv, Types, SentType
      <4>2. sent[arr] \in [Slots -> 0..MaxPrints]
        BY <1>2 DEF FeedIInv, Types, SentType
      <4>. QED
        BY <1>2, <4>1, <4>2
    <3>. QED
      BY <1>3, <2>1, <3>2
  <2>2. CASE ~(n >= 1 /\ n >= count[arr])
    <3>1. sent' = sent
      BY <2>2 DEF Compare
    <3>. QED
      BY <1>3, <2>2, <3>1
  <2>. QED
    BY <2>1, <2>2
<1>5. \A a \in Arrays, x \in Slots : sent'[a][x] \in Nat /\ sent'[a][x] <= sent[a][x]
  BY <1>3, <1>4, CurrentTypes
<1>6. SentWithin'
  <2>1. ~isBurnout => \A a \in Arrays, x \in Slots : sent'[a][x] <= count[a]
    BY <1>5, CurrentTypes DEF CurrentIInv, SentWithin
  <2>. QED
    BY <1>1, <2>1 DEF CurrentIInv, SentWithin
<1>7. SentNothing'
  <2>1. \A a \in Arrays, x \in Slots : sent[a][x] = 0 => sent'[a][x] = 0
    BY <1>5, CurrentTypes
  <2>. QED
    BY <1>1, <2>1 DEF CurrentIInv, SentNothing
<1>8. StaleExplained'
  <2>. SUFFICES ASSUME ~isBurnout, ~missed, NEW x \in Slots, live[x], ~overtaken[x],
                       NEW i \in 1..sent'["TEST"][x]
                PROVE  Explained(x, i)'
    BY <1>1 DEF StaleExplained
  <2>1. Explained(x, i) /\ sent["TEST"][x] <= count["TEST"]
    <3>1. i \in 1..sent["TEST"][x]
      BY <1>5, CurrentTypes
    <3>. QED
      BY <1>1, <3>1, CurrentTypes DEF CurrentIInv, StaleExplained, SentWithin
  <2>2. CASE arr = "TEST" /\ x = s
    <3>1. i # count["TEST"]
      BY <1>3, <1>4, <2>1, <2>2, CurrentTypes
    <3>. QED
      BY <1>1, <2>1, <3>1 DEF Explained
  <2>3. CASE ~(arr = "TEST" /\ x = s)
    <3>1. ~(arr = "TEST" /\ cmd = Update(x))
      BY <2>3
    <3>2. UpdateComing(x) => UpdateComing(x)'
      BY <1>1, <3>1 DEF UpdateComing
    <3>. QED
      BY <1>1, <2>1, <3>2 DEF Explained
  <2>. QED
    BY <2>2, <2>3
<1>. QED
  BY <1>6, <1>7, <1>8 DEF CurrentIInv

\* The lines that are sent have the present texts.
LEMMA SendCurrent ==
  ASSUME FeedIInv, CurrentIInv, SendTestData
  PROVE  CurrentIInv'
<1>. DEFINE s == cmd.slot
<1>1. /\ UNCHANGED <<count, isBurnout, viewing, missed, late, live>>
      /\ UNCHANGED <<cmd, messageQueue, listener, threadFD>> /\ pc = "send"
      /\ overtaken' = [overtaken EXCEPT ![s] = overtaken[s] \/ threadFD[s] # cmd.fd]
      /\ served' \/ (served' = served /\ threadFD[s] # cmd.fd)
  <2>1. cmd.slot \in Slots
    BY CommandIs DEF SendTestData, FeedIInv, Serving
  <2>. QED
    BY <2>1 DEF SendTestData
<1>2. s \in Slots /\ arr \in Arrays /\ cmd # NoCommand /\ cmd.fd # 0
      /\ call.end <= Len(lines[arr]) /\ call.end \in 0..MaxPrints /\ call.end \in Nat
  BY <1>1, CommandIs, FeedAssumption DEF FeedIInv, Types, HandlerType, Serving
<1>3. /\ \A a \in Arrays, x \in Slots : ~(a = arr /\ x = s) => sent'[a][x] = sent[a][x]
      /\ sent'[arr][s] = call.end
  BY <1>2 DEF FeedIInv, Types, SentType, SendTestData
<1>4. /\ \A a \in Arrays : Len(lines'[a]) = Len(lines[a])
      /\ \A a \in Arrays : \A i \in 1..Len(lines[a]) : lines'[a][i].text = lines[a][i].text
  BY LinesSentAre
<1>5. SentWithin'
  <2>1. ~isBurnout => \A a \in Arrays, x \in Slots : sent'[a][x] <= count[a]
    BY <1>2, <1>3, CurrentTypes DEF CurrentIInv, SentWithin
  <2>. QED
    BY <1>1, <1>4, <2>1 DEF CurrentIInv, SentWithin
<1>6. \A x \in Slots : ~overtaken'[x] => ~overtaken[x] /\ (x = s => threadFD[s] = cmd.fd /\ live[s])
  BY <1>1, <1>2 DEF FeedIInv, Types, FlagsType
<1>7. SentNothing'
  <2>. SUFFICES ASSUME NEW a \in Arrays, NEW x \in Slots, ~overtaken'[x],
                       ~live[x] \/ (~viewing /\ ~served')
                PROVE  sent'[a][x] = 0
    BY <1>1, <1>2 DEF SentNothing
  <2>1. x # s
    BY <1>1, <1>6
  <2>2. ~live[x] \/ (~viewing /\ ~served)
    BY <1>1
  <2>3. sent[a][x] = 0
    BY <1>6, <2>2 DEF CurrentIInv, SentNothing
  <2>. QED
    BY <1>3, <2>1, <2>3
<1>8. \A x \in Slots : UpdateComing(x) => UpdateComing(x)'
  BY <1>1 DEF UpdateComing
<1>9. StaleExplained'
  <2>. SUFFICES ASSUME ~isBurnout, ~missed, NEW x \in Slots, live[x], ~overtaken'[x],
                       NEW i \in 1..sent'["TEST"][x]
                PROVE  Explained(x, i)'
    BY <1>1 DEF StaleExplained
  <2>1. i \in 1..Len(lines["TEST"]) /\ lines'["TEST"][i].text = lines["TEST"][i].text
        /\ i \in 1..MaxPrints
    <3>1. sent'["TEST"][x] <= Len(lines["TEST"]) /\ sent'["TEST"][x] \in Nat
          /\ Len(lines["TEST"]) \in Nat /\ Len(lines["TEST"]) <= MaxPrints
      <4>1. /\ Len(lines["TEST"]) = count["TEST"] /\ count["TEST"] \in 0..MaxPrints
            /\ sent["TEST"][x] <= count["TEST"]
        BY CurrentTypes DEF CurrentIInv, SentWithin, FeedIInv, Types, ArraysType
      <4>2. CASE arr = "TEST" /\ x = s
        BY <1>2, <1>3, <4>1, <4>2, FeedAssumption
      <4>3. CASE ~(arr = "TEST" /\ x = s)
        BY <1>3, <4>1, <4>3, CurrentTypes, FeedAssumption
      <4>. QED
        BY <4>2, <4>3
    <3>. QED
      BY <1>4, <3>1, CurrentTypes, FeedAssumption
  <2>2. got'["TEST"][x][i] =
          IF /\ "TEST" = arr /\ threadFD[x] = cmd.fd
             /\ i \in sent[arr][s] + 1..call.end
          THEN lines'[arr][i] ELSE got["TEST"][x][i]
    BY <2>1, GotSent, CurrentTypes
  <2>3. CASE got'["TEST"][x][i] = lines'["TEST"][i]
    BY <2>3 DEF Explained
  <2>4. CASE got'["TEST"][x][i] = got["TEST"][x][i] /\ i \in 1..sent["TEST"][x]
    <3>1. Explained(x, i)
      BY <1>6, <2>4 DEF CurrentIInv, StaleExplained
    <3>. QED
      BY <1>1, <1>8, <2>1, <2>4, <3>1 DEF Explained
  <2>5. CASE arr = "TEST" /\ x = s
    <3>1. i <= call.end /\ sent["TEST"][s] \in Nat /\ threadFD[x] = cmd.fd
      BY <1>2, <1>3, <1>6, <2>5, CurrentTypes, FeedAssumption
    <3>2. ~(i \in sent["TEST"][s] + 1..call.end) => i \in 1..sent["TEST"][s]
      BY <1>2, <2>1, <3>1
    <3>. QED
      BY <2>2, <2>3, <2>4, <2>5, <3>1, <3>2
  <2>6. CASE ~(arr = "TEST" /\ x = s)
    <3>1. sent'["TEST"][x] = sent["TEST"][x]
      BY <1>3, <2>6, CurrentTypes
    <3>. QED
      BY <2>2, <2>3, <2>4, <3>1
  <2>. QED
    BY <2>5, <2>6
<1>. QED
  BY <1>5, <1>7, <1>9 DEF CurrentIInv

\* A new line: whatever was the last one and has an old text was on the way of an update.
LEMMA QueueDataCurrent ==
  ASSUME FeedIInv, CurrentIInv, NEW a \in Arrays, NEW nl \in BOOLEAN, NEW next,
         QueueData(a, nl, next)
  PROVE  CurrentIInv'
<1>1. /\ UNCHANGED <<isBurnout, sent, got, overtaken, live, viewing, served, missed>>
      /\ UNCHANGED <<cmd, messageQueue, pc, arr, threadFD>> /\ listener.at = "idle"
      /\ late' = IF a = "TEST" /\ UpdateOnItsWay THEN late \cup {count[a]} ELSE late
  BY DEF QueueData
<1>2. SentNothing'
  BY <1>1 DEF CurrentIInv, SentNothing
<1>3. CASE isBurnout
  BY <1>1, <1>2, <1>3 DEF CurrentIInv, SentWithin, StaleExplained
<1>4. CASE ~isBurnout
  <2>. DEFINE n == count[a] + 1
  <2>1. /\ Len(lines'[a]) = IF n <= Len(lines[a]) THEN Len(lines[a]) ELSE n
        /\ \A b \in Arrays : b # a => lines'[b] = lines[b]
        /\ \A i \in 1..Len(lines[a]) : i # n => lines'[a][i] = lines[a][i]
        /\ count' = [count EXCEPT ![a] = n]
    BY <1>4, LineQueued
  <2>2. count'[a] = n /\ \A b \in Arrays : b # a => count'[b] = count[b]
    BY <2>1 DEF FeedIInv, Types, ArraysType
  <2>3. /\ \A b \in Arrays : Len(lines[b]) = count[b] /\ count[b] \in Nat
        /\ \A b \in Arrays, s \in Slots : sent[b][s] <= count[b] /\ sent[b][s] \in Nat
    BY <1>4, CurrentTypes DEF CurrentIInv, SentWithin
  <2>4. SentWithin'
    <3>1. ~(n <= Len(lines[a])) /\ n >= count[a]
      BY <2>3
    <3>2. \A b \in Arrays : Len(lines'[b]) = count'[b] /\ count'[b] \in Nat /\ count'[b] >= count[b]
      BY <2>1, <2>2, <2>3, <3>1
    <3>3. \A b \in Arrays, s \in Slots : sent[b][s] <= count'[b]
      BY <2>3, <3>2
    <3>. QED
      BY <1>1, <3>2, <3>3 DEF SentWithin
  <2>5. \A s \in Slots : UpdateComing(s) =>
          cmd.kind = "SINGLX" \/ \E k \in DOMAIN messageQueue : messageQueue[k].kind = "SINGLX"
    BY <1>1 DEF UpdateComing
  <2>6. \A s \in Slots : UpdateComing(s) => UpdateComing(s)'
    BY <1>1 DEF UpdateComing
  <2>7. StaleExplained'
    <3>. SUFFICES ASSUME ~missed, NEW s \in Slots, live[s], ~overtaken[s],
                         NEW i \in 1..sent["TEST"][s]
                  PROVE  Explained(s, i)'
      BY <1>1 DEF StaleExplained
    <3>1. Explained(s, i)
      BY <1>4 DEF CurrentIInv, StaleExplained
    <3>2. i \in Nat /\ i \in 1..Len(lines["TEST"]) /\ i <= count["TEST"] /\ "TEST" \in Arrays
      BY <2>3, CurrentTypes
    <3>3. CASE a = "TEST"
      <4>1. lines'["TEST"][i] = lines["TEST"][i]
        BY <2>1, <2>3, <3>2, <3>3
      <4>2. late \subseteq late' /\ (UpdateComing(s) => count["TEST"] \in late')
        BY <1>1, <2>5, <3>3 DEF UpdateOnItsWay
      <4>. QED
        BY <1>1, <3>1, <4>1, <4>2 DEF Explained
    <3>4. CASE a # "TEST"
      <4>1. late' = late
        BY <1>1, <3>4
      <4>. QED
        BY <1>1, <2>1, <2>2, <2>6, <3>1, <3>2, <3>4, <4>1 DEF Explained
    <3>. QED
      BY <3>3, <3>4
  <2>. QED
    BY <1>2, <2>4, <2>7 DEF CurrentIInv
<1>. QED
  BY <1>3, <1>4

\* A new text of the last line, with an update of it for everyone.
LEMMA TextCurrent ==
  ASSUME FeedIInv, CurrentIInv, UpdateTestDataQueue
  PROVE  CurrentIInv'
<1>1. /\ UNCHANGED <<count, isBurnout, sent, got, overtaken, live, viewing, served, missed, late>>
      /\ cmd' = cmd /\ listener' = [Idle EXCEPT !.at = "start", !.kind = "SINGLX"]
  BY DEF UpdateTestDataQueue, UpdateUserQueues
<1>2. /\ \A a \in Arrays : Len(lines'[a]) = Len(lines[a])
      /\ \A i \in 1..Len(lines["TEST"]) :
           i # count["TEST"] => lines'["TEST"][i] = lines["TEST"][i]
  BY TextChanged, CurrentTypes
<1>3. \A s \in Slots : UpdateComing(s)'
  <2>1. listener'.at = "start" /\ listener'.kind = "SINGLX"
    BY <1>1, ListenerAtRest
  <2>. QED
    BY <2>1 DEF UpdateComing
<1>4. SentWithin'
  BY <1>1, <1>2 DEF CurrentIInv, SentWithin
<1>5. SentNothing'
  BY <1>1 DEF CurrentIInv, SentNothing
<1>6. StaleExplained'
  <2>. SUFFICES ASSUME ~isBurnout, ~missed, NEW s \in Slots, live[s], ~overtaken[s],
                       NEW i \in 1..sent["TEST"][s]
                PROVE  Explained(s, i)'
    BY <1>1 DEF StaleExplained
  <2>1. Explained(s, i) /\ i \in 1..Len(lines["TEST"])
    BY CurrentTypes DEF CurrentIInv, StaleExplained, SentWithin
  <2>. QED
    BY <1>1, <1>2, <1>3, <2>1 DEF Explained
<1>. QED
  BY <1>4, <1>5, <1>6 DEF CurrentIInv

\* A status changes no text; before burn-in mode it takes back no line.
LEMMA StatusCurrent ==
  ASSUME FeedIInv, CurrentIInv, NEW status \in {"Passed", "FAILED"}, UpdateStatus(status)
  PROVE  CurrentIInv'
<1>1. /\ UNCHANGED <<isBurnout, sent, got, overtaken, live, viewing, served, missed, late>>
      /\ UNCHANGED <<cmd, pc, arr, messageQueue, threadFD>> /\ listener.at = "idle"
  BY DEF UpdateStatus
<1>2. SentNothing'
  BY <1>1 DEF CurrentIInv, SentNothing
<1>3. CASE isBurnout
  BY <1>1, <1>2, <1>3 DEF CurrentIInv, SentWithin, StaleExplained
<1>4. CASE ~isBurnout
  <2>1. PICK a \in Arrays : StatusWritten(a, status)
    BY <1>4, StatusCases DEF LineTakenBack, StatusDropped
  <2>2. /\ \A b \in Arrays : Len(lines'[b]) = Len(lines[b])
        /\ \A b \in Arrays : \A i \in 1..Len(lines[b]) : lines'[b][i].text = lines[b][i].text
        /\ count' = count
    <3>1. count' = count
      BY <2>1 DEF StatusWritten
    <3>. QED
      BY <2>1, <3>1, StatusChanged
  <2>3. \A s \in Slots : UpdateComing(s) => UpdateComing(s)'
    BY <1>1 DEF UpdateComing
  <2>4. SentWithin'
    BY <1>1, <2>2 DEF CurrentIInv, SentWithin
  <2>5. StaleExplained'
    <3>. SUFFICES ASSUME ~missed, NEW s \in Slots, live[s], ~overtaken[s],
                         NEW i \in 1..sent["TEST"][s]
                  PROVE  Explained(s, i)'
      BY <1>1 DEF StaleExplained
    <3>1. Explained(s, i) /\ i \in 1..Len(lines["TEST"]) /\ "TEST" \in Arrays
      BY <1>4, CurrentTypes DEF CurrentIInv, StaleExplained, SentWithin
    <3>. QED
      BY <1>1, <2>2, <2>3, <3>1 DEF Explained
  <2>. QED
    BY <1>2, <2>4, <2>5 DEF CurrentIInv
<1>. QED
  BY <1>3, <1>4

LEMMA CurrentStep == FeedIInv /\ CurrentIInv /\ [Next]_vars => CurrentIInv'
<1> SUFFICES ASSUME FeedIInv, CurrentIInv, [Next]_vars PROVE CurrentIInv'
  OBVIOUS
<1>1. CASE TestOutput
  BY <1>1, TestOutputIs, QueueDataCurrent
<1>2. CASE UpdateTestDataQueue
  BY <1>2, TextCurrent
<1>3. ASSUME NEW status \in {"Passed", "FAILED"}, UpdateStatus(status) PROVE CurrentIInv'
  BY <1>3, StatusCurrent
<1>4. CASE Lose \/ SetBurnoutTest
  BY <1>4, SimpleCurrent, BurnoutCurrent
<1>5. CASE ListenerStep
  BY <1>5, SimpleCurrent, StartCurrent, ReadCurrent, PushCurrent DEF ListenerStep
<1>6. ASSUME NEW s \in Slots, Connect(s) \/ Leave(s) \/ Request(s) PROVE CurrentIInv'
  BY <1>6, ConnectCurrent, LeaveCurrent, RequestCurrent
<1>7. CASE HandlerStep
  BY <1>7, SimpleCurrent, PeekCurrent, CompareCurrent, CallCurrent, SendCurrent, FinishCurrent
  DEF HandlerStep
<1>8. CASE UNCHANGED vars
  BY <1>8, SimpleCurrent
<1>. QED
  BY <1>1, <1>2, <1>3, <1>4, <1>5, <1>6, <1>7, <1>8 DEF Next

\* When nothing is on its way, every client shows the present texts of the lines it was sent,
\* but of the lines after which a new one came while an update was on its way.
THEOREM ClientsShowTheTexts == Spec => []TextsCurrent
<1>1. Init => CurrentIInv
  BY InitCurrent
<1>2. FeedIInv /\ CurrentIInv => TextsCurrent
  <2>. SUFFICES ASSUME FeedIInv, CurrentIInv, Quiet, ~isBurnout, ~missed,
                       NEW s \in Slots, live[s], ~overtaken[s], NEW i \in 1..sent["TEST"][s]
                PROVE  i \in late \/ got["TEST"][s][i].text = lines["TEST"][i].text
    BY DEF TextsCurrent
  <2>1. Explained(s, i)
    BY DEF CurrentIInv, StaleExplained
  <2>2. ~UpdateComing(s)
    BY EmptySeq DEF Quiet, UpdateComing
  <2>. QED
    BY <2>1, <2>2 DEF Explained
<1>. QED
  BY <1>1, <1>2, FeedIInvAlways, CurrentStep, PTL DEF Spec
===============================================================================
