------------------------ MODULE CommandDispatch_proofs ------------------------
(***************************************************************************)
(* Proofs that every question gets exactly one reply, for any number of    *)
(* clients, handlers, slots, texts, commands and questions, and that one   *)
(* handler handles the commands of its row in order and at most once.      *)
(***************************************************************************)
EXTENDS CommandDispatch, SequenceTheorems, TLAPS

\* A question is withdrawn exactly while the server thread closes the boxes and replies.
WithdrawnInTransit == server \in {"close", "reply"} <=> withdrawn # NoQuestion

\* A handler sends to a slot of the row, and a question that was sent has a number.
InRange ==
  /\ \A h \in Handlers : pc[h] = "send" => at[h] \in Slots
  /\ asker = "sent" => asked > 0

RepliesIInv == RepliesInv /\ WithdrawnInTransit /\ InRange

\* The commands in the queue are in the order in which they were pushed, and none of them
\* was handled.
QueueOrdered ==
  /\ lastHandled <= pushed
  /\ \A k \in DOMAIN messageQueue :
       lastHandled < messageQueue[k].n /\ messageQueue[k].n <= pushed
  /\ \A i, k \in DOMAIN messageQueue : i < k => messageQueue[i].n < messageQueue[k].n

\* What a handler peeked at is still in front until it dequeues, and what it dequeued is
\* newer than what was handled and older than what waits.
HoldsFront(h) ==
  /\ pc[h] \in {"decide", "route", "drop", "take"} =>
       messageQueue # <<>> /\ cmd[h] = Head(messageQueue)
  /\ pc[h] = "event" =>
       /\ lastHandled < cmd[h].n /\ cmd[h].n <= pushed
       /\ \A k \in DOMAIN messageQueue : cmd[h].n < messageQueue[k].n

OrderInv == QueueOrdered /\ \A h \in Handlers : HoldsFront(h)
-------------------------------------------------------------------------------
\* What three sequences joined together are when the result is empty or has one element.
LEMMA SingleIsAll ==
  ASSUME NEW s \in Seq(Nat), NEW t \in Seq(Nat), NEW u \in Seq(Nat), NEW a \in Nat
  PROVE  /\ s \o t \o u = <<>> <=> s = <<>> /\ t = <<>> /\ u = <<>>
         /\ s \o t \o u = <<a>> <=>
              \/ s = <<a>> /\ t = <<>> /\ u = <<>>
              \/ s = <<>> /\ t = <<a>> /\ u = <<>>
              \/ s = <<>> /\ t = <<>> /\ u = <<a>>
<1> DEFINE v == s \o t
<1>1. v \in Seq(Nat) /\ Len(v) = Len(s) + Len(t) /\ Len(v \o u) = Len(v) + Len(u)
  BY ConcatProperties
<1>2. s = <<>> => v = t
  BY ConcatEmptySeq
<1>3. t = <<>> => v = s
  BY ConcatEmptySeq
<1>4. v = <<>> => v \o u = u
  BY ConcatEmptySeq
<1>5. u = <<>> => v \o u = v
  BY <1>1, ConcatEmptySeq
<1>6. /\ Len(s) \in Nat /\ Len(t) \in Nat /\ Len(u) \in Nat
      /\ s = <<>> <=> Len(s) = 0
      /\ t = <<>> <=> Len(t) = 0
      /\ u = <<>> <=> Len(u) = 0
      /\ v = <<>> <=> Len(v) = 0
      /\ Len(<<a>>) = 1
  BY <1>1, EmptySeq, LenProperties
<1>7. v \o u = <<>> <=> v = <<>> /\ u = <<>>
  BY <1>1, ConcatEqualIffEmpty
<1>8. v = <<>> <=> s = <<>> /\ t = <<>>
  BY ConcatEqualIffEmpty
<1>. HIDE DEF v
<1>9. v \o u = <<a>> <=> (v = <<a>> /\ u = <<>>) \/ (v = <<>> /\ u = <<a>>)
  <2>1. v \o u = <<a>> => Len(v) + Len(u) = 1
    BY <1>1, <1>6, Zenon
  <2>2. Len(v) + Len(u) = 1 => Len(v) = 0 \/ Len(u) = 0
    BY <1>1, <1>6
  <2>. QED
    BY <2>1, <2>2, <1>4, <1>5, <1>6, Zenon
<1>10. v = <<a>> <=> (s = <<a>> /\ t = <<>>) \/ (s = <<>> /\ t = <<a>>)
  <2>1. v = <<a>> => Len(s) + Len(t) = 1
    BY <1>1, <1>6, Zenon
  <2>2. Len(s) + Len(t) = 1 => Len(s) = 0 \/ Len(t) = 0
    BY <1>6
  <2>. QED
    BY <2>1, <2>2, <1>2, <1>3, <1>6, Zenon
<1>. QED
  BY <1>6, <1>7, <1>8, <1>9, <1>10 DEF v

Single(a) == <<a>>

\* The one reply a test is owed is in one of three places.
Owed(q, w, r, a, e) ==
  IF e = "waiting"
  THEN \/ q # NoQuestion /\ q.n = a /\ w = NoQuestion /\ r = <<>>
       \/ q = NoQuestion /\ w # NoQuestion /\ w.n = a /\ r = <<>>
       \/ q = NoQuestion /\ w = NoQuestion /\ r = Single(a)
  ELSE q = NoQuestion /\ w = NoQuestion /\ r = <<>>

OnlyOwed(q, w, r, a, e) ==
  LET owed == (IF q = NoQuestion THEN <<>> ELSE <<q.n>>)
              \o (IF w = NoQuestion THEN <<>> ELSE <<w.n>>) \o r
  IN owed = IF e = "waiting" THEN <<a>> ELSE <<>>

\* OneReply as a relation between values, and its two operators on sequences by name.
Joined(s, t, u) == s \o t \o u
LEMMA SinglesJoined ==
  \A s, t, u \in Seq(Nat) : \A a \in Nat :
    /\ Joined(s, t, u) = <<>> <=> s = <<>> /\ t = <<>> /\ u = <<>>
    /\ Joined(s, t, u) = Single(a) <=>
         \/ s = Single(a) /\ t = <<>> /\ u = <<>>
         \/ s = <<>> /\ t = Single(a) /\ u = <<>>
         \/ s = <<>> /\ t = <<>> /\ u = Single(a)
  BY SingleIsAll DEF Joined, Single

LEMMA OwedInOnePlace ==
  ASSUME NEW q \in Questions \cup {NoQuestion}, NEW w \in Questions \cup {NoQuestion},
         NEW r \in Seq(1..MaxAsked), NEW a \in Nat, NEW e \in {"idle", "sent", "waiting"}
  PROVE  OnlyOwed(q, w, r, a, e) <=> Owed(q, w, r, a, e)
<1> DEFINE s == IF q = NoQuestion THEN <<>> ELSE <<q.n>>
           t == IF w = NoQuestion THEN <<>> ELSE <<w.n>>
<1>1. \A x \in Questions \cup {NoQuestion} : x.n \in Nat
  <2>1. \A x \in Questions : x.n \in 1..MaxAsked
    BY DEF Questions
  <2>2. NoQuestion.n = 0
    BY DEF NoQuestion
  <2>. QED
    BY <2>1, <2>2, DispatchAssumption
<1>2. /\ s \in Seq(Nat) /\ (s = <<>> <=> q = NoQuestion)
      /\ s = Single(a) <=> q # NoQuestion /\ q.n = a
  BY <1>1 DEF Single
<1>3. /\ t \in Seq(Nat) /\ (t = <<>> <=> w = NoQuestion)
      /\ t = Single(a) <=> w # NoQuestion /\ w.n = a
  BY <1>1 DEF Single
<1>4. r \in Seq(Nat) /\ a \in Nat
  BY DispatchAssumption
<1>. HIDE DEF s, t
<1>5. /\ Joined(s, t, r) = <<>> <=> s = <<>> /\ t = <<>> /\ r = <<>>
      /\ Joined(s, t, r) = Single(a) <=>
           \/ s = Single(a) /\ t = <<>> /\ r = <<>>
           \/ s = <<>> /\ t = Single(a) /\ r = <<>>
           \/ s = <<>> /\ t = <<>> /\ r = Single(a)
  <2>1. s \in Seq(Nat) /\ t \in Seq(Nat) /\ r \in Seq(Nat) /\ a \in Nat
    BY <1>2, <1>3, <1>4, Zenon
  <2>. QED
    BY ONLY <2>1, SinglesJoined
<1>6. (Joined(s, t, r) = IF e = "waiting" THEN Single(a) ELSE <<>>) <=> Owed(q, w, r, a, e)
  BY <1>2, <1>3, <1>5, Zenon DEF Owed
<1>. QED
  BY <1>6, Zenon DEF s, t, OnlyOwed, Joined, Single

\* The invariant, in this state and in the next one, by the place of the reply.
LEMMA OneReplyIsOwed ==
  ASSUME TypeOK
  PROVE  OneReply <=> Owed(question, withdrawn, replies, asked, asker)
<1>1. /\ question \in Questions \cup {NoQuestion} /\ withdrawn \in Questions \cup {NoQuestion}
      /\ replies \in Seq(1..MaxAsked) /\ asked \in Nat
      /\ asker \in {"idle", "sent", "waiting"}
  BY DispatchAssumption DEF TypeOK
<1>2. OneReply <=> OnlyOwed(question, withdrawn, replies, asked, asker)
  BY Zenon DEF OneReply, OnlyOwed
<1>. QED
  BY <1>1, <1>2, OwedInOnePlace

LEMMA OneReplyIsOwedNext ==
  ASSUME TypeOK'
  PROVE  OneReply' <=> Owed(question', withdrawn', replies', asked', asker')
<1>1. /\ question' \in Questions \cup {NoQuestion} /\ withdrawn' \in Questions \cup {NoQuestion}
      /\ replies' \in Seq(1..MaxAsked) /\ asked' \in Nat
      /\ asker' \in {"idle", "sent", "waiting"}
  BY DispatchAssumption DEF TypeOK
<1>2. OneReply' <=> OnlyOwed(question', withdrawn', replies', asked', asker')
  BY Zenon DEF OneReply, OnlyOwed
<1>. QED
  BY <1>1, <1>2, OwedInOnePlace

-------------------------------------------------------------------------------
\* The handlers use the number and the connection of the command they hold.
LEMMA CommandFields ==
  ASSUME TypeOK, NEW h \in Handlers
  PROVE  cmd[h].n \in 0..MaxPushed /\ cmd[h].connection \in Slots
<1>1. cmd[h] \in Commands \/ cmd[h] = NoCommand
  BY DEF TypeOK
<1>2. CASE cmd[h] \in Commands
  BY <1>2, DispatchAssumption DEF Commands
<1>3. CASE cmd[h] = NoCommand
  <2>1. cmd[h].n = 0 /\ cmd[h].connection = 0
    <3>1. NoCommand.n = 0 /\ NoCommand.connection = 0
      BY DEF NoCommand
    <3>. QED
      BY <1>3, <3>1
  <2>2. 0 \in 0..MaxPushed /\ 0 \in Slots
    BY DispatchAssumption DEF Slots
  <2>. QED
    BY <2>1, <2>2
<1>. QED
  BY <1>1, <1>2, <1>3

\* Every step keeps the types.
LEMMA TypesKept ==
  ASSUME RepliesIInv, Next
  PROVE  TypeOK'
<1>. USE DispatchAssumption DEF RepliesIInv, RepliesInv,
            queueVars, tableVars, lockVars, handlerVars, serverVars, askVars
<1>1. ASSUME NEW c \in Clients, Connect(c) PROVE TypeOK'
  BY <1>1 DEF TypeOK, Connect, Goto, PCs, Live, Slots
<1>2. ASSUME NEW s \in Slots, Leave(s) PROVE TypeOK'
  BY <1>2 DEF TypeOK, Leave, Live, Slots, Shown, Nobody
<1>3. ASSUME NEW s \in Slots, NEW kind \in Kinds, PushThreadCommand(s, kind) PROVE TypeOK'
  <2>2. (pushed \in 1..MaxPushed)' /\ (lastHandled \in 0..MaxPushed)'
    BY <1>3 DEF TypeOK, PushThreadCommand
  <2>1. (messageQueue \in Seq(Commands))'
    BY <1>3, <2>2 DEF TypeOK, PushThreadCommand, Commands, Dequeue, Questions, Slots, Live
  <2>3. (box \in [Clients -> Questions \cup {NoQuestion}])'
    BY <1>3 DEF TypeOK, PushThreadCommand, Shown
  <2>4. (server \in {"idle", "signal", "close", "reply"})'
    BY <1>3 DEF TypeOK, PushThreadCommand
  <2>5. UNCHANGED <<threadIP, paused, question, repairLock, repairCounter, timer, pc, cmd,
                    skip, at, sending, withdrawn, listener, asker, replies, asked>>
    BY <1>3 DEF PushThreadCommand
  <2>6. pushed' \in 0..MaxPushed
    BY <2>2, DispatchAssumption
  <2>. QED
    BY <2>1, <2>2, <2>3, <2>4, <2>5, <2>6 DEF TypeOK
<1>4. ASSUME Notify PROVE TypeOK'
  BY <1>4 DEF TypeOK, Notify
<1>5. ASSUME ServerSignal PROVE TypeOK'
  BY <1>5 DEF TypeOK, ServerSignal, Signal, Goto, PCs
<1>6. ASSUME NotifyClose PROVE TypeOK'
  BY <1>6 DEF TypeOK, NotifyClose, Shown, Live
<1>7. ASSUME NotifyReply PROVE TypeOK'
  <2>1. (pc \in [Handlers -> PCs])'
    BY <1>7, ZenonT(60) DEF TypeOK, NotifyReply, Goto, PCs, Signal, Return
  <2>2. (replies \in Seq(1..MaxAsked))'
    <3>1. withdrawn \in Questions
      BY <1>7 DEF TypeOK, NotifyReply, WithdrawnInTransit
    <3>2. withdrawn.n \in 1..MaxAsked
      BY <3>1 DEF Questions
    <3>. QED
      BY <1>7, <3>2 DEF TypeOK, NotifyReply
  <2>3. (withdrawn \in Questions \cup {NoQuestion})'
    BY <1>7 DEF TypeOK, NotifyReply
  <2>4. (server \in {"idle", "signal", "close", "reply"})'
    BY <1>7 DEF TypeOK, NotifyReply
  <2>. QED
    BY <1>7, <2>1, <2>2, <2>3, <2>4 DEF TypeOK, NotifyReply
<1>8. ASSUME Ask PROVE TypeOK'
  <2>1. (asked \in 0..MaxAsked)'
    BY <1>8 DEF TypeOK, Ask
  <2>2. (asker \in {"idle", "sent", "waiting"})'
    BY <1>8 DEF TypeOK, Ask
  <2>. QED
    BY <1>8, <2>1, <2>2 DEF TypeOK, Ask
<1>9. ASSUME NEW text \in Texts, AnswerQuestion(text) PROVE TypeOK'
  <2>1. (question \in Questions \cup {NoQuestion})'
    <3>1. asked \in 1..MaxAsked
      BY <1>9 DEF TypeOK, AnswerQuestion, InRange
    <3>. QED
      BY <1>9, <3>1 DEF AnswerQuestion, Questions
  <2>2. (asker \in {"idle", "sent", "waiting"})'
    BY <1>9 DEF TypeOK, AnswerQuestion
  <2>. QED
    BY <1>9, <2>1, <2>2 DEF TypeOK, AnswerQuestion
<1>10. ASSUME AnswerQuestionSignal PROVE TypeOK'
  BY <1>10, ZenonT(60) DEF TypeOK, AnswerQuestionSignal, Signal, Goto, PCs
<1>11. ASSUME ReadReply PROVE TypeOK'
  <2>1. (replies \in Seq(1..MaxAsked))'
    BY <1>11 DEF TypeOK, ReadReply, Questions
  <2>2. (asker \in {"idle", "sent", "waiting"})'
    BY <1>11 DEF TypeOK, ReadReply
  <2>. QED
    BY <1>11, <2>1, <2>2 DEF TypeOK, ReadReply
<1>12. ASSUME CatchTimer PROVE TypeOK'
  <2>1. (repairCounter \in -1..Intervals - 1)'
    <3>1. repairCounter \in 0..Intervals - 1
      BY <1>12 DEF TypeOK, CatchTimer
    <3>2. CASE repairCounter + 1 = Intervals
      BY <1>12, <3>1, <3>2 DEF CatchTimer
    <3>3. CASE repairCounter + 1 # Intervals
      BY <1>12, <3>1, <3>3 DEF CatchTimer
    <3>. QED
      BY <3>2, <3>3
  <2>2. (timer \in BOOLEAN /\ (timer => repairCounter # -1))'
    <3>1. repairCounter \in 0..Intervals - 1
      BY <1>12 DEF TypeOK, CatchTimer
    <3>2. CASE repairCounter + 1 = Intervals
      BY <1>12, <3>2 DEF CatchTimer
    <3>3. CASE repairCounter + 1 # Intervals
      BY <1>12, <3>1, <3>3 DEF CatchTimer
    <3>. QED
      BY <3>2, <3>3
  <2>3. (repairLock \in Clients \cup {Nobody})'
    BY <1>12 DEF TypeOK, CatchTimer, Live, Nobody, Slots
  <2>. QED
    BY <1>12, <2>1, <2>2, <2>3 DEF TypeOK, CatchTimer
<1>13. ASSUME NEW h \in Handlers, Check(h) PROVE TypeOK'
  BY <1>13 DEF TypeOK, Check, Goto, PCs
<1>14. ASSUME NEW h \in Handlers, Wait(h) PROVE TypeOK'
  BY <1>14 DEF TypeOK, Wait, Goto, PCs
<1>15. ASSUME NEW h \in Handlers, Peek(h) PROVE TypeOK'
  <2>1. (cmd \in [Handlers -> Commands \cup {NoCommand}])'
    <3>1. messageQueue # <<>> => Head(messageQueue) \in Commands
      BY HeadTailProperties DEF TypeOK
    <3>. QED
      BY <1>15, <3>1 DEF TypeOK, Peek
  <2>2. (pc \in [Handlers -> PCs])'
    BY <1>15, ZenonT(60) DEF TypeOK, Peek, Goto, PCs, Signal, Return
  <2>. QED
    BY <1>15, <2>1, <2>2 DEF TypeOK, Peek
<1>16. ASSUME NEW h \in Handlers, Decide(h) PROVE TypeOK'
  BY <1>16 DEF TypeOK, Decide, Goto, PCs
<1>17. ASSUME NEW h \in Handlers, RouteDead(h) PROVE TypeOK'
  <2>1. (messageQueue \in Seq(Commands))'
    BY <1>17 DEF TypeOK, RouteDead, Commands, Dequeue, Questions, Slots, Live
  <2>2. (pc \in [Handlers -> PCs])'
    BY <1>17 DEF TypeOK, RouteDead, Goto, PCs, Signal, Return
  <2>. QED
    BY <1>17, <2>1, <2>2 DEF TypeOK, RouteDead
<1>18. ASSUME NEW h \in Handlers, RouteDrop(h) PROVE TypeOK'
  BY <1>18 DEF TypeOK, RouteDrop, Goto, PCs
<1>19. ASSUME NEW h \in Handlers, RouteTake(h) PROVE TypeOK'
  <2>1. (/\ repairLock \in Clients \cup {Nobody} /\ repairCounter \in -1..Intervals - 1
         /\ timer \in BOOLEAN /\ (timer => repairCounter # -1))'
    <3>1. ArmTimer \/ UNCHANGED <<repairLock, repairCounter, timer>>
      BY <1>19 DEF RouteTake, lockVars
    <3>2. CASE ArmTimer
      BY <3>2 DEF TypeOK, ArmTimer
    <3>3. CASE UNCHANGED <<repairLock, repairCounter, timer>>
      BY <3>3 DEF TypeOK
    <3>. QED
      BY <3>1, <3>2, <3>3
  <2>2. (skip \in [Handlers -> BOOLEAN])'
    BY <1>19 DEF TypeOK, RouteTake
  <2>3. (pc \in [Handlers -> PCs])'
    BY <1>19 DEF TypeOK, RouteTake, Goto, PCs, Signal, Return
  <2>. QED
    BY <1>19, <2>1, <2>2, <2>3 DEF TypeOK, RouteTake
<1>20. ASSUME NEW h \in Handlers, Drop(h) PROVE TypeOK'
  <2>1. (messageQueue \in Seq(Commands))'
    BY <1>20 DEF TypeOK, Drop, Commands, Dequeue, Questions, Slots, Live
  <2>2. (pc \in [Handlers -> PCs])'
    BY <1>20 DEF TypeOK, Drop, Goto, PCs, Signal, Return
  <2>. QED
    BY <1>20, <2>1, <2>2 DEF TypeOK, Drop
<1>21. ASSUME NEW h \in Handlers, Take(h) PROVE TypeOK'
  <2>1. (messageQueue \in Seq(Commands))'
    BY <1>21 DEF TypeOK, Take, Commands, Dequeue, Questions, Slots, Live
  <2>2. (pc \in [Handlers -> PCs])'
    BY <1>21 DEF TypeOK, Take, Goto, PCs, Signal, Return
  <2>. QED
    BY <1>21, <2>1, <2>2 DEF TypeOK, Take
<1>22. ASSUME NEW h \in Handlers, After(h) PROVE TypeOK'
  BY <1>22 DEF TypeOK, After, Goto, PCs
<1>23. ASSUME NEW h \in Handlers, HandleData(h) PROVE TypeOK'
  <2>1. (lastHandled \in 0..MaxPushed)'
    BY <1>23, CommandFields DEF TypeOK, HandleData, Handled
  <2>2. (pc \in [Handlers -> PCs])'
    BY <1>23 DEF TypeOK, HandleData, Goto, PCs, Signal, Return
  <2>. QED
    BY <1>23, <2>1, <2>2 DEF TypeOK, HandleData
<1>24. ASSUME NEW h \in Handlers, HandleLock(h) PROVE TypeOK'
  <2>1. (lastHandled \in 0..MaxPushed)'
    BY <1>24, CommandFields DEF TypeOK, HandleLock, Handled
  <2>2. (repairLock \in Clients \cup {Nobody})'
    <3>1. threadIP[cmd[h].connection] \in Clients \cup {Nobody}
      BY CommandFields DEF TypeOK
    <3>. QED
      BY <1>24, <3>1 DEF TypeOK, HandleLock
  <2>3. (pc \in [Handlers -> PCs])'
    BY <1>24 DEF TypeOK, HandleLock, Goto, PCs, Signal, Return
  <2>. QED
    BY <1>24, <2>1, <2>2, <2>3 DEF TypeOK, HandleLock
<1>25. ASSUME NEW h \in Handlers, HandleResponse(h) PROVE TypeOK'
  <2>1. (lastHandled \in 0..MaxPushed)'
    BY <1>25, CommandFields DEF TypeOK, HandleResponse, Handled
  <2>2. (repairCounter \in -1..Intervals - 1)'
    BY <1>25 DEF TypeOK, HandleResponse, ArmTimer
  <2>3. (question \in Questions \cup {NoQuestion})'
    BY <1>25 DEF TypeOK, HandleResponse, Questions
  <2>4. (replies \in Seq(1..MaxAsked))'
    <3>1. question # NoQuestion => question.n \in 1..MaxAsked
      BY DEF TypeOK, Questions
    <3>2. CASE cmd[h].kind = "answer" /\ question # NoQuestion
                 /\ cmd[h].about.text = question.text
      <4>1. replies' = Append(replies, question.n)
        BY <1>25, <3>2 DEF HandleResponse
      <4>. QED
        BY <3>1, <3>2, <4>1 DEF TypeOK
    <3>3. CASE ~(cmd[h].kind = "answer" /\ question # NoQuestion
                   /\ cmd[h].about.text = question.text)
      BY <1>25, <3>3 DEF TypeOK, HandleResponse
    <3>. QED
      BY <3>2, <3>3
  <2>5. (pc \in [Handlers -> PCs])'
    BY <1>25 DEF TypeOK, HandleResponse, Goto, PCs, Signal, Return
  <2>. QED
    BY <1>25, <2>1, <2>2, <2>3, <2>4, <2>5 DEF TypeOK, HandleResponse
<1>26. ASSUME NEW h \in Handlers, HandleDefer(h) PROVE TypeOK'
  BY <1>26, ZenonT(60) DEF TypeOK, HandleDefer, Goto, PCs, Commands, NoCommand
<1>27. ASSUME NEW h \in Handlers, HandleClose(h) PROVE TypeOK'
  BY <1>27 DEF TypeOK, HandleClose, Goto, PCs, Shown
<1>28. ASSUME NEW h \in Handlers, AskOrNot(h) PROVE TypeOK'
  BY <1>28 DEF TypeOK, AskOrNot, Goto, PCs
<1>29. ASSUME NEW h \in Handlers, Start(h) PROVE TypeOK'
  BY <1>29 DEF TypeOK, Start, Goto, PCs
<1>30. ASSUME NEW h \in Handlers, ShowNot(h) PROVE TypeOK'
  <2>1. (at \in [Handlers -> 0..Connections])'
    BY <1>30 DEF TypeOK, ShowNot, NextSlot, AtSlot, Slots, Return, InRange, Goto
  <2>. QED
    BY <1>30, <2>1 DEF TypeOK, ShowNot
<1>31. ASSUME NEW h \in Handlers, Withhold(h) PROVE TypeOK'
  <2>1. (/\ repairLock \in Clients \cup {Nobody} /\ repairCounter \in -1..Intervals - 1
         /\ timer \in BOOLEAN /\ (timer => repairCounter # -1))'
    BY <1>31 DEF TypeOK, Withhold, ArmTimer
  <2>2. (at \in [Handlers -> 0..Connections])'
    BY <1>31 DEF TypeOK, Withhold, NextSlot, AtSlot, Slots, Return, InRange, Goto
  <2>. QED
    BY <1>31, <2>1, <2>2 DEF TypeOK, Withhold
<1>32. ASSUME NEW h \in Handlers, Compose(h) PROVE TypeOK'
  <2>1. (pc \in [Handlers -> PCs])'
    BY <1>32 DEF TypeOK, Compose, Goto, PCs, Signal, Return
  <2>2. (at \in [Handlers -> 0..Connections])'
    <3>1. at' = at \/ at' = [at EXCEPT ![h] = 0]
      BY <1>32 DEF Compose, Return
    <3>2. 0 \in 0..Connections
      BY DispatchAssumption
    <3>. QED
      BY ONLY <3>1, <3>2, TypeOK DEF TypeOK
  <2>3. (sending \in [Handlers -> Questions \cup {NoQuestion}])'
    BY <1>32 DEF TypeOK, Compose
  <2>. QED
    BY <1>32, <2>1, <2>2, <2>3 DEF TypeOK, Compose
<1>33. ASSUME NEW h \in Handlers, Send(h) PROVE TypeOK'
  <2>1. (box \in [Clients -> Questions \cup {NoQuestion}])'
    BY <1>33 DEF TypeOK, Send, Shown
  <2>2. (sending \in [Handlers -> Questions \cup {NoQuestion}])'
    BY <1>33 DEF TypeOK, Send
  <2>3. (pc \in [Handlers -> PCs])'
    BY <1>33 DEF TypeOK, Send, Goto, PCs, Signal, Return
  <2>4. (at \in [Handlers -> 0..Connections])'
    BY <1>33 DEF TypeOK, Send, NextSlot, AtSlot, Slots, Return, InRange, Goto
  <2>. QED
    BY <1>33, <2>1, <2>2, <2>3, <2>4 DEF TypeOK, Send
<1>34. ASSUME NEW h \in Handlers, ShowEnd(h) PROVE TypeOK'
  <2>1. (pc \in [Handlers -> PCs])'
    BY <1>34 DEF TypeOK, ShowEnd, Goto, PCs, Signal, Return
  <2>2. (at \in [Handlers -> 0..Connections])'
    BY <1>34 DEF TypeOK, ShowEnd, NextSlot, AtSlot, Slots, Return, InRange, Goto
  <2>. QED
    BY <1>34, <2>1, <2>2 DEF TypeOK, ShowEnd
<1>35. ASSUME NEW h \in Handlers, SpuriousWakeup(h) PROVE TypeOK'
  BY <1>35 DEF TypeOK, SpuriousWakeup, Goto, PCs
<1>. QED
  BY <1>1, <1>2, <1>3, <1>4, <1>5, <1>6, <1>7, <1>8, <1>9, <1>10, <1>11, <1>12, <1>13,
     <1>14, <1>15, <1>16, <1>17, <1>18, <1>19, <1>20, <1>21, <1>22, <1>23, <1>24, <1>25,
     <1>26, <1>27, <1>28, <1>29, <1>30, <1>31, <1>32, <1>33, <1>34, <1>35 DEF Next,
     ServerStep, HandlerStep

\* Every step keeps the balance of questions and replies.
LEMMA RepliesKept ==
  ASSUME RepliesIInv, Next
  PROVE  Owed(question', withdrawn', replies', asked', asker')
<1>. USE DispatchAssumption DEF RepliesIInv, RepliesInv,
            queueVars, tableVars, lockVars, handlerVars, serverVars, askVars
<1>. Owed(question, withdrawn, replies, asked, asker)
  BY OneReplyIsOwed
<1>1. ASSUME NEW c \in Clients, Connect(c)
      PROVE  Owed(question', withdrawn', replies', asked', asker')
  <2>. UNCHANGED <<question, withdrawn, replies, asked, asker>>
    BY <1>1 DEF Connect
  <2>. QED
    BY Zenon
<1>2. ASSUME NEW s \in Slots, Leave(s)
      PROVE  Owed(question', withdrawn', replies', asked', asker')
  <2>. UNCHANGED <<question, withdrawn, replies, asked, asker>>
    BY <1>2 DEF Leave
  <2>. QED
    BY Zenon
<1>3. ASSUME NEW s \in Slots, NEW kind \in Kinds, PushThreadCommand(s, kind)
      PROVE  Owed(question', withdrawn', replies', asked', asker')
  <2>. UNCHANGED <<question, withdrawn, replies, asked, asker>>
    BY <1>3 DEF PushThreadCommand
  <2>. QED
    BY Zenon
<1>4. ASSUME Notify PROVE Owed(question', withdrawn', replies', asked', asker')
  BY <1>4 DEF Notify, Owed, Single, WithdrawnInTransit, NoQuestion, Questions, TypeOK
<1>5. ASSUME ServerSignal PROVE Owed(question', withdrawn', replies', asked', asker')
  <2>. UNCHANGED <<question, withdrawn, replies, asked, asker>>
    BY <1>5 DEF ServerSignal
  <2>. QED
    BY Zenon
<1>6. ASSUME NotifyClose PROVE Owed(question', withdrawn', replies', asked', asker')
  <2>. UNCHANGED <<question, withdrawn, replies, asked, asker>>
    BY <1>6 DEF NotifyClose
  <2>. QED
    BY Zenon
<1>7. ASSUME NotifyReply PROVE Owed(question', withdrawn', replies', asked', asker')
  <2>1. /\ question = NoQuestion /\ withdrawn.n = asked /\ asker = "waiting" /\ replies = <<>>
    BY <1>7 DEF NotifyReply, WithdrawnInTransit, Owed
  <2>2. /\ question' = question /\ withdrawn' = NoQuestion /\ UNCHANGED <<asked, asker>>
        /\ replies' = Append(replies, withdrawn.n)
    BY <1>7 DEF NotifyReply, askVars
  <2>3. replies' = Single(asked)
    <3>1. replies' = Append(<<>>, asked)
      BY <2>1, <2>2
    <3>. QED
      BY <3>1 DEF Single
  <2>. QED
    BY <2>1, <2>2, <2>3, Zenon DEF Owed
<1>8. ASSUME Ask PROVE Owed(question', withdrawn', replies', asked', asker')
  BY <1>8 DEF Ask, Owed, Single, WithdrawnInTransit, NoQuestion, Questions, TypeOK
<1>9. ASSUME NEW text \in Texts, AnswerQuestion(text)
      PROVE  Owed(question', withdrawn', replies', asked', asker')
  <2>1. asked > 0 /\ question = NoQuestion /\ withdrawn = NoQuestion /\ replies = <<>>
    BY <1>9 DEF AnswerQuestion, InRange, Owed
  <2>2. /\ question' = [text |-> text, n |-> asked] /\ asker' = "waiting"
        /\ UNCHANGED <<withdrawn, replies, asked>>
    BY <1>9 DEF AnswerQuestion, serverVars
  <2>3. question'.n = asked /\ question' # NoQuestion
    <3>1. question'.n = asked
      BY <2>2
    <3>2. NoQuestion.n = 0
      BY DEF NoQuestion
    <3>. QED
      BY <2>1, <3>1, <3>2 DEF TypeOK
  <2>. QED
    BY <2>1, <2>2, <2>3, Zenon DEF Owed
<1>10. ASSUME AnswerQuestionSignal
      PROVE  Owed(question', withdrawn', replies', asked', asker')
  <2>. UNCHANGED <<question, withdrawn, replies, asked, asker>>
    BY <1>10 DEF AnswerQuestionSignal
  <2>. QED
    BY Zenon
<1>11. ASSUME ReadReply PROVE Owed(question', withdrawn', replies', asked', asker')
  BY <1>11 DEF ReadReply, Owed, Single, WithdrawnInTransit, NoQuestion, Questions, TypeOK
<1>12. ASSUME CatchTimer PROVE Owed(question', withdrawn', replies', asked', asker')
  <2>. UNCHANGED <<question, withdrawn, replies, asked, asker>>
    BY <1>12 DEF CatchTimer
  <2>. QED
    BY Zenon
<1>13. ASSUME NEW h \in Handlers, Check(h)
      PROVE  Owed(question', withdrawn', replies', asked', asker')
  <2>. UNCHANGED <<question, withdrawn, replies, asked, asker>>
    BY <1>13 DEF Check
  <2>. QED
    BY Zenon
<1>14. ASSUME NEW h \in Handlers, Wait(h)
      PROVE  Owed(question', withdrawn', replies', asked', asker')
  <2>. UNCHANGED <<question, withdrawn, replies, asked, asker>>
    BY <1>14 DEF Wait
  <2>. QED
    BY Zenon
<1>15. ASSUME NEW h \in Handlers, Peek(h)
      PROVE  Owed(question', withdrawn', replies', asked', asker')
  <2>. UNCHANGED <<question, withdrawn, replies, asked, asker>>
    BY <1>15 DEF Peek
  <2>. QED
    BY Zenon
<1>16. ASSUME NEW h \in Handlers, Decide(h)
      PROVE  Owed(question', withdrawn', replies', asked', asker')
  <2>. UNCHANGED <<question, withdrawn, replies, asked, asker>>
    BY <1>16 DEF Decide
  <2>. QED
    BY Zenon
<1>17. ASSUME NEW h \in Handlers, RouteDead(h)
      PROVE  Owed(question', withdrawn', replies', asked', asker')
  <2>. UNCHANGED <<question, withdrawn, replies, asked, asker>>
    BY <1>17 DEF RouteDead
  <2>. QED
    BY Zenon
<1>18. ASSUME NEW h \in Handlers, RouteDrop(h)
      PROVE  Owed(question', withdrawn', replies', asked', asker')
  <2>. UNCHANGED <<question, withdrawn, replies, asked, asker>>
    BY <1>18 DEF RouteDrop
  <2>. QED
    BY Zenon
<1>19. ASSUME NEW h \in Handlers, RouteTake(h)
      PROVE  Owed(question', withdrawn', replies', asked', asker')
  <2>. UNCHANGED <<question, withdrawn, replies, asked, asker>>
    BY <1>19 DEF RouteTake
  <2>. QED
    BY Zenon
<1>20. ASSUME NEW h \in Handlers, Drop(h)
      PROVE  Owed(question', withdrawn', replies', asked', asker')
  <2>. UNCHANGED <<question, withdrawn, replies, asked, asker>>
    BY <1>20 DEF Drop
  <2>. QED
    BY Zenon
<1>21. ASSUME NEW h \in Handlers, Take(h)
      PROVE  Owed(question', withdrawn', replies', asked', asker')
  <2>. UNCHANGED <<question, withdrawn, replies, asked, asker>>
    BY <1>21 DEF Take
  <2>. QED
    BY Zenon
<1>22. ASSUME NEW h \in Handlers, After(h)
      PROVE  Owed(question', withdrawn', replies', asked', asker')
  <2>. UNCHANGED <<question, withdrawn, replies, asked, asker>>
    BY <1>22 DEF After
  <2>. QED
    BY Zenon
<1>23. ASSUME NEW h \in Handlers, HandleData(h)
      PROVE  Owed(question', withdrawn', replies', asked', asker')
  <2>. UNCHANGED <<question, withdrawn, replies, asked, asker>>
    BY <1>23 DEF HandleData
  <2>. QED
    BY Zenon
<1>24. ASSUME NEW h \in Handlers, HandleLock(h)
      PROVE  Owed(question', withdrawn', replies', asked', asker')
  <2>. UNCHANGED <<question, withdrawn, replies, asked, asker>>
    BY <1>24 DEF HandleLock
  <2>. QED
    BY Zenon
<1>25. ASSUME NEW h \in Handlers, HandleResponse(h)
      PROVE  Owed(question', withdrawn', replies', asked', asker')
  <2>1. UNCHANGED <<withdrawn, asked, asker>>
    BY <1>25 DEF HandleResponse
  <2>2. CASE cmd[h].kind = "answer" /\ question # NoQuestion /\ cmd[h].about.text = question.text
    <3>1. question' = NoQuestion /\ replies' = Append(replies, question.n)
      BY <1>25, <2>2 DEF HandleResponse
    <3>. QED
      <4>1. question.n = asked /\ withdrawn = NoQuestion /\ asker = "waiting" /\ replies = <<>>
        BY <2>2 DEF Owed
      <4>2. replies' = Append(<<>>, asked)
        BY <3>1, <4>1
      <4>3. replies' = Single(asked)
        BY <4>2 DEF Single
      <4>. QED
        BY <2>1, <3>1, <4>1, <4>3, Zenon DEF Owed
  <2>3. CASE ~(cmd[h].kind = "answer" /\ question # NoQuestion /\ cmd[h].about.text = question.text)
    <3>1. UNCHANGED <<question, replies>>
      BY <1>25, <2>3 DEF HandleResponse
    <3>. QED
      BY <2>1, <3>1, Zenon
  <2>. QED
    BY <2>2, <2>3
<1>26. ASSUME NEW h \in Handlers, HandleDefer(h)
      PROVE  Owed(question', withdrawn', replies', asked', asker')
  <2>. UNCHANGED <<question, withdrawn, replies, asked, asker>>
    BY <1>26 DEF HandleDefer
  <2>. QED
    BY Zenon
<1>27. ASSUME NEW h \in Handlers, HandleClose(h)
      PROVE  Owed(question', withdrawn', replies', asked', asker')
  <2>. UNCHANGED <<question, withdrawn, replies, asked, asker>>
    BY <1>27 DEF HandleClose
  <2>. QED
    BY Zenon
<1>28. ASSUME NEW h \in Handlers, AskOrNot(h)
      PROVE  Owed(question', withdrawn', replies', asked', asker')
  <2>. UNCHANGED <<question, withdrawn, replies, asked, asker>>
    BY <1>28 DEF AskOrNot
  <2>. QED
    BY Zenon
<1>29. ASSUME NEW h \in Handlers, Start(h)
      PROVE  Owed(question', withdrawn', replies', asked', asker')
  <2>. UNCHANGED <<question, withdrawn, replies, asked, asker>>
    BY <1>29 DEF Start
  <2>. QED
    BY Zenon
<1>30. ASSUME NEW h \in Handlers, ShowNot(h)
      PROVE  Owed(question', withdrawn', replies', asked', asker')
  <2>. UNCHANGED <<question, withdrawn, replies, asked, asker>>
    BY <1>30 DEF ShowNot
  <2>. QED
    BY Zenon
<1>31. ASSUME NEW h \in Handlers, Withhold(h)
      PROVE  Owed(question', withdrawn', replies', asked', asker')
  <2>. UNCHANGED <<question, withdrawn, replies, asked, asker>>
    BY <1>31 DEF Withhold
  <2>. QED
    BY Zenon
<1>32. ASSUME NEW h \in Handlers, Compose(h)
      PROVE  Owed(question', withdrawn', replies', asked', asker')
  <2>. UNCHANGED <<question, withdrawn, replies, asked, asker>>
    BY <1>32 DEF Compose
  <2>. QED
    BY Zenon
<1>33. ASSUME NEW h \in Handlers, Send(h)
      PROVE  Owed(question', withdrawn', replies', asked', asker')
  <2>. UNCHANGED <<question, withdrawn, replies, asked, asker>>
    BY <1>33 DEF Send
  <2>. QED
    BY Zenon
<1>34. ASSUME NEW h \in Handlers, ShowEnd(h)
      PROVE  Owed(question', withdrawn', replies', asked', asker')
  <2>. UNCHANGED <<question, withdrawn, replies, asked, asker>>
    BY <1>34 DEF ShowEnd
  <2>. QED
    BY Zenon
<1>35. ASSUME NEW h \in Handlers, SpuriousWakeup(h)
      PROVE  Owed(question', withdrawn', replies', asked', asker')
  <2>. UNCHANGED <<question, withdrawn, replies, asked, asker>>
    BY <1>35 DEF SpuriousWakeup
  <2>. QED
    BY Zenon
<1>. QED
  BY <1>1, <1>2, <1>3, <1>4, <1>5, <1>6, <1>7, <1>8, <1>9, <1>10, <1>11, <1>12, <1>13,
     <1>14, <1>15, <1>16, <1>17, <1>18, <1>19, <1>20, <1>21, <1>22, <1>23, <1>24, <1>25,
     <1>26, <1>27, <1>28, <1>29, <1>30, <1>31, <1>32, <1>33, <1>34, <1>35 DEF Next,
     ServerStep, HandlerStep

\* Every step keeps the rest of the strengthening.
LEMMA TransitKept ==
  ASSUME RepliesIInv, Next
  PROVE  WithdrawnInTransit'
<1>. USE DispatchAssumption DEF RepliesIInv, RepliesInv,
            queueVars, tableVars, lockVars, handlerVars, serverVars, askVars
<1>1. ASSUME NEW c \in Clients, Connect(c) PROVE WithdrawnInTransit'
  BY <1>1 DEF WithdrawnInTransit, Connect
<1>2. ASSUME NEW s \in Slots, Leave(s) PROVE WithdrawnInTransit'
  BY <1>2 DEF WithdrawnInTransit, Leave
<1>3. ASSUME NEW s \in Slots, NEW kind \in Kinds, PushThreadCommand(s, kind)
      PROVE  WithdrawnInTransit'
  BY <1>3 DEF WithdrawnInTransit, PushThreadCommand
<1>4. ASSUME Notify PROVE WithdrawnInTransit'
  BY <1>4 DEF WithdrawnInTransit, Notify
<1>5. ASSUME ServerSignal PROVE WithdrawnInTransit'
  BY <1>5 DEF WithdrawnInTransit, ServerSignal
<1>6. ASSUME NotifyClose PROVE WithdrawnInTransit'
  BY <1>6 DEF WithdrawnInTransit, NotifyClose
<1>7. ASSUME NotifyReply PROVE WithdrawnInTransit'
  BY <1>7 DEF WithdrawnInTransit, NotifyReply
<1>8. ASSUME Ask PROVE WithdrawnInTransit'
  BY <1>8 DEF WithdrawnInTransit, Ask
<1>9. ASSUME NEW text \in Texts, AnswerQuestion(text) PROVE WithdrawnInTransit'
  BY <1>9 DEF WithdrawnInTransit, AnswerQuestion
<1>10. ASSUME AnswerQuestionSignal PROVE WithdrawnInTransit'
  BY <1>10 DEF WithdrawnInTransit, AnswerQuestionSignal
<1>11. ASSUME ReadReply PROVE WithdrawnInTransit'
  BY <1>11 DEF WithdrawnInTransit, ReadReply
<1>12. ASSUME CatchTimer PROVE WithdrawnInTransit'
  BY <1>12 DEF WithdrawnInTransit, CatchTimer
<1>13. ASSUME NEW h \in Handlers, Check(h) PROVE WithdrawnInTransit'
  BY <1>13 DEF WithdrawnInTransit, Check
<1>14. ASSUME NEW h \in Handlers, Wait(h) PROVE WithdrawnInTransit'
  BY <1>14 DEF WithdrawnInTransit, Wait
<1>15. ASSUME NEW h \in Handlers, Peek(h) PROVE WithdrawnInTransit'
  BY <1>15 DEF WithdrawnInTransit, Peek
<1>16. ASSUME NEW h \in Handlers, Decide(h) PROVE WithdrawnInTransit'
  BY <1>16 DEF WithdrawnInTransit, Decide
<1>17. ASSUME NEW h \in Handlers, RouteDead(h) PROVE WithdrawnInTransit'
  BY <1>17 DEF WithdrawnInTransit, RouteDead
<1>18. ASSUME NEW h \in Handlers, RouteDrop(h) PROVE WithdrawnInTransit'
  BY <1>18 DEF WithdrawnInTransit, RouteDrop
<1>19. ASSUME NEW h \in Handlers, RouteTake(h) PROVE WithdrawnInTransit'
  BY <1>19 DEF WithdrawnInTransit, RouteTake
<1>20. ASSUME NEW h \in Handlers, Drop(h) PROVE WithdrawnInTransit'
  BY <1>20 DEF WithdrawnInTransit, Drop
<1>21. ASSUME NEW h \in Handlers, Take(h) PROVE WithdrawnInTransit'
  BY <1>21 DEF WithdrawnInTransit, Take
<1>22. ASSUME NEW h \in Handlers, After(h) PROVE WithdrawnInTransit'
  BY <1>22 DEF WithdrawnInTransit, After
<1>23. ASSUME NEW h \in Handlers, HandleData(h) PROVE WithdrawnInTransit'
  BY <1>23 DEF WithdrawnInTransit, HandleData
<1>24. ASSUME NEW h \in Handlers, HandleLock(h) PROVE WithdrawnInTransit'
  BY <1>24 DEF WithdrawnInTransit, HandleLock
<1>25. ASSUME NEW h \in Handlers, HandleResponse(h) PROVE WithdrawnInTransit'
  BY <1>25 DEF WithdrawnInTransit, HandleResponse
<1>26. ASSUME NEW h \in Handlers, HandleDefer(h) PROVE WithdrawnInTransit'
  BY <1>26 DEF WithdrawnInTransit, HandleDefer
<1>27. ASSUME NEW h \in Handlers, HandleClose(h) PROVE WithdrawnInTransit'
  BY <1>27 DEF WithdrawnInTransit, HandleClose
<1>28. ASSUME NEW h \in Handlers, AskOrNot(h) PROVE WithdrawnInTransit'
  BY <1>28 DEF WithdrawnInTransit, AskOrNot
<1>29. ASSUME NEW h \in Handlers, Start(h) PROVE WithdrawnInTransit'
  BY <1>29 DEF WithdrawnInTransit, Start
<1>30. ASSUME NEW h \in Handlers, ShowNot(h) PROVE WithdrawnInTransit'
  BY <1>30 DEF WithdrawnInTransit, ShowNot
<1>31. ASSUME NEW h \in Handlers, Withhold(h) PROVE WithdrawnInTransit'
  BY <1>31 DEF WithdrawnInTransit, Withhold
<1>32. ASSUME NEW h \in Handlers, Compose(h) PROVE WithdrawnInTransit'
  BY <1>32 DEF WithdrawnInTransit, Compose
<1>33. ASSUME NEW h \in Handlers, Send(h) PROVE WithdrawnInTransit'
  BY <1>33 DEF WithdrawnInTransit, Send
<1>34. ASSUME NEW h \in Handlers, ShowEnd(h) PROVE WithdrawnInTransit'
  BY <1>34 DEF WithdrawnInTransit, ShowEnd
<1>35. ASSUME NEW h \in Handlers, SpuriousWakeup(h) PROVE WithdrawnInTransit'
  BY <1>35 DEF WithdrawnInTransit, SpuriousWakeup
<1>. QED
  BY <1>1, <1>2, <1>3, <1>4, <1>5, <1>6, <1>7, <1>8, <1>9, <1>10, <1>11, <1>12, <1>13,
     <1>14, <1>15, <1>16, <1>17, <1>18, <1>19, <1>20, <1>21, <1>22, <1>23, <1>24, <1>25,
     <1>26, <1>27, <1>28, <1>29, <1>30, <1>31, <1>32, <1>33, <1>34, <1>35 DEF Next,
     ServerStep, HandlerStep

LEMMA RangeKept ==
  ASSUME RepliesIInv, Next
  PROVE  InRange'
<1>. USE DispatchAssumption DEF RepliesIInv, RepliesInv,
            queueVars, tableVars, lockVars, handlerVars, serverVars, askVars
<1>1. ASSUME NEW c \in Clients, Connect(c) PROVE InRange'
  BY <1>1 DEF InRange, TypeOK, Connect, Goto
<1>2. ASSUME NEW s \in Slots, Leave(s) PROVE InRange'
  BY <1>2 DEF InRange, TypeOK, Leave, Goto
<1>3. ASSUME NEW s \in Slots, NEW kind \in Kinds, PushThreadCommand(s, kind) PROVE InRange'
  BY <1>3 DEF InRange, TypeOK, PushThreadCommand, Goto
<1>4. ASSUME Notify PROVE InRange'
  BY <1>4 DEF InRange, TypeOK, Notify, Goto
<1>5. ASSUME ServerSignal PROVE InRange'
  BY <1>5 DEF InRange, TypeOK, ServerSignal, Goto, Signal
<1>6. ASSUME NotifyClose PROVE InRange'
  BY <1>6 DEF InRange, TypeOK, NotifyClose, Goto
<1>7. ASSUME NotifyReply PROVE InRange'
  BY <1>7 DEF InRange, TypeOK, NotifyReply, Goto, Signal
<1>8. ASSUME Ask PROVE InRange'
  BY <1>8 DEF InRange, TypeOK, Ask, Goto
<1>9. ASSUME NEW text \in Texts, AnswerQuestion(text) PROVE InRange'
  BY <1>9 DEF InRange, TypeOK, AnswerQuestion, Goto
<1>10. ASSUME AnswerQuestionSignal PROVE InRange'
  BY <1>10 DEF InRange, TypeOK, AnswerQuestionSignal, Goto, Signal
<1>11. ASSUME ReadReply PROVE InRange'
  BY <1>11 DEF InRange, TypeOK, ReadReply, Goto
<1>12. ASSUME CatchTimer PROVE InRange'
  BY <1>12 DEF InRange, TypeOK, CatchTimer, Goto
<1>13. ASSUME NEW h \in Handlers, Check(h) PROVE InRange'
  BY <1>13 DEF InRange, TypeOK, Check, Goto
<1>14. ASSUME NEW h \in Handlers, Wait(h) PROVE InRange'
  BY <1>14 DEF InRange, TypeOK, Wait, Goto
<1>15. ASSUME NEW h \in Handlers, Peek(h) PROVE InRange'
  BY <1>15 DEF InRange, TypeOK, Peek, Goto
<1>16. ASSUME NEW h \in Handlers, Decide(h) PROVE InRange'
  BY <1>16 DEF InRange, TypeOK, Decide, Goto
<1>17. ASSUME NEW h \in Handlers, RouteDead(h) PROVE InRange'
  BY <1>17 DEF InRange, TypeOK, RouteDead, Goto
<1>18. ASSUME NEW h \in Handlers, RouteDrop(h) PROVE InRange'
  BY <1>18 DEF InRange, TypeOK, RouteDrop, Goto
<1>19. ASSUME NEW h \in Handlers, RouteTake(h) PROVE InRange'
  BY <1>19 DEF InRange, TypeOK, RouteTake, Goto
<1>20. ASSUME NEW h \in Handlers, Drop(h) PROVE InRange'
  BY <1>20 DEF InRange, TypeOK, Drop, Goto
<1>21. ASSUME NEW h \in Handlers, Take(h) PROVE InRange'
  BY <1>21 DEF InRange, TypeOK, Take, Goto
<1>22. ASSUME NEW h \in Handlers, After(h) PROVE InRange'
  BY <1>22 DEF InRange, TypeOK, After, Goto
<1>23. ASSUME NEW h \in Handlers, HandleData(h) PROVE InRange'
  BY <1>23 DEF InRange, TypeOK, HandleData, Goto
<1>24. ASSUME NEW h \in Handlers, HandleLock(h) PROVE InRange'
  BY <1>24 DEF InRange, TypeOK, HandleLock, Goto
<1>25. ASSUME NEW h \in Handlers, HandleResponse(h) PROVE InRange'
  BY <1>25 DEF InRange, TypeOK, HandleResponse, Goto
<1>26. ASSUME NEW h \in Handlers, HandleDefer(h) PROVE InRange'
  BY <1>26 DEF InRange, TypeOK, HandleDefer, Goto
<1>27. ASSUME NEW h \in Handlers, HandleClose(h) PROVE InRange'
  BY <1>27 DEF InRange, TypeOK, HandleClose, Goto
<1>28. ASSUME NEW h \in Handlers, AskOrNot(h) PROVE InRange'
  BY <1>28 DEF InRange, TypeOK, AskOrNot, Goto
<1>29. ASSUME NEW h \in Handlers, Start(h) PROVE InRange'
  BY <1>29 DEF InRange, TypeOK, Start, Goto
<1>30. ASSUME NEW h \in Handlers, ShowNot(h) PROVE InRange'
  BY <1>30 DEF InRange, TypeOK, ShowNot, AtSlot, NextSlot
<1>31. ASSUME NEW h \in Handlers, Withhold(h) PROVE InRange'
  BY <1>31 DEF InRange, TypeOK, Withhold, AtSlot, NextSlot
<1>32. ASSUME NEW h \in Handlers, Compose(h) PROVE InRange'
  BY <1>32 DEF InRange, TypeOK, Compose, Goto, AtSlot, Return
<1>33. ASSUME NEW h \in Handlers, Send(h) PROVE InRange'
  BY <1>33 DEF InRange, TypeOK, Send, Goto, NextSlot
<1>34. ASSUME NEW h \in Handlers, ShowEnd(h) PROVE InRange'
  BY <1>34 DEF InRange, TypeOK, ShowEnd, Goto, Return
<1>35. ASSUME NEW h \in Handlers, SpuriousWakeup(h) PROVE InRange'
  BY <1>35 DEF InRange, TypeOK, SpuriousWakeup, Goto
<1>. QED
  BY <1>1, <1>2, <1>3, <1>4, <1>5, <1>6, <1>7, <1>8, <1>9, <1>10, <1>11, <1>12, <1>13,
     <1>14, <1>15, <1>16, <1>17, <1>18, <1>19, <1>20, <1>21, <1>22, <1>23, <1>24, <1>25,
     <1>26, <1>27, <1>28, <1>29, <1>30, <1>31, <1>32, <1>33, <1>34, <1>35 DEF Next,
     ServerStep, HandlerStep

-------------------------------------------------------------------------------
\* What is left of the queue when its front is taken stays in order.
LEMMA TailOrdered ==
  ASSUME TypeOK, QueueOrdered, messageQueue # <<>>, messageQueue' = Tail(messageQueue),
         UNCHANGED <<lastHandled, pushed>>
  PROVE  /\ QueueOrdered'
         /\ lastHandled < Head(messageQueue).n /\ Head(messageQueue).n <= pushed
         /\ \A k \in DOMAIN messageQueue' : Head(messageQueue).n < messageQueue'[k].n
<1>1. messageQueue \in Seq(Commands)
  BY DEF TypeOK
<1>2. /\ DOMAIN messageQueue = 1..Len(messageQueue) /\ Len(messageQueue) \in Nat \ {0}
      /\ DOMAIN Tail(messageQueue) = 1..Len(messageQueue) - 1
      /\ \A k \in 1..Len(messageQueue) - 1 : Tail(messageQueue)[k] = messageQueue[k + 1]
      /\ Head(messageQueue) = messageQueue[1]
  BY <1>1, HeadTailProperties, LenProperties, EmptySeq
<1>. QED
  BY <1>2 DEF QueueOrdered

\* Every step of a row with one handler keeps the order.
LEMMA OrderKept ==
  ASSUME RepliesIInv, OrderInv, Next, \A g, h \in Handlers : g = h
  PROVE  OrderInv'
<1>. USE DispatchAssumption DEF RepliesIInv, RepliesInv, OrderInv,
            queueVars, tableVars, lockVars, handlerVars, serverVars, askVars
<1>1. ASSUME NEW c \in Clients, Connect(c) PROVE OrderInv'
  BY <1>1 DEF TypeOK, QueueOrdered, HoldsFront, Connect, Goto
<1>2. ASSUME NEW s \in Slots, Leave(s) PROVE OrderInv'
  BY <1>2 DEF TypeOK, QueueOrdered, HoldsFront, Leave, Goto
<1>3. ASSUME NEW s \in Slots, NEW kind \in Kinds, PushThreadCommand(s, kind) PROVE OrderInv'
  <2> DEFINE new == [n |-> pushed', connection |-> s, kind |-> kind,
                     about |-> IF kind \in {"answer", "defer"} THEN box[threadIP[s]] ELSE NoQuestion]
  <2>1. /\ messageQueue' = Append(messageQueue, new) /\ new.n = pushed'
        /\ UNCHANGED <<pc, cmd>>
    BY <1>3 DEF PushThreadCommand
  <2>2. /\ messageQueue \in Seq(Commands) /\ pushed \in 0..MaxPushed
        /\ lastHandled \in 0..MaxPushed /\ lastHandled <= pushed
    BY DEF TypeOK, QueueOrdered
  <2>3. \/ pushed' = pushed + 1 /\ pushed < MaxPushed /\ lastHandled' = lastHandled
        \/ NoneLeft /\ pushed' = pushed /\ pushed = MaxPushed /\ lastHandled' = 0
    BY <1>3 DEF PushThreadCommand
  <2>4. new \in Commands
    BY <1>3, <2>2, <2>3 DEF TypeOK, PushThreadCommand, Live, Commands
  <2>. HIDE DEF new
  <2>5. /\ DOMAIN messageQueue = 1..Len(messageQueue) /\ Len(messageQueue) \in Nat
        /\ DOMAIN messageQueue' = 1..Len(messageQueue) + 1 /\ messageQueue' # <<>>
        /\ \A k \in 1..Len(messageQueue) : messageQueue'[k] = messageQueue[k]
        /\ messageQueue'[Len(messageQueue) + 1].n = pushed'
        /\ messageQueue # <<>> => Head(messageQueue') = Head(messageQueue)
    BY <2>1, <2>2, <2>4, AppendProperties, LenProperties, HeadTailAppend
  <2>6. \A g \in Handlers : cmd[g].n \in Nat
    BY CommandFields DEF TypeOK
  <2>7. CASE pushed' = pushed + 1 /\ lastHandled' = lastHandled
    <3>1. \A k \in 1..Len(messageQueue) : messageQueue[k].n \in Nat
      <4>1. \A k \in 1..Len(messageQueue) : messageQueue[k] \in Commands
        BY ElementOfSeq DEF TypeOK
      <4>2. \A x \in Commands : x.n \in 1..MaxPushed
        BY DEF Commands
      <4>. QED
        BY <4>1, <4>2, DispatchAssumption
    <3>2. QueueOrdered'
      BY <2>2, <2>5, <2>7, <3>1 DEF QueueOrdered
    <3>3. ASSUME NEW g \in Handlers PROVE HoldsFront(g)'
      BY <2>1, <2>2, <2>5, <2>6, <2>7, <3>1 DEF HoldsFront, QueueOrdered
    <3>. QED
      BY <3>2, <3>3
  <2>8. CASE NoneLeft /\ pushed' = MaxPushed /\ lastHandled' = 0
    <3>1. Len(messageQueue) = 0
      BY <2>8 DEF NoneLeft
    <3>2. QueueOrdered'
      BY <2>2, <2>5, <2>8, <3>1, DispatchAssumption DEF QueueOrdered
    <3>3. ASSUME NEW g \in Handlers PROVE HoldsFront(g)'
      <4>1. messageQueue = <<>> /\ cmd[g] = NoCommand
        BY <2>8 DEF NoneLeft
      <4>2. NoCommand.n = 0
        BY DEF NoCommand
      <4>3. cmd[g].n = 0
        BY <4>1, <4>2
      <4>4. lastHandled >= 0 /\ lastHandled \in Int
        BY <2>2, DispatchAssumption
      <4>. QED
        BY <2>1, <4>1, <4>3, <4>4 DEF HoldsFront
    <3>. QED
      BY <3>2, <3>3
  <2>. QED
    BY <2>3, <2>7, <2>8
<1>4. ASSUME Notify PROVE OrderInv'
  BY <1>4 DEF TypeOK, QueueOrdered, HoldsFront, Notify, Goto
<1>5. ASSUME ServerSignal PROVE OrderInv'
  BY <1>5 DEF TypeOK, QueueOrdered, HoldsFront, ServerSignal, Signal, Goto
<1>6. ASSUME NotifyClose PROVE OrderInv'
  BY <1>6 DEF TypeOK, QueueOrdered, HoldsFront, NotifyClose, Goto
<1>7. ASSUME NotifyReply PROVE OrderInv'
  BY <1>7 DEF TypeOK, QueueOrdered, HoldsFront, NotifyReply, Signal, Goto
<1>8. ASSUME Ask PROVE OrderInv'
  BY <1>8 DEF TypeOK, QueueOrdered, HoldsFront, Ask, Goto
<1>9. ASSUME NEW text \in Texts, AnswerQuestion(text) PROVE OrderInv'
  BY <1>9 DEF TypeOK, QueueOrdered, HoldsFront, AnswerQuestion, Goto
<1>10. ASSUME AnswerQuestionSignal PROVE OrderInv'
  BY <1>10 DEF TypeOK, QueueOrdered, HoldsFront, AnswerQuestionSignal, Signal, Goto
<1>11. ASSUME ReadReply PROVE OrderInv'
  BY <1>11 DEF TypeOK, QueueOrdered, HoldsFront, ReadReply, Goto
<1>12. ASSUME CatchTimer PROVE OrderInv'
  BY <1>12 DEF TypeOK, QueueOrdered, HoldsFront, CatchTimer, Goto
<1>13. ASSUME NEW h \in Handlers, Check(h) PROVE OrderInv'
  BY <1>13 DEF TypeOK, QueueOrdered, HoldsFront, Check, Goto
<1>14. ASSUME NEW h \in Handlers, Wait(h) PROVE OrderInv'
  BY <1>14 DEF TypeOK, QueueOrdered, HoldsFront, Wait, Goto
<1>15. ASSUME NEW h \in Handlers, Peek(h) PROVE OrderInv'
  <2>1. CASE messageQueue = <<>>
    BY <1>15, <2>1 DEF Peek, Goto, TypeOK, HoldsFront, QueueOrdered, queueVars
  <2>2. CASE messageQueue # <<>>
    BY <1>15, <2>2 DEF Peek, Goto, TypeOK, HoldsFront, QueueOrdered, queueVars
  <2>. QED
    BY <2>1, <2>2
<1>16. ASSUME NEW h \in Handlers, Decide(h) PROVE OrderInv'
  BY <1>16 DEF TypeOK, QueueOrdered, HoldsFront, Decide, Goto
<1>17. ASSUME NEW h \in Handlers, RouteDead(h) PROVE OrderInv'
  <2>1. /\ messageQueue # <<>> /\ messageQueue' = Tail(messageQueue)
        /\ UNCHANGED <<lastHandled, pushed, cmd>> /\ pc' = [pc EXCEPT ![h] = "after"]
    BY <1>17 DEF TypeOK, RouteDead, Dequeue, Goto, HoldsFront
  <2>2. QueueOrdered'
    BY <2>1, TailOrdered
  <2>. QED
    BY <2>1, <2>2 DEF HoldsFront, TypeOK
<1>18. ASSUME NEW h \in Handlers, RouteDrop(h) PROVE OrderInv'
  BY <1>18 DEF TypeOK, QueueOrdered, HoldsFront, RouteDrop, Goto
<1>19. ASSUME NEW h \in Handlers, RouteTake(h) PROVE OrderInv'
  BY <1>19 DEF TypeOK, QueueOrdered, HoldsFront, RouteTake, Goto
<1>20. ASSUME NEW h \in Handlers, Drop(h) PROVE OrderInv'
  <2>1. /\ messageQueue # <<>> /\ messageQueue' = Tail(messageQueue)
        /\ UNCHANGED <<lastHandled, pushed, cmd>> /\ pc' = [pc EXCEPT ![h] = "after"]
    BY <1>20 DEF TypeOK, Drop, Dequeue, Goto, HoldsFront
  <2>2. QueueOrdered'
    BY <2>1, TailOrdered
  <2>. QED
    BY <2>1, <2>2 DEF HoldsFront, TypeOK
<1>21. ASSUME NEW h \in Handlers, Take(h) PROVE OrderInv'
  <2>1. /\ messageQueue # <<>> /\ messageQueue' = Tail(messageQueue) /\ cmd[h] = Head(messageQueue)
        /\ UNCHANGED <<lastHandled, pushed, cmd>> /\ pc' = [pc EXCEPT ![h] = "event"]
    BY <1>21 DEF TypeOK, Take, Dequeue, Goto, HoldsFront
  <2>2. QueueOrdered'
    BY <2>1, TailOrdered
  <2>3. /\ lastHandled < cmd[h].n /\ cmd[h].n <= pushed
        /\ \A k \in DOMAIN messageQueue' : cmd[h].n < messageQueue'[k].n
    BY <2>1, TailOrdered
  <2>. QED
    BY <2>1, <2>2, <2>3 DEF HoldsFront, TypeOK
<1>22. ASSUME NEW h \in Handlers, After(h) PROVE OrderInv'
  BY <1>22 DEF TypeOK, QueueOrdered, HoldsFront, After, Goto
<1>23. ASSUME NEW h \in Handlers, HandleData(h) PROVE OrderInv'
  <2>1. /\ lastHandled' = cmd[h].n /\ UNCHANGED <<messageQueue, pushed, cmd>>
        /\ pc' = [pc EXCEPT ![h] = pc'[h]] /\ pc'[h] \in {"after", "pause", "close"}
    BY <1>23 DEF TypeOK, HandleData, Handled, Goto, queueVars
  <2>2. /\ cmd[h].n <= pushed
        /\ \A k \in DOMAIN messageQueue : cmd[h].n < messageQueue[k].n /\ messageQueue[k].n <= pushed
    BY <1>23 DEF HandleData, HoldsFront, QueueOrdered
  <2>. QED
    BY <2>1, <2>2 DEF HoldsFront, QueueOrdered
<1>24. ASSUME NEW h \in Handlers, HandleLock(h) PROVE OrderInv'
  <2>1. /\ lastHandled' = cmd[h].n /\ UNCHANGED <<messageQueue, pushed, cmd>>
        /\ pc' = [pc EXCEPT ![h] = pc'[h]] /\ pc'[h] \in {"after", "pause", "close"}
    BY <1>24 DEF TypeOK, HandleLock, Handled, Goto, queueVars
  <2>2. /\ cmd[h].n <= pushed
        /\ \A k \in DOMAIN messageQueue : cmd[h].n < messageQueue[k].n /\ messageQueue[k].n <= pushed
    BY <1>24 DEF HandleLock, HoldsFront, QueueOrdered
  <2>. QED
    BY <2>1, <2>2 DEF HoldsFront, QueueOrdered
<1>25. ASSUME NEW h \in Handlers, HandleResponse(h) PROVE OrderInv'
  <2>1. /\ lastHandled' = cmd[h].n /\ UNCHANGED <<messageQueue, pushed, cmd>>
        /\ pc' = [pc EXCEPT ![h] = pc'[h]] /\ pc'[h] \in {"after", "pause", "close"}
    BY <1>25 DEF TypeOK, HandleResponse, Handled, Goto, queueVars
  <2>2. /\ cmd[h].n <= pushed
        /\ \A k \in DOMAIN messageQueue : cmd[h].n < messageQueue[k].n /\ messageQueue[k].n <= pushed
    BY <1>25 DEF HandleResponse, HoldsFront, QueueOrdered
  <2>. QED
    BY <2>1, <2>2 DEF HoldsFront, QueueOrdered
<1>26. ASSUME NEW h \in Handlers, HandleDefer(h) PROVE OrderInv'
  BY <1>26 DEF TypeOK, QueueOrdered, HoldsFront, HandleDefer, Goto
<1>27. ASSUME NEW h \in Handlers, HandleClose(h) PROVE OrderInv'
  BY <1>27 DEF TypeOK, QueueOrdered, HoldsFront, HandleClose, Goto
<1>28. ASSUME NEW h \in Handlers, AskOrNot(h) PROVE OrderInv'
  BY <1>28 DEF TypeOK, QueueOrdered, HoldsFront, AskOrNot, Goto
<1>29. ASSUME NEW h \in Handlers, Start(h) PROVE OrderInv'
  BY <1>29 DEF TypeOK, QueueOrdered, HoldsFront, Start, Goto
<1>30. ASSUME NEW h \in Handlers, ShowNot(h) PROVE OrderInv'
  BY <1>30 DEF TypeOK, QueueOrdered, HoldsFront, ShowNot, AtSlot
<1>31. ASSUME NEW h \in Handlers, Withhold(h) PROVE OrderInv'
  BY <1>31 DEF TypeOK, QueueOrdered, HoldsFront, Withhold, AtSlot
<1>32. ASSUME NEW h \in Handlers, Compose(h) PROVE OrderInv'
  BY <1>32 DEF TypeOK, QueueOrdered, HoldsFront, Compose, Goto, Return
<1>33. ASSUME NEW h \in Handlers, Send(h) PROVE OrderInv'
  BY <1>33 DEF TypeOK, QueueOrdered, HoldsFront, Send, Goto
<1>34. ASSUME NEW h \in Handlers, ShowEnd(h) PROVE OrderInv'
  BY <1>34 DEF TypeOK, QueueOrdered, HoldsFront, ShowEnd, Goto, Return
<1>35. ASSUME NEW h \in Handlers, SpuriousWakeup(h) PROVE OrderInv'
  BY <1>35 DEF TypeOK, QueueOrdered, HoldsFront, SpuriousWakeup, Goto
<1>. QED
  BY <1>1, <1>2, <1>3, <1>4, <1>5, <1>6, <1>7, <1>8, <1>9, <1>10, <1>11, <1>12, <1>13,
     <1>14, <1>15, <1>16, <1>17, <1>18, <1>19, <1>20, <1>21, <1>22, <1>23, <1>24, <1>25,
     <1>26, <1>27, <1>28, <1>29, <1>30, <1>31, <1>32, <1>33, <1>34, <1>35 DEF Next,
     ServerStep, HandlerStep

LEMMA RepliesIInvInit == Init => RepliesIInv
<1>. SUFFICES ASSUME Init PROVE RepliesIInv
  OBVIOUS
<1>. USE DispatchAssumption
<1>1. TypeOK
  <2>1. /\ threadIP \in [Slots -> Clients \cup {Nobody}] /\ paused \in [Slots -> BOOLEAN]
        /\ messageQueue \in Seq(Commands) /\ pushed \in 0..MaxPushed
        /\ question \in Questions \cup {NoQuestion} /\ repairLock \in Clients \cup {Nobody}
    BY DEF Init
  <2>2. /\ repairCounter \in -1..Intervals - 1 /\ timer = FALSE
        /\ at \in [Handlers -> 0..Connections]
    BY DEF Init
  <2>3. /\ pc \in [Handlers -> PCs] /\ cmd \in [Handlers -> Commands \cup {NoCommand}]
        /\ skip \in [Handlers -> BOOLEAN]
        /\ sending \in [Handlers -> Questions \cup {NoQuestion}]
    BY DEF Init, PCs
  <2>4. /\ server \in {"idle", "signal", "close", "reply"}
        /\ withdrawn \in Questions \cup {NoQuestion}
        /\ listener \in {"idle", "signal"} /\ asker \in {"idle", "sent", "waiting"}
        /\ replies \in Seq(1..MaxAsked) /\ asked \in 0..MaxAsked
        /\ box \in [Clients -> Questions \cup {NoQuestion}] /\ lastHandled \in 0..MaxPushed
    BY DEF Init
  <2>. QED
    BY <2>1, <2>2, <2>3, <2>4 DEF TypeOK
<1>2. Owed(question, withdrawn, replies, asked, asker)
  BY DEF Init, Owed
<1>3. WithdrawnInTransit /\ InRange
  BY DEF Init, WithdrawnInTransit, InRange
<1>. QED
  BY <1>1, <1>2, <1>3, OneReplyIsOwed DEF RepliesIInv, RepliesInv

LEMMA RepliesIInvNext == RepliesIInv /\ [Next]_vars => RepliesIInv'
<1>. SUFFICES ASSUME RepliesIInv, [Next]_vars PROVE RepliesIInv'
  OBVIOUS
<1>1. CASE Next
  <2>1. TypeOK'
    BY <1>1, TypesKept
  <2>2. OneReply'
    BY <1>1, <2>1, RepliesKept, OneReplyIsOwedNext
  <2>. QED
    BY <1>1, <2>1, <2>2, TransitKept, RangeKept DEF RepliesIInv, RepliesInv
<1>2. CASE UNCHANGED vars
  BY <1>2, ZenonT(60) DEF RepliesIInv, RepliesInv, TypeOK, OneReply, WithdrawnInTransit, InRange,
              vars, queueVars, tableVars, lockVars, handlerVars, serverVars, askVars
<1>. QED
  BY <1>1, <1>2

\* A test that waits is owed one reply and no other test is owed any, and the variables have
\* their types: answerQuestion, userRespondToQuestion and notifyUserToCloseMessageBox neither
\* lose a reply nor send two, in whatever order the threads come to them.
THEOREM EveryQuestionRepliedOnce == Spec => []RepliesInv
<1>1. RepliesIInv => RepliesInv
  BY DEF RepliesIInv
<1>. QED
  BY <1>1, RepliesIInvInit, RepliesIInvNext, PTL DEF Spec

LEMMA OrderInvInit == Init => OrderInv
  BY DispatchAssumption DEF Init, OrderInv, QueueOrdered, HoldsFront

\* With one handler, threadCommandHandler handles the commands of its row in the order in
\* which pushThreadCommand queued them, and none of them twice.
THEOREM CommandsHandledInOrder ==
  ASSUME \A g, h \in Handlers : g = h
  PROVE  Spec => InOrderOnce
<1>1. RepliesIInv /\ OrderInv /\ [Next]_vars => OrderInv'
  <2>. SUFFICES ASSUME RepliesIInv, OrderInv, [Next]_vars PROVE OrderInv'
    OBVIOUS
  <2>1. CASE UNCHANGED vars
    BY <2>1 DEF OrderInv, QueueOrdered, HoldsFront, vars, queueVars, handlerVars
  <2>. QED
    BY <2>1, OrderKept
<1>2. OrderInv => \A h \in Handlers : pc[h] = "event" => lastHandled < cmd[h].n
  BY DEF OrderInv, HoldsFront
<1>3. RepliesIInv /\ OrderInv
      => \A h \in Handlers : pc[h] = "event" /\ pc'[h] # "event" => cmd[h].n > lastHandled
  <2>. SUFFICES ASSUME RepliesIInv, OrderInv, NEW h \in Handlers, pc[h] = "event"
                PROVE  cmd[h].n > lastHandled
    OBVIOUS
  <2>1. cmd[h].n \in Nat /\ lastHandled \in Nat
    BY CommandFields, DispatchAssumption DEF RepliesIInv, RepliesInv, TypeOK
  <2>. QED
    BY <1>2, <2>1
<1>. QED
  BY <1>1, <1>3, RepliesIInvInit, RepliesIInvNext, OrderInvInit, PTL DEF Spec, InOrderOnce
===============================================================================
