----------------------------- MODULE QueueReader -----------------------------
(***************************************************************************)
(* The message queue together with the handler thread that reads it        *)
(* (threadCommandHandler, TDServerThreads.c).  The handler takes a pointer *)
(* to the oldest element, lets go of threadHandler, dequeues the element   *)
(* under another hold of it, and handles the command through the pointer:  *)
(* nothing keeps the server thread from adding commands meanwhile.         *)
(***************************************************************************)
EXTENDS CommandQueue

\* The handler's variable cmd: the slot it points to and, as a history component, what was
\* in it when the handler looked.
VARIABLE cmd

NoCommand == [at |-> "none", slot |-> 0, data |-> Blank]

ReaderInit == Init /\ cmd = NoCommand

\* peekAtFrontElement: on an empty queue cmd is NULL and the handler waits.
PeekAtFrontElement ==
  /\ cmd.at = "none"
  /\ ~isQueueEmpty
  /\ cmd' = [at |-> "peeked", slot |-> front, data |-> slots[front]]
  /\ UNCHANGED vars

DequeuePeeked ==
  /\ cmd.at = "peeked"
  /\ GetFrontElement
  /\ cmd' = [cmd EXCEPT !.at = "dequeued"]

\* handle_thread_event has read the command for the last time.
Handled ==
  /\ cmd.at = "dequeued"
  /\ cmd' = NoCommand
  /\ UNCHANGED vars

\* pushThreadCommand of the server thread.
AddElementBeside == \E c \in Commands : (AddElement(c) \/ AddElementGrowing(c)) /\ UNCHANGED cmd

ReaderNext == PeekAtFrontElement \/ DequeuePeeked \/ Handled \/ AddElementBeside

ReaderSpec == ReaderInit /\ [][ReaderNext]_<<vars, cmd>>

-------------------------------------------------------------------------------
\* What the handler reads through cmd is the command it looked at
\* (TDServerThreads.c:869-982): until the queue grows, and, once the element was dequeued,
\* until the queue is full.
HeldCommandIntact ==
  /\ ~Grown
  /\ \/ cmd.at = "peeked"
     \/ cmd.at = "dequeued" /\ ~isQueueFull
  => slots[cmd.slot] = cmd.data
===============================================================================
