----------------------------- MODULE CommandQueue -----------------------------
(***************************************************************************)
(* The message queue of a server thread (DataStructures/queue.c): a ring   *)
(* buffer of commands that doubles its capacity when a command is added    *)
(* while it is full.  The program makes every queue with growOnDemand = 1  *)
(* (TDServerThreads.c, initializeThreadDescriptors), so that flag is not a *)
(* parameter here.                                                         *)
(*                                                                         *)
(* All operations are called under threadHandler, hence one action each.   *)
(***************************************************************************)
EXTENDS Integers, Sequences

CONSTANTS
  Commands,         \* the commands clients send
  Blank,            \* a slot that initializeQueue has just set up
  InitialCapacity,  \* the number of elements the queue is created with
  MaxCapacity       \* bound of the model: no growth beyond this capacity

\* createAndInitializeQueue starts with the front at index 1, an index of the
\* array only when there are at least two elements; the program asks for 150.
\* The fields of the queue are unsigned shorts: the model stops growing where
\* they would wrap round.
ASSUME QueueAssumption ==
  /\ InitialCapacity \in Nat /\ InitialCapacity >= 2
  /\ MaxCapacity \in Nat /\ MaxCapacity < 65536
  /\ Blank \notin Commands

VARIABLES
  capacity,  \* currentCapacity
  front,     \* currentFrontIndex
  rear,      \* currentRearIndex
  size,      \* currentSize
  slots      \* localDataStructure

vars == <<capacity, front, rear, size, slots>>

-------------------------------------------------------------------------------
isQueueEmpty == size <= 0
isQueueFull  == size >= capacity

IncrementIndex(index, cap) == (index + 1) % cap

\* initializeQueue: the slots from startIndex on get fresh memory, those before
\* it keep what they hold.
InitializedFrom(startIndex, cap, old) ==
  [i \in 0..cap - 1 |-> IF i >= startIndex THEN Blank ELSE old[i]]

\* createAndInitializeQueue(InitialCapacity, 1)
Init ==
  /\ capacity = InitialCapacity
  /\ size = 0 /\ rear = 0 /\ front = 1
  /\ slots = [i \in 0..InitialCapacity - 1 |-> Blank]

\* increaseQueueCapacity(queue, currentCapacity): realloc keeps the array, and
\* initializeQueue then starts one slot before the end of the old part.
GrownCapacity == capacity + capacity
GrownSlots == InitializedFrom(GrownCapacity - capacity - 1, GrownCapacity, slots)

\* The part of addElementToQueue after the test for a full queue.
Store(c, cap, array) ==
  /\ capacity' = cap
  /\ size' = size + 1
  /\ rear' = IncrementIndex(rear, cap)
  /\ slots' = [array EXCEPT ![IncrementIndex(rear, cap)] = c]
  /\ UNCHANGED front

\* addElementToQueue when there is room ...
AddElement(c) ==
  /\ ~isQueueFull
  /\ Store(c, capacity, slots)

\* ... and when the queue is full and has to grow first.
AddElementGrowing(c) ==
  /\ isQueueFull
  /\ GrownCapacity <= MaxCapacity
  /\ Store(c, GrownCapacity, GrownSlots)

\* Mutants: the front stays where it is; the newest command is taken.
GetFrontElementStays ==
  /\ ~isQueueEmpty
  /\ size' = size - 1
  /\ UNCHANGED <<capacity, front, rear, slots>>

GetFrontElementNewest ==
  /\ ~isQueueEmpty
  /\ size' = size - 1
  /\ rear' = (rear + capacity - 1) % capacity
  /\ UNCHANGED <<capacity, front, slots>>

\* Mutant: the element is given back when it is dequeued.
GetFrontElementClears ==
  /\ ~isQueueEmpty
  /\ size' = size - 1
  /\ front' = IncrementIndex(front, capacity)
  /\ slots' = [slots EXCEPT ![front] = Blank]
  /\ UNCHANGED <<capacity, rear>>

\* getFrontElement of a queue that is not empty; on an empty one it returns
\* NULL and changes nothing.  The slot keeps its content: the caller goes on
\* reading it through the returned pointer.
GetFrontElement ==
  /\ ~isQueueEmpty
  /\ size' = size - 1
  /\ front' = IncrementIndex(front, capacity)
  /\ UNCHANGED <<capacity, rear, slots>>

Next ==
  \/ \E c \in Commands : AddElement(c)
  \/ \E c \in Commands : AddElementGrowing(c)
  \/ GetFrontElement

Spec == Init /\ [][Next]_vars

-------------------------------------------------------------------------------
\* The slot the k-th waiting command is read from, and the commands that the
\* consumer will get, in order.
SlotOf(k) == (front + k - 1) % capacity
Waiting == [k \in 1..size |-> slots[SlotOf(k)]]

Grown == capacity # InitialCapacity

\* Type correctness and index bounds (queue.c): both indices always address a
\* slot of the array and the count never exceeds the number of slots, also
\* after the queue has grown.
TypeOK ==
  /\ capacity \in Nat /\ capacity >= InitialCapacity
  /\ front \in 0..capacity - 1
  /\ rear \in 0..capacity - 1
  /\ size \in 0..capacity
  /\ slots \in [0..capacity - 1 -> Commands \cup {Blank}]

\* Until the queue grows, the two indices and the count agree (the rear is
\* size - 1 places behind the front, counted around the ring) and every slot
\* between them holds a command some client sent.
RingConsistent ==
  ~Grown => /\ rear = (front + size - 1) % capacity
            /\ \A k \in 1..size : slots[SlotOf(k)] \in Commands

\* The ring is sound: within its array, and its indices and count agree.
RingInv == TypeOK /\ RingConsistent

\* A queue that was never added to while full is the first-in first-out queue
\* of FifoQueue.
Fifo == INSTANCE FifoQueue WITH
          Capacity <- InitialCapacity, contents <- Waiting, overflowed <- Grown
RefinesFifo == Fifo!FifoSpec
===============================================================================
