------------------------- MODULE CommandQueue_proofs -------------------------
(***************************************************************************)
(* Proofs about the commands on their way from a client to a handler: the  *)
(* ring buffer of CommandQueue and its reader, QueueReader, for every      *)
(* initial capacity, set of commands and bound on growth; and how the      *)
(* bytes that clients send become commands (CommandFraming), for every     *)
(* number of slots, every set of lengths of commands, and buffers and      *)
(* pieces of every size.                                                   *)
(***************************************************************************)
EXTENDS QueueReader, CommandFraming, SequenceTheorems, TLAPS

\* Counting around the ring (incrementIndex, queue.c): a number at most one
\* turn away from the indices 0..n-1 is reduced by adding or subtracting the
\* capacity n once.
LEMMA RingIndex ==
  ASSUME NEW n \in Nat, n > 0, NEW x \in -1..n + n - 1
  PROVE  x % n = IF x < 0 THEN x + n ELSE IF x < n THEN x ELSE x - n
<1>1. CASE x < 0
  <2>1. x + n \in 0..n - 1
    BY <1>1
  <2>2. x % n = (x + n) % n
    BY <1>1
  <2>3. QED
    BY <2>1, <2>2, <1>1
<1>2. CASE x \in 0..n - 1
  BY <1>2
<1>3. CASE x >= n
  <2>1. x - n \in 0..n - 1
    BY <1>3
  <2>2. x % n = (x - n) % n
    BY <1>3
  <2>3. QED
    BY <2>1, <2>2, <1>3
<1>4. QED
  BY <1>1, <1>2, <1>3

-------------------------------------------------------------------------------
\* Both indices stay inside the array and the count never exceeds the number of
\* slots, in every reachable state and also after growth (queue.c).
LEMMA InitTypeOK == Init => TypeOK
  BY QueueAssumption DEF Init, TypeOK

\* No operation of the queue takes an index out of the array or the count above
\* the capacity.
LEMMA NextTypeOK == TypeOK /\ [Next]_vars => TypeOK'
<1> SUFFICES ASSUME TypeOK, [Next]_vars PROVE TypeOK'
  OBVIOUS
<1>0. capacity \in Nat /\ capacity >= 2
  BY QueueAssumption DEF TypeOK
<1>1. ASSUME NEW c \in Commands, AddElement(c) PROVE TypeOK'
  <2>1. IncrementIndex(rear, capacity) \in 0..capacity - 1
    BY <1>0, RingIndex DEF IncrementIndex, TypeOK
  <2>2. QED
    BY <1>0, <1>1, <2>1 DEF AddElement, Store, isQueueFull, TypeOK
<1>2. ASSUME NEW c \in Commands, AddElementGrowing(c) PROVE TypeOK'
  <2>1. GrownCapacity \in Nat /\ GrownCapacity >= 4 /\ GrownCapacity > capacity
    BY <1>0 DEF GrownCapacity
  <2>2. IncrementIndex(rear, GrownCapacity) \in 0..GrownCapacity - 1
    BY <1>0, <2>1, RingIndex DEF IncrementIndex, TypeOK
  <2>3. GrownSlots \in [0..GrownCapacity - 1 -> Commands \cup {Blank}]
    <3>1. SUFFICES ASSUME NEW i \in 0..GrownCapacity - 1,
                          ~(i >= GrownCapacity - capacity - 1)
                   PROVE  slots[i] \in Commands \cup {Blank}
      BY DEF GrownSlots, InitializedFrom
    <3>2. i \in 0..capacity - 1
      BY <1>0, <3>1 DEF GrownCapacity
    <3>3. QED
      BY <3>2 DEF TypeOK
  <2>4. /\ capacity' = GrownCapacity /\ size' = size + 1 /\ front' = front
        /\ rear' = IncrementIndex(rear, GrownCapacity)
        /\ slots' = [GrownSlots EXCEPT ![IncrementIndex(rear, GrownCapacity)] = c]
    BY <1>2 DEF AddElementGrowing, Store
  <2>5. slots' \in [0..GrownCapacity - 1 -> Commands \cup {Blank}]
    BY <2>3, <2>4
  <2>6. size + 1 \in 0..GrownCapacity
    BY <1>0 DEF GrownCapacity, TypeOK
  <2>7. QED
    BY <1>0, <2>1, <2>2, <2>4, <2>5, <2>6, QueueAssumption DEF TypeOK
<1>3. ASSUME GetFrontElement PROVE TypeOK'
  <2>1. IncrementIndex(front, capacity) \in 0..capacity - 1
    BY <1>0, RingIndex DEF IncrementIndex, TypeOK
  <2>2. QED
    BY <1>0, <1>3, <2>1 DEF GetFrontElement, isQueueEmpty, TypeOK
<1>4. CASE UNCHANGED vars
  BY <1>4 DEF vars, TypeOK
<1>5. QED
  BY <1>1, <1>2, <1>3, <1>4 DEF Next

\* In every reachable state the indices address slots of the array and the count
\* is at most the capacity (queue.c), for every capacity of two or more.
THEOREM QueueTypeCorrect == Spec => []TypeOK
  BY InitTypeOK, NextTypeOK, PTL DEF Spec

-------------------------------------------------------------------------------
\* While the queue has its initial capacity the k-th waiting command sits at
\* the front index plus k - 1, counted around the ring.
LEMMA SlotOfValue ==
  ASSUME TypeOK, NEW k \in 0..capacity + 1, front + k <= capacity + capacity
  PROVE  SlotOf(k) = IF front + k - 1 < 0 THEN capacity - 1
                     ELSE IF front + k - 1 < capacity THEN front + k - 1
                     ELSE front + k - 1 - capacity
  BY RingIndex, QueueAssumption DEF SlotOf, TypeOK

\* Adding to a queue with room writes the slot after the last waiting command,
\* which none of the waiting commands occupies.
LEMMA AddStep ==
  ASSUME TypeOK, RingConsistent, ~Grown, NEW c \in Commands, AddElement(c)
  PROVE  /\ ~Grown' /\ front' = front /\ size' = size + 1
         /\ rear' = SlotOf(size + 1)
         /\ slots'[SlotOf(size + 1)] = c
         /\ \A k \in 1..size : slots'[SlotOf(k)] = slots[SlotOf(k)]
<1>1. /\ capacity' = capacity /\ front' = front /\ size' = size + 1
      /\ size < capacity /\ capacity \in Nat /\ capacity >= 2
  BY QueueAssumption DEF AddElement, Store, isQueueFull, TypeOK
<1>2. rear' = SlotOf(size + 1)
  <2>1. rear = SlotOf(size)
    BY DEF RingConsistent, SlotOf
  <2>2. rear' = (rear + 1) % capacity
    BY DEF AddElement, Store, IncrementIndex
  <2>3. (rear + 1) % capacity = IF rear + 1 < capacity THEN rear + 1 ELSE 0
    BY <1>1, RingIndex DEF TypeOK
  <2>4. SlotOf(size) = IF front + size - 1 < 0 THEN capacity - 1
                       ELSE IF front + size - 1 < capacity THEN front + size - 1
                       ELSE front + size - 1 - capacity
    BY <1>1, SlotOfValue DEF TypeOK
  <2>5. SlotOf(size + 1) = IF front + size < capacity THEN front + size
                           ELSE front + size - capacity
    <3>1. front + (size + 1) - 1 = front + size
      BY <1>1 DEF TypeOK
    <3>2. front + size \in -1..capacity + capacity - 1
      BY <1>1 DEF TypeOK
    <3>3. SlotOf(size + 1) = (front + size) % capacity
      BY <3>1 DEF SlotOf
    <3>4. QED
      BY <1>1, <3>2, <3>3, RingIndex DEF TypeOK
  <2>6. QED
    BY <1>1, <2>1, <2>2, <2>3, <2>4, <2>5 DEF TypeOK
<1>3. slots' = [slots EXCEPT ![rear'] = c] /\ rear' \in 0..capacity - 1
  <2>1. (rear + 1) % capacity \in 0..capacity - 1
    BY <1>1, RingIndex DEF TypeOK
  <2>2. QED
    BY <2>1 DEF AddElement, Store, IncrementIndex
<1>4. ASSUME NEW k \in 1..size PROVE SlotOf(k) # SlotOf(size + 1)
  BY <1>1, SlotOfValue DEF TypeOK
<1>5. slots'[SlotOf(size + 1)] = c
  BY <1>2, <1>3 DEF TypeOK
<1>6. ASSUME NEW k \in 1..size PROVE slots'[SlotOf(k)] = slots[SlotOf(k)]
  <2>1. SlotOf(k) \in 0..capacity - 1
    BY <1>1, SlotOfValue DEF TypeOK
  <2>2. QED
    BY <1>2, <1>3, <1>4, <2>1 DEF TypeOK
<1>7. QED
  BY <1>1, <1>2, <1>5, <1>6 DEF Grown

\* Taking the front command leaves the others where they are, one place nearer
\* to the front.
LEMMA GetStep ==
  ASSUME TypeOK, RingConsistent, ~Grown, GetFrontElement
  PROVE  /\ ~Grown' /\ size' = size - 1 /\ size > 0
         /\ rear' = (front' + size' - 1) % capacity'
         /\ slots' = slots
         /\ \A k \in 1..size - 1 : SlotOf(k)' = SlotOf(k + 1)
<1>1. /\ capacity' = capacity /\ size' = size - 1 /\ size > 0 /\ rear' = rear
      /\ slots' = slots /\ front' = (front + 1) % capacity
      /\ capacity \in Nat /\ capacity >= 2
  BY QueueAssumption DEF GetFrontElement, isQueueEmpty, IncrementIndex, TypeOK
<1>2. front' = IF front + 1 < capacity THEN front + 1 ELSE front + 1 - capacity
  <2>1. front + 1 \in -1..capacity + capacity - 1 /\ front + 1 >= 0
    BY <1>1 DEF TypeOK
  <2>2. QED
    BY <1>1, <2>1, RingIndex DEF TypeOK
<1>3. ASSUME NEW k \in 0..size - 1
      PROVE  (front' + k - 1) % capacity = (front + (k + 1) - 1) % capacity
  <2>1. front + (k + 1) - 1 = front + k
    BY <1>1 DEF TypeOK
  <2>2. front + k \in 0..capacity + capacity - 1
    BY <1>1 DEF TypeOK
  <2>3. (front + k) % capacity = IF front + k < capacity THEN front + k
                                 ELSE front + k - capacity
    BY <1>1, <2>2, RingIndex DEF TypeOK
  <2>4. front' + k - 1 \in -1..capacity + capacity - 1
    BY <1>1, <1>2 DEF TypeOK
  <2>5. (front' + k - 1) % capacity
          = IF front' + k - 1 < 0 THEN front' + k - 1 + capacity
            ELSE IF front' + k - 1 < capacity THEN front' + k - 1
            ELSE front' + k - 1 - capacity
    BY <1>1, <2>4, RingIndex
  <2>6. QED
    BY <1>1, <1>2, <2>1, <2>3, <2>5 DEF TypeOK
<1>4. rear' = (front' + size' - 1) % capacity'
  <2>1. rear = (front + size - 1) % capacity
    BY DEF RingConsistent
  <2>2. size - 1 \in 0..size - 1 /\ (size - 1) + 1 = size
    BY <1>1 DEF TypeOK
  <2>3. (front' + (size - 1) - 1) % capacity = (front + size - 1) % capacity
    BY <1>3, <2>2
  <2>4. QED
    BY <1>1, <2>1, <2>3
<1>5. ASSUME NEW k \in 1..size - 1 PROVE SlotOf(k)' = SlotOf(k + 1)
  BY <1>1, <1>3 DEF SlotOf
<1>6. QED
  BY <1>1, <1>4, <1>5 DEF Grown

\* A full queue that grows is from then on a grown queue.
LEMMA GrowStep ==
  ASSUME TypeOK, NEW c \in Commands, AddElementGrowing(c)
  PROVE  Grown' /\ size = capacity
  BY QueueAssumption
  DEF AddElementGrowing, Store, GrownCapacity, Grown, TypeOK, isQueueFull

\* Until the queue has grown, front, rear and count agree and every waiting
\* place of the ring holds a command some client sent (queue.c).
LEMMA NextRingConsistent ==
  TypeOK /\ RingConsistent /\ [Next]_vars => RingConsistent'
<1> SUFFICES ASSUME TypeOK, RingConsistent, [Next]_vars, ~Grown'
             PROVE  /\ rear' = (front' + size' - 1) % capacity'
                    /\ \A k \in 1..size' : slots'[SlotOf(k)'] \in Commands
  BY DEF RingConsistent
<1>1. ASSUME NEW c \in Commands, AddElement(c)
      PROVE  /\ rear' = (front' + size' - 1) % capacity'
             /\ \A k \in 1..size' : slots'[SlotOf(k)'] \in Commands
  <2>1. capacity' = capacity /\ ~Grown
    BY <1>1 DEF AddElement, Store, Grown
  <2>2. /\ front' = front /\ size' = size + 1 /\ rear' = SlotOf(size + 1)
        /\ slots'[SlotOf(size + 1)] = c
        /\ \A k \in 1..size : slots'[SlotOf(k)] = slots[SlotOf(k)]
    BY <1>1, <2>1, AddStep
  <2>3. \A k : SlotOf(k)' = SlotOf(k)
    BY <2>1, <2>2 DEF SlotOf
  <2>4. ASSUME NEW k \in 1..size' PROVE slots'[SlotOf(k)'] \in Commands
    <3>1. k \in 1..size \/ k = size + 1
      BY <2>2 DEF TypeOK
    <3>2. QED
      BY <2>1, <2>2, <2>3, <3>1 DEF RingConsistent
  <2>5. QED
    BY <2>1, <2>2, <2>4 DEF SlotOf
<1>2. ASSUME NEW c \in Commands, AddElementGrowing(c) PROVE FALSE
  BY <1>2, GrowStep
<1>3. ASSUME GetFrontElement
      PROVE  /\ rear' = (front' + size' - 1) % capacity'
             /\ \A k \in 1..size' : slots'[SlotOf(k)'] \in Commands
  <2>1. ~Grown
    BY <1>3 DEF GetFrontElement, Grown
  <2>2. /\ size' = size - 1 /\ rear' = (front' + size' - 1) % capacity'
        /\ slots' = slots /\ \A k \in 1..size - 1 : SlotOf(k)' = SlotOf(k + 1)
    BY <1>3, <2>1, GetStep
  <2>3. ASSUME NEW k \in 1..size' PROVE slots'[SlotOf(k)'] \in Commands
    <3>1. k \in 1..size - 1 /\ k + 1 \in 1..size
      BY <2>2 DEF TypeOK
    <3>2. QED
      BY <2>1, <2>2, <3>1 DEF RingConsistent
  <2>4. QED
    BY <2>2, <2>3
<1>4. CASE UNCHANGED vars
  <2>1. ~Grown /\ \A k : SlotOf(k)' = SlotOf(k)
    BY <1>4 DEF vars, Grown, SlotOf
  <2>2. QED
    BY <1>4, <2>1 DEF vars, RingConsistent
<1>5. QED
  BY <1>1, <1>2, <1>3, <1>4 DEF Next

\* In every reachable state of a queue that has not grown, rear, front and count
\* agree and the slots between the indices hold commands of clients.
THEOREM QueueRingConsistent == Spec => []RingConsistent
<1>1. Init => RingConsistent
  <2> SUFFICES ASSUME Init PROVE RingConsistent
    OBVIOUS
  <2>1. front + size - 1 = 0 /\ 0 \in -1..InitialCapacity + InitialCapacity - 1
    BY QueueAssumption DEF Init
  <2>2. 0 % InitialCapacity = 0
    BY <2>1, RingIndex, QueueAssumption
  <2>3. QED
    BY <2>1, <2>2 DEF Init, RingConsistent
<1>2. QED
  BY <1>1, InitTypeOK, NextTypeOK, NextRingConsistent, PTL DEF Spec

\* Both together, as one invariant of the ring for every capacity of two or more.
THEOREM QueueRingSound == Spec => []RingInv
  BY QueueTypeCorrect, QueueRingConsistent, PTL DEF RingInv

-------------------------------------------------------------------------------
\* The waiting commands as a sequence.
LEMMA WaitingSeq ==
  ASSUME TypeOK, RingConsistent, ~Grown
  PROVE  Waiting \in Seq(Commands) /\ Len(Waiting) = size
<1>1. size \in Nat
  BY QueueAssumption DEF TypeOK
<1>2. Waiting \in [1..size -> Commands]
  BY DEF Waiting, RingConsistent
<1>3. QED
  BY <1>1, <1>2

\* A step of the ring buffer is a step of the first-in first-out queue.
LEMMA NextRefinesFifo ==
  TypeOK /\ RingConsistent /\ RingConsistent' /\ TypeOK' /\ [Next]_vars
    => [Fifo!FifoNext]_(Fifo!fifoVars)
<1> SUFFICES ASSUME TypeOK, RingConsistent, TypeOK', RingConsistent', [Next]_vars
             PROVE  Fifo!FifoNext \/ UNCHANGED <<Waiting, Grown>>
  BY DEF Fifo!fifoVars
<1>0. Grown \in BOOLEAN /\ Grown' \in BOOLEAN
  BY DEF Grown
<1>1. CASE Grown
  <2>1. Grown'
    <3>1. capacity' = capacity \/ capacity' = capacity + capacity
      BY DEF Next, vars, AddElement, AddElementGrowing, GetFrontElement, Store,
             GrownCapacity
    <3>2. QED
      BY <1>1, <3>1, QueueAssumption DEF Grown, TypeOK
  <2>2. Fifo!AfterOverflow
    BY <1>1, <2>1 DEF Fifo!AfterOverflow
  <2>3. QED
    BY <2>2 DEF Fifo!FifoNext
<1>2. ASSUME ~Grown, NEW c \in Commands, AddElement(c) PROVE Fifo!Put(c)
  <2>1. /\ ~Grown' /\ front' = front /\ size' = size + 1
        /\ slots'[SlotOf(size + 1)] = c
        /\ \A k \in 1..size : slots'[SlotOf(k)] = slots[SlotOf(k)]
    BY <1>2, AddStep
  <2>2. capacity' = capacity /\ size < InitialCapacity
    BY <1>2 DEF AddElement, Store, isQueueFull, Grown, TypeOK
  <2>3. \A k : SlotOf(k)' = SlotOf(k)
    BY <2>1, <2>2 DEF SlotOf
  <2>4. Waiting \in Seq(Commands) /\ Len(Waiting) = size
    BY <1>2, WaitingSeq
  <2>5. Waiting' \in Seq(Commands) /\ Len(Waiting') = size + 1
    <3>1. Waiting' \in [1..size' -> Commands] /\ size' \in Nat
      BY <2>1, QueueAssumption DEF Waiting, RingConsistent, TypeOK
    <3>2. QED
      BY <2>1, <3>1
  <2>6. ASSUME NEW k \in 1..size + 1
        PROVE  Waiting'[k] = Append(Waiting, c)[k]
    <3>1. k \in 1..size \/ k = size + 1
      BY DEF TypeOK
    <3>2. CASE k \in 1..size
      <4>1. Waiting'[k] = Waiting[k]
        BY <2>1, <2>3, <3>2 DEF Waiting, TypeOK
      <4>2. Append(Waiting, c)[k] = Waiting[k]
        BY <2>4, <3>2, AppendProperties
      <4>3. QED
        BY <4>1, <4>2
    <3>3. CASE k = size + 1
      <4>1. Waiting'[k] = c
        BY <2>1, <2>3, <3>3 DEF Waiting
      <4>2. QED
        BY <2>4, <3>3, <4>1, AppendProperties
    <3>4. QED
      BY <3>1, <3>2, <3>3
  <2>7. Waiting' = Append(Waiting, c)
    BY <2>4, <2>5, <2>6, AppendProperties, SeqEqual
  <2>8. QED
    BY <1>0, <1>2, <2>1, <2>2, <2>4, <2>7 DEF Fifo!Put
<1>3. ASSUME ~Grown, NEW c \in Commands, AddElementGrowing(c) PROVE Fifo!Overflow
  <2>1. Grown' /\ size = capacity
    BY <1>3, GrowStep
  <2>2. Len(Waiting) = size
    BY <1>3, WaitingSeq
  <2>3. QED
    BY <1>3, <2>1, <2>2 DEF Fifo!Overflow, Grown
<1>4. ASSUME ~Grown, GetFrontElement PROVE Fifo!Take
  <2>1. /\ ~Grown' /\ size' = size - 1 /\ size > 0 /\ slots' = slots
        /\ \A k \in 1..size - 1 : SlotOf(k)' = SlotOf(k + 1)
    BY <1>4, GetStep
  <2>2. Waiting \in Seq(Commands) /\ Len(Waiting) = size
    BY <1>4, WaitingSeq
  <2>3. Waiting # <<>>
    BY <2>1, <2>2
  <2>4. Waiting' \in Seq(Commands) /\ Len(Waiting') = size - 1
    <3>1. Waiting' \in [1..size' -> Commands] /\ size' \in Nat
      BY <2>1, QueueAssumption DEF Waiting, RingConsistent, TypeOK
    <3>2. QED
      BY <2>1, <3>1
  <2>5. Waiting' = Tail(Waiting)
    <3>1. ASSUME NEW k \in 1..size - 1 PROVE Waiting'[k] = Waiting[k + 1]
      <4>1. k + 1 \in 1..size
        BY DEF TypeOK
      <4>2. QED
        BY <2>1, <4>1 DEF Waiting
    <3>2. /\ Tail(Waiting) \in Seq(Commands) /\ Len(Tail(Waiting)) = size - 1
          /\ \A k \in 1..size - 1 : Tail(Waiting)[k] = Waiting[k + 1]
      BY <2>2, <2>3, HeadTailProperties
    <3>3. QED
      BY <2>4, <3>1, <3>2, SeqEqual
  <2>6. QED
    BY <1>0, <1>4, <2>1, <2>3, <2>5 DEF Fifo!Take
<1>5. CASE UNCHANGED vars
  BY <1>5 DEF vars, Waiting, SlotOf, Grown
<1>6. QED
  BY <1>1, <1>2, <1>3, <1>4, <1>5 DEF Next, Fifo!FifoNext

\* Every behaviour of the ring buffer is one of the first-in first-out queue:
\* commands come out in the order they went in, none lost, as long as no command
\* was added to a full queue.
THEOREM QueueRefinesFifo == Spec => RefinesFifo
<1>1. Init => Fifo!FifoInit
  BY QueueAssumption DEF Init, Fifo!FifoInit, Waiting, Grown
<1>2. QED
  BY <1>1, InitTypeOK, NextTypeOK, QueueTypeCorrect, QueueRingConsistent,
     NextRefinesFifo, PTL DEF Spec, RefinesFifo, Fifo!FifoSpec

-------------------------------------------------------------------------------
\* Where the handler's pointer points, as long as the queue has not grown: to the oldest
\* command, and once that was dequeued to the place before the oldest.
HeldPlace ==
  /\ cmd \in [at : {"none", "peeked", "dequeued"}, slot : Nat, data : Commands \cup {Blank}]
  /\ ~Grown /\ cmd.at = "peeked" => size > 0 /\ cmd.slot = front
  /\ ~Grown /\ cmd.at = "dequeued" => cmd.slot = SlotOf(0)

\* What the reader does to the queue are operations of the queue.
LEMMA ReaderStepsTheQueue == [ReaderNext]_<<vars, cmd>> => [Next]_vars
  BY DEF ReaderNext, PeekAtFrontElement, DequeuePeeked, Handled, AddElementBeside, Next, vars

\* The oldest command is at the front index.
LEMMA FirstSlot == ASSUME TypeOK PROVE SlotOf(1) = front
<1>1. front + 1 - 1 = front /\ front \in -1..capacity + capacity - 1 /\ capacity > 0
  BY QueueAssumption DEF TypeOK
<1>2. QED
  BY <1>1, RingIndex, QueueAssumption DEF SlotOf, TypeOK

\* The element just dequeued is the one before the new front (incrementIndex, queue.c).
LEMMA SlotBeforeFront ==
  ASSUME TypeOK, GetFrontElement
  PROVE  SlotOf(0)' = front
<1>1. /\ capacity' = capacity /\ front' = (front + 1) % capacity
      /\ capacity \in Nat /\ capacity >= 2 /\ front \in 0..capacity - 1
  BY QueueAssumption DEF GetFrontElement, IncrementIndex, TypeOK
<1>2. front' = IF front + 1 < capacity THEN front + 1 ELSE 0
  <2>1. front + 1 \in -1..capacity + capacity - 1
    BY <1>1
  <2>2. QED
    BY <1>1, <2>1, RingIndex
<1>3. front' + 0 - 1 \in -1..capacity + capacity - 1
  BY <1>1, <1>2
<1>4. (front' + 0 - 1) % capacity = front
  BY <1>1, <1>2, <1>3, RingIndex
<1>5. QED
  BY <1>1, <1>4 DEF SlotOf

\* An added command goes to another slot than the one before the front, unless it is the
\* one that fills the queue.
LEMMA AddSparesDequeued ==
  ASSUME TypeOK, RingConsistent, ~Grown, NEW c \in Commands, AddElement(c), ~isQueueFull'
  PROVE  slots'[SlotOf(0)] = slots[SlotOf(0)] /\ SlotOf(0)' = SlotOf(0)
<1>1. /\ capacity' = capacity /\ front' = front /\ size' = size + 1
      /\ size + 1 < capacity /\ capacity \in Nat /\ capacity >= 2
      /\ size \in Nat /\ front \in 0..capacity - 1
  BY QueueAssumption DEF AddElement, Store, isQueueFull, TypeOK
<1>2. rear' = SlotOf(size + 1)
  BY AddStep
<1>3. slots' = [slots EXCEPT ![rear'] = c]
  BY DEF AddElement, Store
<1>4. SlotOf(0) = IF front = 0 THEN capacity - 1 ELSE front - 1
  <2>1. 0 \in 0..capacity + 1 /\ front + 0 <= capacity + capacity
    BY <1>1
  <2>2. QED
    BY <1>1, <2>1, SlotOfValue
<1>5. SlotOf(size + 1) = IF front + size < capacity THEN front + size
                         ELSE front + size - capacity
  <2>1. size + 1 \in 0..capacity + 1 /\ front + (size + 1) <= capacity + capacity
    BY <1>1
  <2>2. QED
    BY <1>1, <2>1, SlotOfValue
<1>6. SlotOf(0) # SlotOf(size + 1) /\ SlotOf(0) \in 0..capacity - 1
  BY <1>1, <1>4, <1>5
<1>7. QED
  BY <1>1, <1>2, <1>3, <1>6 DEF SlotOf, TypeOK

\* Every step of the handler and of the server thread keeps the pointer good.
LEMMA ReaderStep ==
  /\ TypeOK /\ RingConsistent /\ HeldPlace /\ HeldCommandIntact
  /\ [ReaderNext]_<<vars, cmd>>
  => HeldPlace' /\ HeldCommandIntact'
<1> SUFFICES ASSUME TypeOK, RingConsistent, HeldPlace, HeldCommandIntact,
                    [ReaderNext]_<<vars, cmd>>
             PROVE  HeldPlace' /\ HeldCommandIntact'
  OBVIOUS
<1>1. CASE PeekAtFrontElement
  <2>1. /\ cmd' = [at |-> "peeked", slot |-> front, data |-> slots[front]]
        /\ slots' = slots /\ front' = front /\ size' = size /\ size > 0
        /\ front \in Nat /\ slots[front] \in Commands \cup {Blank}
    BY <1>1, QueueAssumption DEF PeekAtFrontElement, isQueueEmpty, vars, TypeOK
  <2>2. QED
    BY <2>1 DEF HeldPlace, HeldCommandIntact
<1>2. CASE DequeuePeeked
  <2>1. /\ cmd.at = "peeked" /\ cmd' = [cmd EXCEPT !.at = "dequeued"]
        /\ capacity' = capacity /\ slots' = slots
    BY <1>2 DEF DequeuePeeked, GetFrontElement
  <2>2. /\ cmd'.at = "dequeued" /\ cmd'.slot = cmd.slot /\ cmd'.data = cmd.data
        /\ cmd' \in [at : {"dequeued"}, slot : Nat, data : Commands \cup {Blank}]
    BY <2>1 DEF HeldPlace
  <2>3. ASSUME ~Grown' PROVE cmd'.slot = SlotOf(0)' /\ slots'[cmd'.slot] = cmd'.data
    <3>1. ~Grown
      BY <2>1, <2>3 DEF Grown
    <3>2. cmd.slot = front /\ slots[cmd.slot] = cmd.data
      BY <2>1, <3>1 DEF HeldPlace, HeldCommandIntact
    <3>3. SlotOf(0)' = front
      BY <1>2, SlotBeforeFront DEF DequeuePeeked
    <3>4. QED
      BY <2>1, <2>2, <3>2, <3>3
  <2>4. QED
    BY <2>2, <2>3 DEF HeldPlace, HeldCommandIntact
<1>3. CASE Handled
  BY <1>3 DEF Handled, NoCommand, HeldPlace, HeldCommandIntact
<1>4. ASSUME NEW c \in Commands, AddElement(c), UNCHANGED cmd
      PROVE  HeldPlace' /\ HeldCommandIntact'
  <2>1. /\ capacity' = capacity /\ front' = front /\ size' = size + 1 /\ size \in Nat
    BY <1>4, QueueAssumption DEF AddElement, Store, TypeOK
  <2>2. Grown' = Grown /\ SlotOf(0)' = SlotOf(0)
    BY <2>1 DEF Grown, SlotOf
  <2>3. HeldPlace'
    BY <1>4, <2>1, <2>2 DEF HeldPlace
  <2>4. ASSUME ~Grown, cmd.at = "peeked" PROVE slots'[cmd.slot] = cmd.data
    <3>1. cmd.slot = SlotOf(1) /\ 1 \in 1..size
      BY <2>1, <2>4, FirstSlot DEF HeldPlace
    <3>2. slots'[SlotOf(1)] = slots[SlotOf(1)]
      BY <1>4, <2>4, <3>1, AddStep
    <3>3. QED
      BY <2>4, <3>1, <3>2 DEF HeldCommandIntact
  <2>5. ASSUME ~Grown, cmd.at = "dequeued", ~isQueueFull' PROVE slots'[cmd.slot] = cmd.data
    <3>1. slots'[SlotOf(0)] = slots[SlotOf(0)]
      BY <1>4, <2>5, AddSparesDequeued
    <3>2. ~isQueueFull
      BY <1>4 DEF AddElement
    <3>3. QED
      BY <2>5, <3>1, <3>2 DEF HeldPlace, HeldCommandIntact
  <2>6. QED
    BY <1>4, <2>2, <2>3, <2>4, <2>5 DEF HeldCommandIntact
<1>5. ASSUME NEW c \in Commands, AddElementGrowing(c), UNCHANGED cmd
      PROVE  HeldPlace' /\ HeldCommandIntact'
  <2>1. Grown'
    BY <1>5, GrowStep
  <2>2. QED
    BY <1>5, <2>1 DEF HeldPlace, HeldCommandIntact
<1>6. CASE UNCHANGED <<vars, cmd>>
  BY <1>6 DEF vars, HeldPlace, HeldCommandIntact, Grown, SlotOf, isQueueFull
<1>7. QED
  BY <1>1, <1>2, <1>3, <1>4, <1>5, <1>6 DEF ReaderNext, AddElementBeside

\* In every reachable state, for every capacity, the handler reads the command it looked at
\* (TDServerThreads.c:869-982), until the queue grows or, after the element was dequeued,
\* is full.
THEOREM ReaderHoldsItsCommand == ReaderSpec => []HeldCommandIntact
<1>1. ReaderInit => TypeOK /\ RingConsistent /\ HeldPlace /\ HeldCommandIntact
  <2> SUFFICES ASSUME ReaderInit PROVE TypeOK /\ RingConsistent /\ HeldPlace /\ HeldCommandIntact
    OBVIOUS
  <2>1. TypeOK
    BY InitTypeOK DEF ReaderInit
  <2>2. front + size - 1 = 0 /\ 0 % InitialCapacity = 0
    <3>1. 0 \in -1..InitialCapacity + InitialCapacity - 1
      BY QueueAssumption
    <3>2. QED
      BY <3>1, RingIndex, QueueAssumption DEF ReaderInit, Init
  <2>3. RingConsistent
    BY <2>2 DEF ReaderInit, Init, RingConsistent
  <2>4. QED
    BY <2>1, <2>3 DEF ReaderInit, NoCommand, HeldPlace, HeldCommandIntact
<1>2. QED
  BY <1>1, ReaderStepsTheQueue, NextTypeOK, NextRingConsistent, ReaderStep, PTL DEF ReaderSpec

-------------------------------------------------------------------------------
\* The framing of commands.

\* Byte y comes after byte x of the same command.
Succeeds(y, x) == x.left > 0 /\ y.n = x.n /\ y.place = x.place + 1 /\ y.left = x.left - 1

\* A sequence of bytes in which a byte is the next one of its command or the first of one.
\* A command has a character at least before its three newlines.
Pieces(t, n) ==
  /\ \A k \in DOMAIN t : t[k].n <= n /\ (t[k].place = 1 => t[k].left >= 3)
  /\ \A i, k \in DOMAIN t : k = i + 1 => t[k].place = 1 \/ Succeeds(t[k], t[i])

\* Commands, the last of them perhaps not to its end.
Follows(y, x) == IF x.left = 0 THEN y.place = 1 /\ y.n > x.n ELSE Succeeds(y, x)
InStep(t) ==
  /\ \A k \in DOMAIN t : k = 1 => t[k].place = 1
  /\ \A i, k \in DOMAIN t : k = i + 1 => Follows(t[k], t[i])

\* One command to its end, or the end of one, or nothing.
Remains(t) == \A k \in DOMAIN t : t[k].left = Len(t) - k
OneCommand(t) == Remains(t) /\ \A k \in DOMAIN t : t[k].place = k /\ t[k].n = t[1].n

\* A slot's buffer b and the bytes w that are on their way to it, on a connection that is
\* open or not, after torn tears and wrong wrong commands, when n commands were sent.
\* While the client waits, a tear is paid for as soon as what is in the buffer and on the
\* way is one command, or nothing.
Good(b, w, open, torn, wrong, paced, n) ==
  /\ ~open => w = <<>>
  /\ Pieces(b \o w, n)
  /\ \A k \in DOMAIN w : k = Len(w) => w[k].left = 0
  /\ ~EndsCommand(b)
  /\ torn = 0 => InStep(b \o w) /\ (open /\ w = <<>> => b = <<>>)
  /\ paced => Remains(w) /\ wrong <= torn /\ (open /\ ~OneCommand(b \o w) => wrong < torn)

SlotsGood ==
  \A s \in Slots : Good(buffer[s], wire[s], connected[s], past[s].torn, past[s].wrong,
                        past[s].paced, sent)

FramingType ==
  /\ wire \in [Slots -> Seq(Byte)] /\ buffer \in [Slots -> Seq(Byte)]
  /\ connected \in [Slots -> BOOLEAN] /\ sent \in 0..MaxSent
  /\ handed \in [slot : Slots, bytes : Seq(Byte)]
  /\ past \in [Slots -> [torn : Nat, wrong : Nat, paced : BOOLEAN]]

FramingIInv == FramingType /\ SlotsGood /\ WholeOnly

-------------------------------------------------------------------------------
\* The numbers of bytes.
LEMMA ByteFields ==
  ASSUME NEW t \in Seq(Byte)
  PROVE  /\ Len(t) \in Nat /\ DOMAIN t = 1..Len(t) /\ (t = <<>> <=> Len(t) = 0)
         /\ \A k \in 1..Len(t) : t[k].n \in Nat /\ t[k].place \in Nat \ {0} /\ t[k].left \in Nat
<1>1. Len(t) \in Nat /\ DOMAIN t = 1..Len(t) /\ (t = <<>> <=> Len(t) = 0)
  BY LenProperties, EmptySeq
<1>2. \A k \in 1..Len(t) : t[k] \in Byte
  BY ElementOfSeq
<1>3. \A x \in Byte : x.n \in Nat /\ x.place \in Nat \ {0} /\ x.left \in Nat
  BY FramingAssumption DEF Byte
<1>. QED
  BY <1>1, <1>2, <1>3

\* Sequences put together, place by place.
LEMMA Joined ==
  ASSUME NEW b \in Seq(Byte), NEW w \in Seq(Byte)
  PROVE  /\ b \o w \in Seq(Byte) /\ Len(b \o w) = Len(b) + Len(w)
         /\ \A i \in 1..Len(b) : (b \o w)[i] = b[i]
         /\ \A i \in 1..Len(w) : (b \o w)[Len(b) + i] = w[i]
         /\ \A i \in 1..Len(b) + Len(w) :
              i <= Len(b) \/ (i - Len(b) \in 1..Len(w) /\ (b \o w)[i] = w[i - Len(b)])
<1>1. /\ b \o w \in Seq(Byte) /\ Len(b \o w) = Len(b) + Len(w)
      /\ \A i \in 1..Len(b) + Len(w) :
           (b \o w)[i] = IF i <= Len(b) THEN b[i] ELSE w[i - Len(b)]
  BY ConcatProperties
<1>2. Len(b) \in Nat /\ Len(w) \in Nat
  BY LenProperties
<1>. QED
  BY <1>1, <1>2

LEMMA CommandBytes ==
  ASSUME NEW n \in 0..MaxSent, n < MaxSent, NEW length \in Lengths
  PROVE  /\ Command(n + 1, length) \in Seq(Byte)
         /\ Len(Command(n + 1, length)) = length + 3 /\ length \in Nat /\ length > 0
         /\ \A k \in 1..length + 3 : /\ Command(n + 1, length)[k].n = n + 1
                                     /\ Command(n + 1, length)[k].place = k
                                     /\ Command(n + 1, length)[k].left = length + 3 - k
<1>1. length \in Nat /\ length > 0 /\ n + 1 \in 1..MaxSent
  BY FramingAssumption
<1>2. \A k \in 1..length + 3 : [n |-> n + 1, place |-> k, left |-> length + 3 - k] \in Byte
  BY <1>1 DEF Byte
<1>3. Command(n + 1, length) \in [1..length + 3 -> Byte]
  BY <1>2 DEF Command
<1>4. Command(n + 1, length) \in Seq(Byte) /\ Len(Command(n + 1, length)) = length + 3
  BY <1>1, <1>3
<1>. QED
  BY <1>1, <1>4 DEF Command

\* Bytes p and p + 1 of a command of m.
LEMMA NextPlace ==
  ASSUME NEW x, NEW y, NEW m \in Nat, NEW p \in Nat, p < m, y.n = x.n,
         x.place = p, y.place = p + 1, x.left = m - p, y.left = m - (p + 1)
  PROVE  Succeeds(y, x) /\ x.left # 0
BY DEF Succeeds

\* A command sent after bytes that are pieces, or commands to their end.
LEMMA CommandAfter ==
  ASSUME NEW t \in Seq(Byte), NEW n \in 0..MaxSent, n < MaxSent, NEW length \in Lengths,
         Pieces(t, n)
  PROVE  /\ Pieces(t \o Command(n + 1, length), n + 1)
         /\ InStep(t) /\ (t # <<>> => t[Len(t)].left = 0) => InStep(t \o Command(n + 1, length))
<1> DEFINE c == Command(n + 1, length)
           u == t \o c
<1>1. /\ c \in Seq(Byte) /\ Len(c) = length + 3 /\ length \in Nat /\ length > 0 /\ n \in Nat
      /\ \A k \in 1..Len(c) : c[k].n = n + 1 /\ c[k].place = k /\ c[k].left = length + 3 - k
  <2>1. /\ c \in Seq(Byte) /\ Len(c) = length + 3 /\ length \in Nat /\ length > 0
        /\ \A k \in 1..length + 3 : /\ c[k].n = n + 1 /\ c[k].place = k
                                     /\ c[k].left = length + 3 - k
    BY CommandBytes
  <2>2. n \in Nat
    BY FramingAssumption
  <2> HIDE DEF c
  <2>. QED
    BY <2>1, <2>2
<1> HIDE DEF c
<1>2. /\ u \in Seq(Byte) /\ Len(u) = Len(t) + Len(c)
      /\ \A i \in 1..Len(t) : u[i] = t[i]
      /\ \A i \in 1..Len(t) + Len(c) :
              i <= Len(t) \/ (i - Len(t) \in 1..Len(c) /\ u[i] = c[i - Len(t)])
  BY <1>1, Joined
<1>3. /\ Len(t) \in Nat /\ DOMAIN t = 1..Len(t) /\ (t = <<>> <=> Len(t) = 0)
      /\ DOMAIN u = 1..Len(u)
      /\ \A k \in 1..Len(t) : t[k].n \in Nat /\ t[k].place \in Nat \ {0} /\ t[k].left \in Nat
  BY <1>2, ByteFields
<1> HIDE DEF u
<1>10. /\ Len(u) = Len(t) + (length + 3) /\ Len(t) \in Nat /\ length \in Nat
       /\ DOMAIN u = 1..Len(u)
  BY <1>1, <1>2, <1>3
<1>4. ASSUME NEW k \in 1..Len(u)
      PROVE  /\ k \in Nat
             /\ k <= Len(t) => u[k] = t[k]
             /\ k > Len(t) => /\ u[k].n = n + 1 /\ u[k].place = k - Len(t)
                              /\ u[k].left = (length + 3) - (k - Len(t))
  BY <1>1, <1>2, <1>3
<1>5. \A k \in DOMAIN u : u[k].n <= n + 1 /\ (u[k].place = 1 => u[k].left >= 3)
  <2> SUFFICES ASSUME NEW k \in 1..Len(u)
               PROVE  u[k].n <= n + 1 /\ (u[k].place = 1 => u[k].left >= 3)
    BY <1>3
  <2>1. CASE k <= Len(t)
    <3>1. k \in 1..Len(t)
      BY <1>3, <2>1
    <3>2. u[k] = t[k] /\ t[k].n <= n /\ (t[k].place = 1 => t[k].left >= 3) /\ t[k].n \in Nat
      BY <1>3, <1>4, <2>1, <3>1 DEF Pieces
    <3>. QED
      BY <1>1, <3>2
  <2>2. CASE k > Len(t)
    BY <1>1, <1>3, <1>4, <2>2
  <2>. QED
    BY <1>3, <2>1, <2>2
<1>6. ASSUME NEW i \in DOMAIN u, NEW k \in DOMAIN u, k = i + 1
      PROVE  u[k].place = 1 \/ Succeeds(u[k], u[i])
  <2>1. CASE k <= Len(t)
    <3>1. i \in 1..Len(t) /\ k \in 1..Len(t) /\ u[i] = t[i] /\ u[k] = t[k]
      BY <1>2, <1>3, <1>6, <2>1
    <3>. QED
      BY <1>3, <1>6, <3>1 DEF Pieces
  <2>2. CASE k = Len(t) + 1
    BY <1>3, <1>4, <2>2
  <2>3. CASE k > Len(t) + 1
    <3>1. /\ i > Len(t) /\ k > Len(t) /\ i \in 1..Len(u) /\ k \in 1..Len(u)
      BY <1>3, <1>6, <2>3
    <3>2. /\ u[k].n = n + 1 /\ u[k].place = k - Len(t) /\ u[k].left = (length + 3) - (k - Len(t))
          /\ u[i].n = n + 1 /\ u[i].place = i - Len(t) /\ u[i].left = (length + 3) - (i - Len(t))
      BY <1>3, <1>4, <3>1
    <3> DEFINE m == length + 3
               p == i - Len(t)
    <3>3. m \in Nat /\ p \in Nat /\ p < m /\ k - Len(t) = p + 1 /\ i \in Nat /\ k \in Nat
      BY <1>6, <1>10, <3>1
    <3>4. u[k].n = u[i].n
      BY <3>2
    <3>5. u[i].place = p /\ u[i].left = m - p
      BY <3>2
    <3>6. u[k].place = p + 1
      BY <3>2, <3>3
    <3>7. u[k].left = m - (p + 1)
      <4>1. u[k].left = m - (k - Len(t))
        BY <3>2
      <4>. QED
        BY <3>3, <4>1
    <3> HIDE DEF m, p
    <3>. QED
      BY <3>3, <3>4, <3>5, <3>6, <3>7, NextPlace
  <2>. QED
    BY <1>3, <2>1, <2>2, <2>3
<1>7. Pieces(u, n + 1)
  BY <1>5, <1>6 DEF Pieces
<1>8. ASSUME InStep(t), t # <<>> => t[Len(t)].left = 0 PROVE InStep(u)
  <2>1. ASSUME NEW i \in DOMAIN u, NEW k \in DOMAIN u, k = i + 1 PROVE Follows(u[k], u[i])
    <3>1. CASE k <= Len(t)
      <4>1. /\ i \in 1..Len(u) /\ k \in 1..Len(u) /\ i <= Len(t)
            /\ i \in 1..Len(t) /\ k \in 1..Len(t)
        BY <1>10, <2>1, <3>1
      <4>2. i \in DOMAIN t /\ k \in DOMAIN t /\ u[i] = t[i] /\ u[k] = t[k]
        BY <1>3, <1>4, <3>1, <4>1
      <4>. QED
        BY <1>8, <2>1, <4>2 DEF InStep
    <3>2. CASE k = Len(t) + 1
      <4>1. u[i] = t[Len(t)] /\ t[Len(t)].left = 0 /\ t[Len(t)].n <= n
        <5>1. /\ i = Len(t) /\ i \in 1..Len(u) /\ i \in DOMAIN t /\ t # <<>> /\ i <= Len(t)
          BY <1>3, <1>10, <2>1, <3>2
        <5>2. u[i] = t[i]
          BY <1>4, <5>1
        <5>. QED
          BY <1>8, <5>1, <5>2 DEF Pieces
      <4>2. u[k].place = 1 /\ u[k].n = n + 1
        BY <1>3, <1>4, <3>2
      <4>3. t[Len(t)].n \in Nat
        BY <1>3, <2>1, <3>2
      <4>. QED
        BY <1>1, <4>1, <4>2, <4>3 DEF Follows
    <3>3. CASE k > Len(t) + 1
      <4>1. /\ i > Len(t) /\ k > Len(t) /\ i \in 1..Len(u) /\ k \in 1..Len(u)
        BY <1>3, <2>1, <3>3
      <4>2. /\ u[k].n = n + 1 /\ u[k].place = k - Len(t) /\ u[k].left = (length + 3) - (k - Len(t))
            /\ u[i].n = n + 1 /\ u[i].place = i - Len(t) /\ u[i].left = (length + 3) - (i - Len(t))
        BY <1>3, <1>4, <4>1
      <4> DEFINE m == length + 3
                 p == i - Len(t)
      <4>3. m \in Nat /\ p \in Nat /\ p < m /\ k - Len(t) = p + 1 /\ i \in Nat /\ k \in Nat
        BY <1>10, <2>1, <4>1
      <4>4. u[k].n = u[i].n
        BY <4>2
      <4>5. u[i].place = p /\ u[i].left = m - p
        BY <4>2
      <4>6. u[k].place = p + 1
        BY <4>2, <4>3
      <4>7. u[k].left = m - (p + 1)
        <5>1. u[k].left = m - (k - Len(t))
          BY <4>2
        <5>. QED
          BY <4>3, <5>1
      <4> HIDE DEF m, p
      <4>. QED
        BY <4>3, <4>4, <4>5, <4>6, <4>7, NextPlace DEF Follows
    <3>. QED
      BY <1>3, <3>1, <3>2, <3>3
  <2>2. \A k \in DOMAIN u : k = 1 => u[k].place = 1
    BY <1>3, <1>4, <1>8 DEF InStep
  <2>. QED
    BY <2>1, <2>2 DEF InStep
<1>. QED
  BY <1>7, <1>8 DEF u, c

Cat(x, y) == x \o y
LEMMA CatAssociative ==
  \A x, y, z \in Seq(Byte) : Cat(Cat(x, y), z) = Cat(x, Cat(y, z))
  BY ConcatAssociative DEF Cat

LEMMA SendGood ==
  ASSUME NEW b \in Seq(Byte), NEW w \in Seq(Byte), NEW torn \in Nat, NEW wrong \in Nat,
         NEW paced \in BOOLEAN, NEW n \in 0..MaxSent, n < MaxSent, NEW length \in Lengths,
         Good(b, w, TRUE, torn, wrong, paced, n)
  PROVE  Good(b, w \o Command(n + 1, length), TRUE, torn, wrong, paced /\ w = <<>>, n + 1)
<1> DEFINE c == Command(n + 1, length)
<1>1. /\ c \in Seq(Byte) /\ Len(c) = length + 3 /\ length \in Nat /\ length > 0 /\ n \in Nat
      /\ \A k \in 1..Len(c) : c[k].n = n + 1 /\ c[k].place = k /\ c[k].left = length + 3 - k
  <2>1. /\ c \in Seq(Byte) /\ Len(c) = length + 3 /\ length \in Nat /\ length > 0
        /\ \A k \in 1..length + 3 : /\ c[k].n = n + 1 /\ c[k].place = k
                                     /\ c[k].left = length + 3 - k
    BY CommandBytes
  <2>2. n \in Nat
    BY FramingAssumption
  <2> HIDE DEF c
  <2>. QED
    BY <2>1, <2>2
<1>2. /\ Pieces(b \o w, n) => Pieces((b \o w) \o c, n + 1)
      /\ InStep(b \o w) /\ (b \o w # <<>> => (b \o w)[Len(b \o w)].left = 0) /\ Pieces(b \o w, n)
           => InStep((b \o w) \o c)
  BY Joined, CommandAfter
<1> HIDE DEF c
<1>3. b \o (w \o c) = (b \o w) \o c
  BY <1>1, CatAssociative, Zenon DEF Cat
<1>4. /\ w \o c \in Seq(Byte) /\ Len(w \o c) = Len(w) + Len(c)
      /\ \A i \in 1..Len(c) : (w \o c)[Len(w) + i] = c[i]
      /\ b \o w \in Seq(Byte) /\ Len(b \o w) = Len(b) + Len(w)
      /\ \A i \in 1..Len(w) : (b \o w)[Len(b) + i] = w[i]
  <2>1. /\ w \o c \in Seq(Byte) /\ Len(w \o c) = Len(w) + Len(c)
        /\ \A i \in 1..Len(c) : (w \o c)[Len(w) + i] = c[i]
    BY <1>1, Joined
  <2>2. /\ b \o w \in Seq(Byte) /\ Len(b \o w) = Len(b) + Len(w)
        /\ \A i \in 1..Len(w) : (b \o w)[Len(b) + i] = w[i]
    BY Joined
  <2>. QED
    BY <2>1, <2>2
<1>5. /\ Len(w) \in Nat /\ DOMAIN w = 1..Len(w) /\ (w = <<>> <=> Len(w) = 0)
      /\ Len(b) \in Nat /\ (b = <<>> <=> Len(b) = 0)
      /\ DOMAIN (w \o c) = 1..Len(w) + Len(c) /\ (b \o w = <<>> <=> Len(b) + Len(w) = 0)
  BY <1>4, ByteFields
<1>6. Pieces(b \o (w \o c), n + 1)
  BY <1>2, <1>3 DEF Good
<1>7. (w \o c)[Len(w) + Len(c)].left = 0
  BY <1>1, <1>4, <1>5
<1>8. torn = 0 => InStep(b \o (w \o c)) /\ w \o c # <<>>
  <2>1. torn = 0 /\ b \o w # <<>> => (b \o w)[Len(b \o w)].left = 0
    BY <1>4, <1>5 DEF Good
  <2>2. w \o c # <<>>
    BY <1>1, <1>4, <1>5, ByteFields
  <2>. QED
    BY <1>2, <1>3, <2>1, <2>2 DEF Good
<1>9. ASSUME paced, w = <<>>
      PROVE  /\ Remains(w \o c) /\ wrong <= torn
             /\ ~OneCommand(b \o (w \o c)) => wrong < torn
  <2>1. w \o c = c /\ b \o w = b
    BY <1>1, <1>9, ConcatEmptySeq
  <2>2. Remains(c) /\ OneCommand(c)
    <3>1. DOMAIN c = 1..Len(c)
      BY <1>1, ByteFields
    <3>2. \A k \in DOMAIN c : c[k].left = Len(c) - k /\ c[k].place = k /\ c[k].n = c[1].n
      BY <1>1, <3>1
    <3>. QED
      BY <3>2 DEF Remains, OneCommand
  <2>3. CASE b = <<>>
    BY <1>1, <1>9, <2>1, <2>2, <2>3, ConcatEmptySeq DEF Good
  <2>4. CASE b # <<>>
    <3>1. ~OneCommand(b)
      <4> SUFFICES ASSUME OneCommand(b) PROVE EndsCommand(b)
        BY DEF Good
      <4>1. \A k \in 1..Len(b) : b[k].left = Len(b) - k /\ b[k].place = k
        BY ByteFields DEF OneCommand, Remains
      <4>2. b[1].left >= 3
        BY <1>5, <2>1, <2>4, <4>1, ByteFields DEF Good, Pieces
      <4>3. Len(b) >= 4
        BY <1>5, <2>4, <4>1, <4>2
      <4>. QED
        BY <1>5, <4>1, <4>3 DEF EndsCommand, Newline
    <3>2. wrong < torn
      BY <1>9, <2>1, <3>1 DEF Good
    <3>. QED
      BY <2>1, <2>2, <3>2
  <2>. QED
    BY <2>3, <2>4
<1>10. ~EndsCommand(b)
  BY DEF Good
<1>11. \A k \in DOMAIN (w \o c) : k = Len(w \o c) => (w \o c)[k].left = 0
  BY <1>4, <1>7
<1>. QED
  BY <1>6, <1>8, <1>9, <1>10, <1>11 DEF Good, c

\* A first command on a slot that another connection may have left bytes in.
LEMMA ConnectGood ==
  ASSUME NEW b \in Seq(Byte), NEW w \in Seq(Byte), NEW torn \in Nat, NEW wrong \in Nat,
         NEW paced \in BOOLEAN, NEW n \in 0..MaxSent, n < MaxSent, NEW length \in Lengths,
         Good(b, w, FALSE, torn, wrong, paced, n)
  PROVE  Good(b, Command(n + 1, length), TRUE, IF b = <<>> THEN torn ELSE torn + 1, wrong,
              paced, n + 1)
<1> DEFINE c == Command(n + 1, length)
           more == IF b = <<>> THEN torn ELSE torn + 1
<1>1. /\ c \in Seq(Byte) /\ Len(c) = length + 3 /\ length \in Nat /\ length > 0 /\ n \in Nat
      /\ \A k \in 1..Len(c) : c[k].n = n + 1 /\ c[k].place = k /\ c[k].left = length + 3 - k
  <2>1. /\ c \in Seq(Byte) /\ Len(c) = length + 3 /\ length \in Nat /\ length > 0
        /\ \A k \in 1..length + 3 : /\ c[k].n = n + 1 /\ c[k].place = k
                                     /\ c[k].left = length + 3 - k
    BY CommandBytes
  <2>2. n \in Nat
    BY FramingAssumption
  <2> HIDE DEF c
  <2>. QED
    BY <2>1, <2>2
<1>2. DOMAIN c = 1..Len(c) /\ c # <<>>
  BY <1>1, ByteFields
<1>3. w = <<>> /\ b \o w = b
  BY ConcatEmptySeq DEF Good
<1>4. Pieces(b \o c, n + 1)
  BY <1>3, CommandAfter DEF Good
<1>5. b = <<>> => InStep(b \o c)
  <2>1. ASSUME b = <<>> PROVE InStep(b)
    BY <2>1, ByteFields DEF InStep
  <2>. QED
    BY <1>3, <2>1, CommandAfter DEF Good
<1> HIDE DEF c
<1>6. \A k \in DOMAIN c : k = Len(c) => c[k].left = 0
  BY <1>1, <1>2
<1>7. OneCommand(c) /\ Remains(c)
  <2>1. DOMAIN c = 1..Len(c)
    BY <1>2
  <2>2. \A k \in DOMAIN c : c[k].left = Len(c) - k /\ c[k].place = k /\ c[k].n = c[1].n
    BY <1>1, <2>1
  <2>. QED
    BY <2>2 DEF OneCommand, Remains
<1>8. more \in Nat /\ (more = 0 => b = <<>>) /\ (b # <<>> => torn < more) /\ torn <= more
  OBVIOUS
<1>9. b = <<>> => b \o c = c
  BY <1>1, ConcatEmptySeq
<1>10. ~EndsCommand(b) /\ (paced => wrong <= torn)
  BY DEF Good
<1> HIDE DEF more
<1>11. paced => wrong <= more /\ (b # <<>> => wrong < more)
  BY <1>8, <1>10
<1>12. Good(b, c, TRUE, more, wrong, paced, n + 1)
  BY <1>2, <1>4, <1>5, <1>6, <1>7, <1>8, <1>9, <1>10, <1>11, Zenon DEF Good
<1>. QED
  BY <1>12 DEF c, more

\* A part of a sequence of bytes, whole or from some place on.
LEMMA PartGood ==
  ASSUME NEW t \in Seq(Byte), NEW u \in Seq(Byte), NEW n \in Nat, NEW m \in Nat,
         m + Len(u) <= Len(t), \A k \in 1..Len(u) : u[k] = t[m + k]
  PROVE  /\ Pieces(t, n) => Pieces(u, n)
         /\ InStep(t) /\ (m = 0 \/ t[m].left = 0) => InStep(u)
<1>1. /\ Len(t) \in Nat /\ DOMAIN t = 1..Len(t) /\ Len(u) \in Nat /\ DOMAIN u = 1..Len(u)
  BY ByteFields
<1>2. \A k \in 1..Len(u) : m + k \in 1..Len(t)
  BY <1>1
<1>3. \A k \in DOMAIN u : k \in Int /\ m + k \in DOMAIN t /\ u[k] = t[m + k]
  BY <1>1, <1>2
<1>4. \A i, k \in DOMAIN u : k = i + 1 => m + k = (m + i) + 1
  BY <1>3
<1>5. ASSUME Pieces(t, n) PROVE Pieces(u, n)
  <2>1. ASSUME NEW k \in DOMAIN u PROVE u[k].n <= n /\ (u[k].place = 1 => u[k].left >= 3)
    <3>1. u[k] = t[m + k] /\ m + k \in DOMAIN t
      BY <1>1, <1>2
    <3>. QED
      BY <1>5, <3>1 DEF Pieces
  <2>2. ASSUME NEW i \in DOMAIN u, NEW k \in DOMAIN u, k = i + 1
        PROVE  u[k].place = 1 \/ Succeeds(u[k], u[i])
    <3>1. /\ u[k] = t[m + k] /\ m + k \in DOMAIN t /\ u[i] = t[m + i] /\ m + i \in DOMAIN t
          /\ m + k = (m + i) + 1
      BY <1>3, <1>4, <2>2
    <3>. QED
      BY <1>5, <3>1 DEF Pieces
  <2>. QED
    BY <2>1, <2>2 DEF Pieces
<1>6. ASSUME InStep(t), m = 0 \/ t[m].left = 0 PROVE InStep(u)
  <2>1. ASSUME NEW i \in DOMAIN u, NEW k \in DOMAIN u, k = i + 1 PROVE Follows(u[k], u[i])
    <3>1. /\ u[k] = t[m + k] /\ m + k \in DOMAIN t /\ u[i] = t[m + i] /\ m + i \in DOMAIN t
          /\ m + k = (m + i) + 1
      BY <1>3, <1>4, <2>1
    <3>. QED
      BY <1>6, <3>1 DEF InStep
  <2>2. ASSUME NEW k \in DOMAIN u, k = 1 PROVE u[k].place = 1
    <3>1. CASE m = 0
      BY <1>1, <1>2, <1>6, <2>2, <3>1 DEF InStep
    <3>2. CASE m # 0
      <4>1. m \in DOMAIN t /\ m + 1 \in DOMAIN t /\ u[k] = t[m + 1]
        BY <1>1, <1>2, <2>2, <3>2
      <4>2. Follows(t[m + 1], t[m])
        BY <1>6, <4>1 DEF InStep
      <4>. QED
        BY <1>6, <3>2, <4>1, <4>2 DEF Follows
    <3>. QED
      BY <3>1, <3>2
  <2>. QED
    BY <2>1, <2>2 DEF InStep
<1>. QED
  BY <1>5, <1>6

\* A slot, with its values of the kinds declared.
GoodSlot(b, w, open, torn, wrong, paced, n) ==
  /\ b \in Seq(Byte) /\ w \in Seq(Byte) /\ open \in BOOLEAN
  /\ torn \in Nat /\ wrong \in Nat /\ paced \in BOOLEAN /\ n \in Nat
  /\ Good(b, w, open, torn, wrong, paced, n)

\* The connection ends.
LEMMA DisconnectGood ==
  ASSUME NEW b, NEW w, NEW torn, NEW wrong, NEW paced, NEW n, NEW open,
         GoodSlot(b, w, open, torn, wrong, paced, n)
  PROVE  Good(b, <<>>, FALSE, torn, wrong, paced, n)
<1>0. /\ b \in Seq(Byte) /\ w \in Seq(Byte) /\ torn \in Nat /\ n \in Nat
      /\ Good(b, w, open, torn, wrong, paced, n)
  BY DEF GoodSlot
<1> USE <1>0
<1>1. b \o <<>> = b /\ <<>> \in Seq(Byte)
  BY ConcatEmptySeq
<1>2. /\ b \o w \in Seq(Byte) /\ Len(b \o w) = Len(b) + Len(w)
      /\ \A k \in 1..Len(b) : (b \o w)[k] = b[k]
      /\ Len(b) \in Nat /\ Len(w) \in Nat
  BY Joined, ByteFields
<1>3. 0 + Len(b) <= Len(b \o w) /\ \A k \in 1..Len(b) : b[k] = (b \o w)[0 + k]
  BY <1>2
<1>4. Pieces(b, n) /\ (torn = 0 => InStep(b))
  <2> DEFINE t == b \o w
  <2>1. Pieces(t, n) /\ (torn = 0 => InStep(t))
    BY DEF Good
  <2>2. t \in Seq(Byte) /\ 0 + Len(b) <= Len(t) /\ \A k \in 1..Len(b) : b[k] = t[0 + k]
    BY <1>2, <1>3
  <2> HIDE DEF t
  <2>. QED
    BY <2>1, <2>2, PartGood
<1>5. Remains(<<>>) /\ \A k \in DOMAIN <<>> : FALSE
  BY DEF Remains
<1>6. ~EndsCommand(b) /\ (paced => wrong <= torn)
  BY DEF Good
<1>. QED
  BY <1>1, <1>4, <1>5, <1>6, Zenon DEF Good

\* Commands sent on other slots.
LEMMA GoodLater ==
  ASSUME NEW b, NEW w, NEW torn, NEW wrong, NEW paced, NEW n, NEW open,
         GoodSlot(b, w, open, torn, wrong, paced, n)
  PROVE  Good(b, w, open, torn, wrong, paced, n + 1)
<1>0. /\ b \in Seq(Byte) /\ w \in Seq(Byte) /\ n \in Nat
      /\ Good(b, w, open, torn, wrong, paced, n)
  BY DEF GoodSlot
<1> USE <1>0
<1>1. b \o w \in Seq(Byte)
  BY Joined
<1> DEFINE t == b \o w
<1>2. \A k \in DOMAIN t : t[k].n \in Nat
  BY <1>1, ByteFields
<1> HIDE DEF t
<1>3. Pieces(t, n)
  BY DEF Good, t
<1>4. \A k \in DOMAIN t : t[k].n <= n + 1
  BY <1>2, <1>3 DEF Pieces
<1>5. Pieces(t, n + 1)
  BY <1>3, <1>4 DEF Pieces
<1>. QED
  BY <1>5, Zenon DEF Good, t

\* What a receive takes from the wire, and what it leaves there.
LEMMA SplitBytes ==
  ASSUME NEW b \in Seq(Byte), NEW w \in Seq(Byte), NEW k \in 1..Len(w)
  PROVE  /\ SubSeq(w, 1, k) \in Seq(Byte) /\ Len(SubSeq(w, 1, k)) = k
         /\ SubSeq(w, k + 1, Len(w)) \in Seq(Byte) /\ Len(SubSeq(w, k + 1, Len(w))) = Len(w) - k
         /\ \A i \in 1..k : SubSeq(w, 1, k)[i] = w[i]
         /\ \A i \in 1..Len(w) - k : SubSeq(w, k + 1, Len(w))[i] = w[k + i]
         /\ b \o SubSeq(w, 1, k) \in Seq(Byte)
         /\ (b \o SubSeq(w, 1, k)) \o SubSeq(w, k + 1, Len(w)) = b \o w
<1> DEFINE p == SubSeq(w, 1, k)
           r == SubSeq(w, k + 1, Len(w))
<1>1. Len(w) \in Nat /\ k \in Nat /\ k >= 1 /\ k <= Len(w) /\ \A i \in 1..Len(w) : w[i] \in Byte
  BY ElementOfSeq, ByteFields
<1>2. /\ p \in Seq(Byte) /\ Len(p) = k
      /\ \A i \in 1..k : p[i] = w[i]
  <2>1. \A i \in 1..k : w[i] \in Byte
    BY <1>1
  <2>2. /\ p \in Seq(Byte) /\ Len(p) = IF 1 <= k THEN k - 1 + 1 ELSE 0
        /\ \A i \in 1..k - 1 + 1 : p[i] = w[1 + i - 1]
    BY <1>1, <2>1, SubSeqProperties
  <2>. QED
    BY <1>1, <2>2
<1>3. /\ r \in Seq(Byte) /\ Len(r) = Len(w) - k
      /\ \A i \in 1..Len(w) - k : r[i] = w[k + i]
  <2>1. \A i \in k + 1..Len(w) : w[i] \in Byte
    BY <1>1
  <2>2. k + 1 \in Int /\ Len(w) \in Int
    BY <1>1
  <2> DEFINE m == k + 1
  <2> HIDE DEF m
  <2>3. /\ SubSeq(w, m, Len(w)) \in Seq(Byte)
        /\ Len(SubSeq(w, m, Len(w))) = IF m <= Len(w) THEN Len(w) - m + 1 ELSE 0
        /\ \A i \in 1..Len(w) - m + 1 : SubSeq(w, m, Len(w))[i] = w[m + i - 1]
    BY <2>1, <2>2, SubSeqProperties DEF m
  <2>. QED
    BY <1>1, <2>3 DEF m
<1> HIDE DEF p, r
<1>4. p \o r = w
  <2>1. /\ p \o r \in Seq(Byte) /\ Len(p \o r) = Len(p) + Len(r)
        /\ \A i \in 1..Len(p) + Len(r) :
             (p \o r)[i] = IF i <= Len(p) THEN p[i] ELSE r[i - Len(p)]
    BY <1>2, <1>3, ConcatProperties
  <2>2. Len(p \o r) = Len(w)
    BY <1>1, <1>2, <1>3, <2>1
  <2>3. \A i \in 1..Len(p \o r) : (p \o r)[i] = w[i]
    BY <1>1, <1>2, <1>3, <2>1, <2>2
  <2>. QED
    BY <2>1, <2>2, <2>3, SeqEqual
<1>5. b \o p \in Seq(Byte)
  BY <1>2, Joined
<1>6. Cat(Cat(b, p), r) = Cat(b, Cat(p, r))
  BY <1>2, <1>3, CatAssociative
<1>7. (b \o p) \o r = b \o w
  BY <1>4, <1>6 DEF Cat
<1>. QED
  BY <1>1, <1>2, <1>3, <1>5, <1>7 DEF p, r

\* Three newlines in a row are the end of a command.
LEMMA EndsAt ==
  ASSUME NEW t \in Seq(Byte), NEW n \in Nat, Pieces(t, n), EndsCommand(t)
  PROVE  t # <<>> /\ t[Len(t)].left = 0
<1>1. /\ Len(t) \in Nat /\ DOMAIN t = 1..Len(t) /\ (t = <<>> <=> Len(t) = 0)
      /\ \A k \in 1..Len(t) : t[k].n \in Nat /\ t[k].place \in Nat \ {0} /\ t[k].left \in Nat
  BY ByteFields
<1>2. Len(t) >= 3 /\ \A k \in Len(t) - 2..Len(t) : t[k].left < 3
  BY DEF EndsCommand, Newline
<1> DEFINE i == Len(t) - 2
           j == Len(t) - 1
           k == Len(t)
<1>3. /\ i \in DOMAIN t /\ j \in DOMAIN t /\ k \in DOMAIN t /\ j = i + 1 /\ k = j + 1
      /\ t[i].left < 3 /\ t[j].left < 3 /\ t[k].left < 3
      /\ t[i].left \in Nat /\ t[j].left \in Nat /\ t[k].left \in Nat
  BY <1>1, <1>2
<1> HIDE DEF i, j, k
<1>4. Succeeds(t[j], t[i]) /\ Succeeds(t[k], t[j])
  BY <1>3 DEF Pieces
<1>5. t[k].left = 0
  BY <1>3, <1>4 DEF Succeeds
<1>. QED
  BY <1>1, <1>2, <1>5 DEF k

\* The end of a command is three newlines, when the bytes are in step.
LEMMA EndSeen ==
  ASSUME NEW t \in Seq(Byte), NEW n \in Nat, Pieces(t, n), InStep(t), t # <<>>,
         t[Len(t)].left = 0
  PROVE  EndsCommand(t)
<1>1. /\ Len(t) \in Nat /\ DOMAIN t = 1..Len(t) /\ Len(t) # 0
      /\ \A k \in 1..Len(t) : t[k].n \in Nat /\ t[k].place \in Nat \ {0} /\ t[k].left \in Nat
  BY ByteFields
\* A newline is not the first byte, and one more is left before it.
<1>2. ASSUME NEW k \in DOMAIN t, t[k].left < 3
      PROVE  k > 1 /\ k - 1 \in DOMAIN t /\ t[k - 1].left = t[k].left + 1
  <2>1. t[k].place # 1
    BY <1>1, <1>2 DEF Pieces
  <2>2. k # 1
    BY <2>1 DEF InStep
  <2>3. k - 1 \in DOMAIN t /\ k = (k - 1) + 1
    BY <1>1, <2>2
  <2>4. Follows(t[k], t[k - 1])
    BY <2>3 DEF InStep
  <2>5. t[k].left = t[k - 1].left - 1
    BY <2>1, <2>4 DEF Follows, Succeeds
  <2>6. t[k - 1].left \in Nat /\ t[k].left \in Nat
    BY <1>1, <2>3
  <2>. QED
    BY <1>1, <2>2, <2>3, <2>5, <2>6
<1>3. Len(t) \in DOMAIN t
  BY <1>1
<1>4. Len(t) - 1 \in DOMAIN t /\ t[Len(t) - 1].left = 1
  BY <1>2, <1>3
<1>5. (Len(t) - 1) - 1 \in DOMAIN t /\ t[(Len(t) - 1) - 1].left = 2
  BY <1>2, <1>4
<1>6. (Len(t) - 1) - 1 = Len(t) - 2
  BY <1>1
<1>7. Len(t) - 2 \in DOMAIN t /\ t[Len(t) - 2].left = 2
  BY <1>5, <1>6
<1>8. Len(t) >= 3
  BY <1>1, <1>7
<1>9. ASSUME NEW k \in Len(t) - 2..Len(t) PROVE t[k].left < 3
  <2>1. Len(t) - 2 \in Int /\ Len(t) \in Int /\ k \in Int /\ Len(t) - 2 <= k /\ k <= Len(t)
    BY <1>1, <1>9
  <2>2. k = Len(t) - 2 \/ k = Len(t) - 1 \/ k = Len(t)
    BY <2>1
  <2>. QED
    BY <1>2, <1>4, <1>7, <2>2
<1>. QED
  BY <1>8, <1>9 DEF EndsCommand, Newline

LEMMA SucceedsRecord ==
  ASSUME NEW x \in Byte, NEW y \in Byte, Succeeds(y, x)
  PROVE  y = [x EXCEPT !.place = @ + 1, !.left = @ - 1]
BY DEF Byte, Succeeds

\* Bytes in step up to the end of a command are whole commands.
LEMMA WholeWhenInStep ==
  ASSUME NEW t \in Seq(Byte), NEW n \in Nat, Pieces(t, n), InStep(t), EndsCommand(t)
  PROVE  WholeCommands(t)
<1>1. /\ Len(t) \in Nat /\ DOMAIN t = 1..Len(t) /\ \A k \in 1..Len(t) : t[k] \in Byte
  BY ElementOfSeq, ByteFields
<1>2. t[Len(t)].left = 0 /\ Len(t) # 0
  BY EndsAt, ByteFields
<1>3. t[1].place = 1
  BY <1>1, <1>2 DEF InStep
<1>4. ASSUME NEW k \in 1..Len(t) - 1
      PROVE  IF t[k].left = 0 THEN t[k + 1].place = 1 /\ t[k + 1].n > t[k].n
             ELSE t[k + 1] = [t[k] EXCEPT !.place = @ + 1, !.left = @ - 1]
  <2>1. k \in DOMAIN t /\ k + 1 \in DOMAIN t
    BY <1>1
  <2>2. Follows(t[k + 1], t[k])
    BY <2>1 DEF InStep
  <2>3. t[k] \in Byte /\ t[k + 1] \in Byte
    BY <1>1, <2>1
  <2>. QED
    BY <2>2, <2>3, SucceedsRecord DEF Follows
<1>. QED
  BY <1>2, <1>3, <1>4, Zenon DEF WholeCommands

\* One command is what IsOneCommand takes for one.
LEMMA OneIsOne ==
  ASSUME NEW t \in Seq(Byte), t # <<>>, OneCommand(t)
  PROVE  IsOneCommand(t)
<1>1. Len(t) \in Nat /\ DOMAIN t = 1..Len(t) /\ Len(t) # 0
  BY ByteFields
<1>2. 1 \in DOMAIN t
  BY <1>1
<1>3. t[1].place = 1 /\ t[1].left = Len(t) - 1 /\ \A k \in DOMAIN t : t[k].n = t[1].n
  BY <1>2 DEF OneCommand, Remains
<1>. QED
  BY <1>1, <1>3 DEF IsOneCommand

LEMMA CatPlaces ==
  \A x, y \in Seq(Byte) :
    /\ Len(Cat(x, y)) = Len(x) + Len(y)
    /\ \A i \in 1..Len(x) : Cat(x, y)[i] = x[i]
    /\ \A i \in 1..Len(y) : Cat(x, y)[Len(x) + i] = y[i]
<1> SUFFICES ASSUME NEW x \in Seq(Byte), NEW y \in Seq(Byte)
             PROVE  /\ Len(x \o y) = Len(x) + Len(y)
                    /\ \A i \in 1..Len(x) : (x \o y)[i] = x[i]
                    /\ \A i \in 1..Len(y) : (x \o y)[Len(x) + i] = y[i]
  BY DEF Cat
<1>. QED
  BY Joined

\* k bytes p are received of w: r stays on the wire, and d is the buffer with them.
Received(b, w, k, p, r, d) ==
  /\ k \in 1..Len(w) /\ p \in Seq(Byte) /\ r \in Seq(Byte) /\ d \in Seq(Byte)
  /\ Len(p) = k /\ Len(r) = Len(w) - k
  /\ \A i \in 1..k : p[i] = w[i]
  /\ \A i \in 1..Len(w) - k : r[i] = w[k + i]
  /\ d = Cat(b, p) /\ Cat(d, r) = Cat(b, w)

\* A receive, whether the bytes are thrown away, end a command or wait for more.
Counted(d, wrong) == IF IsOneCommand(d) THEN wrong ELSE wrong + 1
LEMMA ReceiveGood ==
  ASSUME NEW b, NEW w, NEW torn, NEW wrong, NEW paced, NEW n, NEW open,
         NEW k, NEW p, NEW r, NEW d, Received(b, w, k, p, r, d),
         GoodSlot(b, w, open, torn, wrong, paced, n)
  PROVE  /\ Good(<<>>, r, open, torn + 1, wrong, paced, n)
         /\ EndsCommand(d) =>
              /\ Good(<<>>, r, open, torn, Counted(d, wrong), paced, n)
              /\ d # <<>> /\ (torn = 0 => WholeCommands(d) /\ (paced => IsOneCommand(d)))
         /\ ~EndsCommand(d) => Good(d, r, open, torn, wrong, paced, n)
<1> DEFINE u == Cat(b, w)
           more == Counted(d, wrong)
<1>17. /\ b \in Seq(Byte) /\ w \in Seq(Byte) /\ open \in BOOLEAN
       /\ torn \in Nat /\ wrong \in Nat /\ paced \in BOOLEAN /\ n \in Nat
       /\ Good(b, w, open, torn, wrong, paced, n)
  BY DEF GoodSlot
<1>18. more \in Nat /\ (IsOneCommand(d) => more = wrong) /\ (more = wrong \/ more = wrong + 1)
  BY <1>17 DEF Counted
<1> HIDE DEF more
<1> USE <1>17, <1>18
<1>1. /\ k \in 1..Len(w) /\ p \in Seq(Byte) /\ r \in Seq(Byte) /\ d \in Seq(Byte)
      /\ Len(p) = k /\ Len(r) = Len(w) - k
      /\ \A i \in 1..k : p[i] = w[i]
      /\ \A i \in 1..Len(w) - k : r[i] = w[k + i]
      /\ u \in Seq(Byte) /\ Cat(b, p) = d /\ Cat(b, w) = u /\ Cat(d, r) = u
  <2>1. u \in Seq(Byte)
    BY Joined DEF Cat
  <2>. QED
    BY <2>1, Zenon DEF Received
<1> HIDE DEF u
<1>2. /\ Len(w) \in Nat /\ DOMAIN w = 1..Len(w) /\ k \in Nat /\ k >= 1 /\ k <= Len(w)
      /\ DOMAIN r = 1..Len(r) /\ (r = <<>> <=> Len(r) = 0)
      /\ Len(b) \in Nat /\ Len(d) \in Nat /\ (d = <<>> <=> Len(d) = 0)
  BY <1>1, ByteFields
<1>3. Len(u) = Len(d) + Len(r) /\ Len(u) = Len(b) + Len(w) /\ Len(d) = Len(b) + Len(p)
  <2>1. Len(Cat(d, r)) = Len(d) + Len(r)
    BY <1>1, CatPlaces
  <2>2. Len(Cat(b, w)) = Len(b) + Len(w)
    BY <1>17, CatPlaces
  <2>3. Len(Cat(b, p)) = Len(b) + Len(p)
    BY <1>1, <1>17, CatPlaces
  <2>. QED
    BY <1>1, <2>1, <2>2, <2>3, Zenon
<1>0. p \in Seq(Byte) /\ r \in Seq(Byte) /\ d \in Seq(Byte) /\ Cat(b, p) = d /\ Cat(d, r) = u
  BY <1>1, Zenon
<1>4. \A i \in 1..Len(d) : u[i] = d[i]
  <2>1. \A i \in 1..Len(d) : Cat(d, r)[i] = d[i]
    BY <1>0, CatPlaces, Zenon
  <2>. QED
    BY <1>0, <2>1, Zenon
<1>5. \A i \in 1..Len(r) : u[Len(d) + i] = r[i]
  <2>1. \A i \in 1..Len(r) : Cat(d, r)[Len(d) + i] = r[i]
    BY <1>0, CatPlaces, Zenon
  <2>. QED
    BY <1>0, <2>1, Zenon
<1>16. \A i \in 1..Len(p) : d[Len(b) + i] = p[i]
  <2>1. \A i \in 1..Len(p) : Cat(b, p)[Len(b) + i] = p[i]
    BY <1>0, CatPlaces, Zenon
  <2>. QED
    BY <1>0, <2>1, Zenon
<1> USE <1>1
<1>6. /\ open /\ Pieces(u, n) /\ ~EndsCommand(b)
      /\ \A i \in DOMAIN w : i = Len(w) => w[i].left = 0
      /\ torn = 0 => InStep(u)
      /\ paced => Remains(w) /\ wrong <= torn /\ (~OneCommand(u) => wrong < torn)
  <2>1. w # <<>>
    BY <1>2, ByteFields
  <2>2. u = b \o w
    BY DEF u, Cat
  <2>. QED
    BY <2>1, <2>2 DEF Good
<1>7. Pieces(d, n) /\ (torn = 0 => InStep(d))
  <2>1. 0 + Len(d) <= Len(u) /\ \A i \in 1..Len(d) : d[i] = u[0 + i]
    <3>1. 0 + Len(d) <= Len(u)
      BY <1>2, <1>3
    <3>2. ASSUME NEW i \in 1..Len(d) PROVE d[i] = u[0 + i]
      <4>1. 0 + i = i
        BY <1>2
      <4>. QED
        BY <1>4, <4>1
    <3>. QED
      BY <3>1, <3>2
  <2>. QED
    BY <1>3, <1>6, <2>1, PartGood
<1>8. Pieces(r, n) /\ (torn = 0 /\ EndsCommand(d) => InStep(r))
  <2>1. Len(d) + Len(r) <= Len(u) /\ \A i \in 1..Len(r) : r[i] = u[Len(d) + i]
    BY <1>2, <1>3, <1>5, SMTT(30)
  <2>2. EndsCommand(d) => u[Len(d)].left = 0
    <3>1. ASSUME EndsCommand(d) PROVE Len(d) \in 1..Len(d) /\ d[Len(d)].left = 0
      BY <1>2, <1>7, <3>1, EndsAt
    <3>. QED
      BY <1>4, <3>1
  <2>. QED
    BY <1>2, <1>3, <1>6, <2>1, <2>2, PartGood
<1>9. \A i \in DOMAIN r : i = Len(r) => r[i].left = 0
  <2> SUFFICES ASSUME NEW i \in DOMAIN r, i = Len(r) PROVE r[i].left = 0
    OBVIOUS
  <2>1. i \in 1..Len(w) - k /\ k + i = Len(w) /\ Len(w) \in DOMAIN w
    BY <1>2
  <2>2. r[i] = w[k + i]
    BY <2>1
  <2>. QED
    BY <1>6, <2>1, <2>2
<1>10. Remains(w) => Remains(r)
  <2> SUFFICES ASSUME Remains(w), NEW i \in DOMAIN r PROVE r[i].left = Len(r) - i
    BY DEF Remains
  <2>1. i \in Int /\ i \in 1..Len(w) - k /\ k + i \in DOMAIN w
    BY <1>2
  <2>2. r[i] = w[k + i] /\ w[k + i].left = Len(w) - (k + i)
    BY <2>1 DEF Remains
  <2>. QED
    BY <1>2, <2>1, <2>2
<1>11. <<>> \o r = r /\ ~EndsCommand(<<>>)
  <2>1. <<>> \o r = r
    BY ConcatEmptySeq
  <2>2. Len(<<>>) = 0
    BY EmptySeq
  <2>. QED
    BY <2>1, <2>2 DEF EndsCommand
<1>12. OneCommand(<<>>)
  <2>1. \A i \in DOMAIN <<>> : FALSE
    OBVIOUS
  <2>. QED
    BY <2>1 DEF OneCommand, Remains
<1>13. Good(<<>>, r, open, torn + 1, wrong, paced, n)
  <2>1. torn + 1 # 0 /\ (paced => wrong <= torn + 1 /\ wrong < torn + 1)
    BY <1>6
  <2>. QED
    BY <1>6, <1>8, <1>9, <1>10, <1>11, <2>1, Zenon DEF Good
<1>14. ASSUME EndsCommand(d)
       PROVE  /\ Good(<<>>, r, open, torn, more, paced, n)
              /\ d # <<>> /\ (torn = 0 => WholeCommands(d) /\ (paced => IsOneCommand(d)))
  <2>1. d # <<>> /\ d[Len(d)].left = 0
    BY <1>7, <1>14, EndsAt
  <2>2. d[Len(d)] = w[k]
    BY <1>2, <1>3, <1>16
  \* A client that waits has sent nothing but the rest of this command.
  <2>3. ASSUME paced PROVE r = <<>> /\ d = u
    <3>1. w[k].left = Len(w) - k
      BY <1>2, <1>6, <2>3 DEF Remains
    <3>2. r = <<>>
      BY <1>2, <2>1, <2>2, <3>1
    <3>3. Cat(d, r) = d
      BY <3>2, ConcatEmptySeq DEF Cat
    <3>. QED
      BY <3>2, <3>3
  <2>4. ASSUME paced PROVE more <= torn /\ (torn = 0 => IsOneCommand(d))
    <3>1. OneCommand(u) => IsOneCommand(d)
      BY <2>1, <2>3, <2>4, OneIsOne
    <3>. QED
      BY <1>6, <2>4, <3>1
  <2>5. torn = 0 => WholeCommands(d)
    BY <1>7, <1>14, WholeWhenInStep
  <2>6. Good(<<>>, r, open, torn, more, paced, n)
    <3>1. torn = 0 => InStep(r)
      BY <1>8, <1>14
    <3>2. paced => OneCommand(r)
      BY <1>12, <2>3
    <3>3. /\ ~open => r = <<>>
          /\ Pieces(<<>> \o r, n)
          /\ ~EndsCommand(<<>>)
          /\ torn = 0 => InStep(<<>> \o r) /\ (open /\ r = <<>> => <<>> = <<>>)
          /\ paced =>
               Remains(r) /\ more <= torn /\ (open /\ ~OneCommand(<<>> \o r) => more < torn)
      BY <1>6, <1>8, <1>10, <1>11, <2>4, <3>1, <3>2, Zenon
    <3>. QED
      BY <1>9, <3>3, Zenon DEF Good
  <2>. QED
    BY <2>1, <2>4, <2>5, <2>6
<1>15. ASSUME ~EndsCommand(d) PROVE Good(d, r, open, torn, wrong, paced, n)
  <2>1. ASSUME torn = 0, r = <<>> PROVE d = <<>>
    <3>1. Cat(d, r) = d
      BY <2>1, ConcatEmptySeq DEF Cat
    <3>2. d = u
      BY <3>1
    <3>3. Len(w) \in 1..Len(w) /\ w[Len(w)].left = 0
      BY <1>2, <1>6, SMTT(30)
    <3>4. u[Len(b) + Len(w)] = w[Len(w)]
      <4>1. \A i \in 1..Len(w) : Cat(b, w)[Len(b) + i] = w[i]
        BY CatPlaces, Zenon
      <4>. QED
        BY <3>3, <4>1
    <3>5. d[Len(d)].left = 0
      BY <1>3, <3>2, <3>3, <3>4
    <3>6. d # <<>> => EndsCommand(d)
      BY <1>7, <2>1, <3>5, EndSeen
    <3>. QED
      BY <1>15, <3>6
  <2>2. Pieces(d \o r, n) /\ (torn = 0 => InStep(d \o r))
    BY <1>6 DEF Cat, u
  <2>3. /\ ~open => r = <<>>
        /\ torn = 0 => InStep(d \o r) /\ (open /\ r = <<>> => d = <<>>)
        /\ paced => Remains(r) /\ wrong <= torn /\ (open /\ ~OneCommand(d \o r) => wrong < torn)
    BY <1>6, <1>10, <2>1, <2>2 DEF Cat, u
  <2>. QED
    BY <1>9, <1>15, <2>2, <2>3, Zenon DEF Good
<1>. QED
  BY <1>13, <1>14, <1>15 DEF more

-------------------------------------------------------------------------------
\* What a slot is known by.
LEMMA SlotTypes ==
  ASSUME FramingType, NEW s \in Slots
  PROVE  /\ buffer[s] \in Seq(Byte) /\ wire[s] \in Seq(Byte) /\ connected[s] \in BOOLEAN
         /\ past[s] \in [torn : Nat, wrong : Nat, paced : BOOLEAN]
         /\ past[s].torn \in Nat /\ past[s].wrong \in Nat /\ past[s].paced \in BOOLEAN
         /\ sent \in Nat /\ sent \in 0..MaxSent
<1>1. past[s] \in [torn : Nat, wrong : Nat, paced : BOOLEAN]
  BY DEF FramingType
<1>2. past[s].torn \in Nat /\ past[s].wrong \in Nat /\ past[s].paced \in BOOLEAN
  BY <1>1
<1>. QED
  BY <1>1, <1>2, FramingAssumption DEF FramingType

LEMMA PastUpdated ==
  ASSUME NEW x \in [torn : Nat, wrong : Nat, paced : BOOLEAN], NEW m \in Nat
  PROVE  /\ [x EXCEPT !.torn = m] \in [torn : Nat, wrong : Nat, paced : BOOLEAN]
         /\ [x EXCEPT !.wrong = m] \in [torn : Nat, wrong : Nat, paced : BOOLEAN]
OBVIOUS

\* A step of slot s leaves the other slots as they are, but for the commands sent.
LEMMA StepGood ==
  ASSUME FramingType, SlotsGood, NEW s \in Slots,
         \A t \in Slots \ {s} : /\ buffer'[t] = buffer[t] /\ wire'[t] = wire[t]
                                /\ connected'[t] = connected[t] /\ past'[t] = past[t],
         sent' = sent \/ sent' = sent + 1,
         Good(buffer'[s], wire'[s], connected'[s], past'[s].torn, past'[s].wrong,
              past'[s].paced, sent')
  PROVE  SlotsGood'
<1>1. ASSUME NEW t \in Slots, t # s
      PROVE  Good(buffer'[t], wire'[t], connected'[t], past'[t].torn, past'[t].wrong,
                  past'[t].paced, sent')
  <2>1. /\ buffer'[t] = buffer[t] /\ wire'[t] = wire[t]
        /\ connected'[t] = connected[t] /\ past'[t] = past[t]
    BY <1>1
  <2>2. Good(buffer[t], wire[t], connected[t], past[t].torn, past[t].wrong, past[t].paced, sent)
    BY <1>1 DEF SlotsGood
  <2>3. Good(buffer[t], wire[t], connected[t], past[t].torn, past[t].wrong, past[t].paced,
             sent + 1)
    <3>1. /\ buffer[t] \in Seq(Byte) /\ wire[t] \in Seq(Byte) /\ connected[t] \in BOOLEAN
          /\ past[t].torn \in Nat /\ past[t].wrong \in Nat /\ past[t].paced \in BOOLEAN
          /\ sent \in Nat
      BY <1>1, SlotTypes
    <3>2. GoodSlot(buffer[t], wire[t], connected[t], past[t].torn, past[t].wrong,
                   past[t].paced, sent)
      BY <2>2, <3>1 DEF GoodSlot
    <3>. QED
      BY <3>2, GoodLater, Zenon
  <2>. QED
    BY <2>1, <2>2, <2>3
<1>. QED
  BY <1>1 DEF SlotsGood

\* The command that was handed over last stays what it was.
LEMMA WholeKept ==
  ASSUME FramingType, WholeOnly, handed' = handed,
         \A t \in Slots : /\ past'[t].torn = 0 => past[t].torn = 0
                          /\ past'[t].paced => past[t].paced
  PROVE  WholeOnly'
<1>1. handed.slot \in Slots
  BY DEF FramingType
<1>. QED
  BY <1>1, Zenon DEF WholeOnly

LEMMA InitFraming == FramingInit => FramingIInv
<1> SUFFICES ASSUME FramingInit PROVE FramingIInv
  OBVIOUS
<1>1. FramingType
  <2>1. <<>> \in Seq(Byte)
    BY EmptySeq
  <2>2. handed \in [slot : Slots, bytes : Seq(Byte)]
    BY <2>1, FramingAssumption DEF FramingInit
  <2>3. past \in [Slots -> [torn : Nat, wrong : Nat, paced : BOOLEAN]]
    BY DEF FramingInit, NoPast
  <2>4. sent \in 0..MaxSent
    BY FramingAssumption DEF FramingInit
  <2>. QED
    BY <2>1, <2>2, <2>3, <2>4 DEF FramingInit, FramingType
<1>2. ASSUME NEW s \in Slots
      PROVE  Good(buffer[s], wire[s], connected[s], past[s].torn, past[s].wrong,
                  past[s].paced, sent)
  <2>1. /\ buffer[s] = <<>> /\ wire[s] = <<>> /\ connected[s] = FALSE
        /\ past[s].torn = 0 /\ past[s].wrong = 0 /\ past[s].paced = TRUE /\ sent = 0
    BY DEF FramingInit, NoPast
  <2>2. <<>> \o <<>> = <<>> /\ Len(<<>>) = 0 /\ \A k \in DOMAIN <<>> : FALSE
    BY EmptySeq, ConcatEmptySeq
  <2>3. Pieces(<<>>, 0) /\ InStep(<<>>) /\ Remains(<<>>) /\ ~EndsCommand(<<>>)
    BY <2>2 DEF Pieces, InStep, Remains, EndsCommand
  <2>. QED
    BY <2>1, <2>2, <2>3 DEF Good
<1>3. WholeOnly
  BY DEF FramingInit, WholeOnly
<1>. QED
  BY <1>1, <1>2, <1>3 DEF FramingIInv, SlotsGood

LEMMA ConnectKeeps ==
  ASSUME FramingIInv, NEW s \in Slots, NEW length \in Lengths, Connect(s, length)
  PROVE  FramingIInv'
<1> USE DEF FramingIInv
<1>1. /\ buffer[s] \in Seq(Byte) /\ wire[s] \in Seq(Byte)
      /\ past[s] \in [torn : Nat, wrong : Nat, paced : BOOLEAN]
      /\ past[s].torn \in Nat /\ past[s].wrong \in Nat /\ past[s].paced \in BOOLEAN
      /\ sent \in Nat /\ sent \in 0..MaxSent
  BY SlotTypes
<1>2. sent < MaxSent /\ sent' = sent + 1 /\ buffer' = buffer /\ handed' = handed /\ ~connected[s]
  BY DEF Connect
<1>3. /\ \A t \in Slots \ {s} : /\ buffer'[t] = buffer[t] /\ wire'[t] = wire[t]
                                /\ connected'[t] = connected[t] /\ past'[t] = past[t]
      /\ wire'[s] = Command(sent + 1, length) /\ connected'[s] = TRUE
      /\ past'[s].torn = IF buffer[s] = <<>> THEN past[s].torn ELSE past[s].torn + 1
      /\ past'[s].wrong = past[s].wrong /\ past'[s].paced = past[s].paced
  BY DEF Connect, FramingType
<1>4. FramingType'
  <2>1. Command(sent + 1, length) \in Seq(Byte)
    BY <1>1, <1>2, CommandBytes
  <2>2. wire' \in [Slots -> Seq(Byte)]
    BY <2>1 DEF Connect, FramingType
  <2>3. past' \in [Slots -> [torn : Nat, wrong : Nat, paced : BOOLEAN]]
    <3> DEFINE m == IF buffer[s] = <<>> THEN past[s].torn ELSE past[s].torn + 1
               x == [past[s] EXCEPT !.torn = m]
    <3>1. m \in Nat
      BY <1>1
    <3>2. past' = [past EXCEPT ![s] = x]
      BY DEF Connect
    <3> HIDE DEF m
    <3>3. x \in [torn : Nat, wrong : Nat, paced : BOOLEAN]
      BY <1>1, <3>1, PastUpdated
    <3> HIDE DEF x
    <3>. QED
      BY <3>2, <3>3 DEF FramingType
  <2>4. connected' \in [Slots -> BOOLEAN]
    BY DEF Connect, FramingType
  <2>5. sent' \in 0..MaxSent
    BY <1>1, <1>2, FramingAssumption
  <2>. QED
    BY <1>2, <2>2, <2>3, <2>4, <2>5 DEF FramingType
<1>5. Good(buffer[s], wire[s], FALSE, past[s].torn, past[s].wrong, past[s].paced, sent)
  BY <1>2, SlotTypes DEF SlotsGood
<1>6. Good(buffer'[s], wire'[s], connected'[s], past'[s].torn, past'[s].wrong,
           past'[s].paced, sent')
  <2>1. Good(buffer[s], Command(sent + 1, length), TRUE,
             IF buffer[s] = <<>> THEN past[s].torn ELSE past[s].torn + 1, past[s].wrong,
             past[s].paced, sent + 1)
    BY <1>1, <1>2, <1>5, ConnectGood, Zenon
  <2>. QED
    BY <1>2, <1>3, <2>1
<1>7. SlotsGood'
  BY <1>2, <1>3, <1>6, StepGood
<1>8. WholeOnly'
  <2>1. past'[s].torn = 0 => past[s].torn = 0
    BY <1>1, <1>3
  <2>2. \A t \in Slots : /\ past'[t].torn = 0 => past[t].torn = 0
                         /\ past'[t].paced => past[t].paced
    BY <1>3, <2>1, Zenon
  <2>. QED
    BY <1>2, <2>2, WholeKept
<1>. QED
  BY <1>4, <1>7, <1>8

LEMMA SendKeeps ==
  ASSUME FramingIInv, NEW s \in Slots, NEW length \in Lengths, Send(s, length)
  PROVE  FramingIInv'
<1> USE DEF FramingIInv
<1>1. /\ buffer[s] \in Seq(Byte) /\ wire[s] \in Seq(Byte)
      /\ past[s] \in [torn : Nat, wrong : Nat, paced : BOOLEAN]
      /\ past[s].torn \in Nat /\ past[s].wrong \in Nat /\ past[s].paced \in BOOLEAN
      /\ sent \in Nat /\ sent \in 0..MaxSent
  BY SlotTypes
<1>2. /\ sent < MaxSent /\ sent' = sent + 1 /\ buffer' = buffer /\ handed' = handed
      /\ connected' = connected /\ connected[s]
  BY DEF Send
<1>3. /\ \A t \in Slots \ {s} : /\ buffer'[t] = buffer[t] /\ wire'[t] = wire[t]
                                /\ connected'[t] = connected[t] /\ past'[t] = past[t]
      /\ wire'[s] = wire[s] \o Command(sent + 1, length)
      /\ past'[s].torn = past[s].torn /\ past'[s].wrong = past[s].wrong
      /\ past'[s].paced = (past[s].paced /\ wire[s] = <<>>)
  BY DEF Send, FramingType
<1>4. FramingType'
  <2>1. Command(sent + 1, length) \in Seq(Byte)
    BY <1>1, <1>2, CommandBytes
  <2>2. wire[s] \o Command(sent + 1, length) \in Seq(Byte)
    BY <1>1, <2>1, Joined
  <2>3. wire' \in [Slots -> Seq(Byte)]
    BY <2>2 DEF Send, FramingType
  <2>4. past' \in [Slots -> [torn : Nat, wrong : Nat, paced : BOOLEAN]]
    BY <1>1 DEF Send, FramingType
  <2>5. sent' \in 0..MaxSent
    BY <1>1, <1>2, FramingAssumption
  <2>. QED
    BY <1>2, <2>3, <2>4, <2>5 DEF FramingType
<1>5. Good(buffer[s], wire[s], TRUE, past[s].torn, past[s].wrong, past[s].paced, sent)
  BY <1>2, SlotTypes DEF SlotsGood
<1>6. Good(buffer[s], wire[s] \o Command(sent + 1, length), TRUE, past[s].torn, past[s].wrong,
           past[s].paced /\ wire[s] = <<>>, sent + 1)
  BY <1>1, <1>2, <1>5, SendGood
<1>7. connected'[s] = TRUE
  BY <1>2 DEF FramingType
<1>8. Good(buffer'[s], wire'[s], connected'[s], past'[s].torn, past'[s].wrong,
           past'[s].paced, sent')
  BY <1>2, <1>3, <1>6, <1>7
<1>9. SlotsGood'
  BY <1>2, <1>3, <1>8, StepGood
<1>10. WholeOnly'
  <2>1. \A t \in Slots : /\ past'[t].torn = 0 => past[t].torn = 0
                         /\ past'[t].paced => past[t].paced
    BY <1>3, Zenon
  <2>. QED
    BY <1>2, <2>1, WholeKept
<1>. QED
  BY <1>4, <1>9, <1>10

LEMMA DisconnectKeeps ==
  ASSUME FramingIInv, NEW s \in Slots, Disconnect(s)
  PROVE  FramingIInv'
<1> USE DEF FramingIInv
<1>1. UNCHANGED <<buffer, handed, sent, past>>
  BY DEF Disconnect
<1>2. /\ \A t \in Slots \ {s} : wire'[t] = wire[t] /\ connected'[t] = connected[t]
      /\ wire'[s] = <<>> /\ connected'[s] = FALSE
  BY DEF Disconnect, FramingType
<1>3. FramingType'
  <2>1. <<>> \in Seq(Byte)
    BY EmptySeq
  <2>2. wire' \in [Slots -> Seq(Byte)] /\ connected' \in [Slots -> BOOLEAN]
    BY <2>1 DEF Disconnect, FramingType
  <2>. QED
    BY <1>1, <2>2 DEF FramingType
<1>4. Good(buffer[s], wire[s], connected[s], past[s].torn, past[s].wrong, past[s].paced, sent)
  BY DEF SlotsGood
<1>5. Good(buffer[s], <<>>, FALSE, past[s].torn, past[s].wrong, past[s].paced, sent)
  <2>1. /\ buffer[s] \in Seq(Byte) /\ wire[s] \in Seq(Byte) /\ connected[s] \in BOOLEAN
        /\ past[s].torn \in Nat /\ past[s].wrong \in Nat /\ past[s].paced \in BOOLEAN
        /\ sent \in Nat
    BY SlotTypes
  <2>2. GoodSlot(buffer[s], wire[s], connected[s], past[s].torn, past[s].wrong, past[s].paced,
                 sent)
    BY <1>4, <2>1 DEF GoodSlot
  <2>. QED
    BY <2>2, DisconnectGood, Zenon
<1>6. SlotsGood'
  BY <1>1, <1>2, <1>5, StepGood
<1>7. WholeOnly'
  BY <1>1, WholeKept
<1>. QED
  BY <1>3, <1>6, <1>7

LEMMA ReceiveKeeps ==
  ASSUME FramingIInv, NEW s \in Slots, Receive(s)
  PROVE  FramingIInv'
<1> USE DEF FramingIInv
<1>1. PICK k \in 1..ChunkSize :
        /\ k <= Len(wire[s])
        /\ wire' = [wire EXCEPT ![s] = SubSeq(@, k + 1, Len(@))]
        /\ PushThreadCommand(s, SubSeq(wire[s], 1, k))
        /\ UNCHANGED <<connected, sent>>
  BY DEF Receive
<1> DEFINE p == SubSeq(wire[s], 1, k)
           r == SubSeq(wire[s], k + 1, Len(wire[s]))
           d == buffer[s] \o p
           more == Counted(d, past[s].wrong)
<1>2. /\ buffer[s] \in Seq(Byte) /\ wire[s] \in Seq(Byte) /\ connected[s] \in BOOLEAN
      /\ past[s] \in [torn : Nat, wrong : Nat, paced : BOOLEAN]
      /\ past[s].torn \in Nat /\ past[s].wrong \in Nat /\ past[s].paced \in BOOLEAN
      /\ sent \in Nat
  BY SlotTypes
<1>3. k \in 1..Len(wire[s])
  BY <1>1, <1>2, FramingAssumption, ByteFields
<1>4. /\ p \in Seq(Byte) /\ Len(p) = k
      /\ r \in Seq(Byte) /\ Len(r) = Len(wire[s]) - k
      /\ \A i \in 1..k : p[i] = wire[s][i]
      /\ \A i \in 1..Len(wire[s]) - k : r[i] = wire[s][k + i]
      /\ d \in Seq(Byte) /\ d \o r = buffer[s] \o wire[s]
  BY <1>2, <1>3, SplitBytes
<1>5. /\ wire' = [wire EXCEPT ![s] = r] /\ UNCHANGED <<connected, sent>>
      /\ IF Len(buffer[s]) >= MaxBuffer THEN
           /\ buffer' = [buffer EXCEPT ![s] = <<>>]
           /\ past' = [past EXCEPT ![s].torn = @ + 1]
           /\ UNCHANGED handed
         ELSE IF EndsCommand(d) THEN
           /\ buffer' = [buffer EXCEPT ![s] = <<>>]
           /\ handed' = [slot |-> s, bytes |-> d]
           /\ past' = [past EXCEPT ![s].wrong = IF IsOneCommand(d) THEN @ ELSE @ + 1]
         ELSE
           /\ buffer' = [buffer EXCEPT ![s] = d]
           /\ UNCHANGED <<handed, past>>
  BY <1>1 DEF PushThreadCommand, Freed
<1>7. Received(buffer[s], wire[s], k, p, r, d)
  BY <1>2, <1>3, <1>4 DEF Received, Cat
<1> HIDE DEF p, r, d
<1>8. Good(buffer[s], wire[s], connected[s], past[s].torn, past[s].wrong, past[s].paced, sent)
  BY DEF SlotsGood
<1>9. /\ Good(<<>>, r, connected[s], past[s].torn + 1, past[s].wrong, past[s].paced, sent)
      /\ EndsCommand(d) =>
           /\ Good(<<>>, r, connected[s], past[s].torn, more, past[s].paced, sent)
           /\ d # <<>>
           /\ past[s].torn = 0 => WholeCommands(d) /\ (past[s].paced => IsOneCommand(d))
      /\ ~EndsCommand(d) =>
           Good(d, r, connected[s], past[s].torn, past[s].wrong, past[s].paced, sent)
  <2>1. GoodSlot(buffer[s], wire[s], connected[s], past[s].torn, past[s].wrong, past[s].paced,
                 sent)
    BY <1>2, <1>8 DEF GoodSlot
  <2>. QED
    BY <1>7, <2>1, ReceiveGood, Zenon
<1>10. /\ connected' = connected /\ sent' = sent /\ wire'[s] = r
       /\ \A t \in Slots \ {s} : wire'[t] = wire[t]
       /\ wire' \in [Slots -> Seq(Byte)] /\ <<>> \in Seq(Byte)
  BY <1>4, <1>5, EmptySeq DEF FramingType
<1>11. CASE Len(buffer[s]) >= MaxBuffer
  <2>1. /\ buffer' = [buffer EXCEPT ![s] = <<>>]
        /\ past' = [past EXCEPT ![s].torn = @ + 1] /\ handed' = handed
    BY <1>5, <1>11
  <2>2. /\ buffer'[s] = <<>> /\ past'[s].torn = past[s].torn + 1
        /\ past'[s].wrong = past[s].wrong /\ past'[s].paced = past[s].paced
        /\ \A t \in Slots \ {s} : buffer'[t] = buffer[t] /\ past'[t] = past[t]
    BY <2>1 DEF FramingType
  <2>3. FramingType'
    <3>1. buffer' \in [Slots -> Seq(Byte)]
      BY <1>10, <2>1 DEF FramingType
    <3>2. past' \in [Slots -> [torn : Nat, wrong : Nat, paced : BOOLEAN]]
      <4> DEFINE x == [past[s] EXCEPT !.torn = past[s].torn + 1]
      <4>1. past' = [past EXCEPT ![s] = x]
        BY <2>1
      <4>2. x \in [torn : Nat, wrong : Nat, paced : BOOLEAN]
        <5>1. past[s].torn + 1 \in Nat
          BY <1>2
        <5>. QED
          BY <1>2, <5>1, PastUpdated, Zenon
      <4> HIDE DEF x
      <4>. QED
        BY <4>1, <4>2 DEF FramingType
    <3>. QED
      BY <1>10, <2>1, <3>1, <3>2 DEF FramingType
  <2>4. SlotsGood'
    <3>1. /\ sent' = sent
          /\ \A t \in Slots \ {s} : /\ buffer'[t] = buffer[t] /\ wire'[t] = wire[t]
                                    /\ connected'[t] = connected[t] /\ past'[t] = past[t]
      BY <1>10, <2>2
    <3>2. Good(buffer'[s], wire'[s], connected'[s], past'[s].torn, past'[s].wrong,
               past'[s].paced, sent')
      BY <1>9, <1>10, <2>2
    <3>. QED
      BY <3>1, <3>2, StepGood
  <2>5. WholeOnly'
    <3>1. past'[s].torn # 0
      BY <1>2, <2>2
    <3>2. \A t \in Slots : /\ past'[t].torn = 0 => past[t].torn = 0
                           /\ past'[t].paced => past[t].paced
      BY <2>2, <3>1, Zenon
    <3>. QED
      BY <2>1, <3>2, WholeKept
  <2>. QED
    BY <2>3, <2>4, <2>5
<1>12. CASE Len(buffer[s]) < MaxBuffer /\ EndsCommand(d)
  <2>1. /\ buffer' = [buffer EXCEPT ![s] = <<>>]
        /\ handed' = [slot |-> s, bytes |-> d]
        /\ past' = [past EXCEPT ![s].wrong = IF IsOneCommand(d) THEN @ ELSE @ + 1]
    BY <1>2, <1>5, <1>12, FramingAssumption, ByteFields
  <2>2. /\ buffer'[s] = <<>> /\ past'[s].torn = past[s].torn
        /\ past'[s].wrong = more /\ past'[s].paced = past[s].paced
        /\ \A t \in Slots \ {s} : buffer'[t] = buffer[t] /\ past'[t] = past[t]
    BY <2>1 DEF FramingType, Counted
  <2>3. FramingType'
    <3>1. buffer' \in [Slots -> Seq(Byte)]
      BY <1>10, <2>1 DEF FramingType
    <3>2. past' \in [Slots -> [torn : Nat, wrong : Nat, paced : BOOLEAN]]
      <4> DEFINE x == [past[s] EXCEPT !.wrong = IF IsOneCommand(d) THEN past[s].wrong
                                                ELSE past[s].wrong + 1]
      <4>1. past' = [past EXCEPT ![s] = x]
        BY <2>1
      <4>2. x \in [torn : Nat, wrong : Nat, paced : BOOLEAN]
        <5>1. (IF IsOneCommand(d) THEN past[s].wrong ELSE past[s].wrong + 1) \in Nat
          BY <1>2
        <5>. QED
          BY <1>2, <5>1, PastUpdated, Zenon
      <4> HIDE DEF x
      <4>. QED
        BY <4>1, <4>2 DEF FramingType
    <3>3. handed' \in [slot : Slots, bytes : Seq(Byte)]
      BY <1>4, <2>1
    <3>. QED
      BY <1>10, <3>1, <3>2, <3>3 DEF FramingType
  <2>4. SlotsGood'
    <3>1. /\ sent' = sent
          /\ \A t \in Slots \ {s} : /\ buffer'[t] = buffer[t] /\ wire'[t] = wire[t]
                                    /\ connected'[t] = connected[t] /\ past'[t] = past[t]
      BY <1>10, <2>2
    <3>2. Good(buffer'[s], wire'[s], connected'[s], past'[s].torn, past'[s].wrong,
               past'[s].paced, sent')
      BY <1>9, <1>10, <1>12, <2>2
    <3>. QED
      BY <3>1, <3>2, StepGood
  <2>5. WholeOnly'
    <3>1. handed'.slot = s /\ handed'.bytes = d
      BY <2>1
    <3>2. past[s].torn = 0 => WholeCommands(d) /\ (past[s].paced => IsOneCommand(d))
      BY <1>9, <1>12
    <3>. QED
      BY <2>2, <3>1, <3>2 DEF WholeOnly
  <2>. QED
    BY <2>3, <2>4, <2>5
<1>13. CASE Len(buffer[s]) < MaxBuffer /\ ~EndsCommand(d)
  <2>1. buffer' = [buffer EXCEPT ![s] = d] /\ handed' = handed /\ past' = past
    BY <1>2, <1>5, <1>13, FramingAssumption, ByteFields
  <2>2. buffer'[s] = d /\ \A t \in Slots \ {s} : buffer'[t] = buffer[t]
    BY <2>1 DEF FramingType
  <2>3. FramingType'
    <3>1. buffer' \in [Slots -> Seq(Byte)]
      BY <1>4, <2>1 DEF FramingType
    <3>. QED
      BY <1>10, <2>1, <3>1 DEF FramingType
  <2>4. SlotsGood'
    <3>1. /\ sent' = sent
          /\ \A t \in Slots \ {s} : /\ buffer'[t] = buffer[t] /\ wire'[t] = wire[t]
                                    /\ connected'[t] = connected[t] /\ past'[t] = past[t]
      BY <1>10, <2>1, <2>2
    <3>2. Good(buffer'[s], wire'[s], connected'[s], past'[s].torn, past'[s].wrong,
               past'[s].paced, sent')
      BY <1>9, <1>10, <1>13, <2>1, <2>2
    <3>. QED
      BY <3>1, <3>2, StepGood
  <2>5. WholeOnly'
    BY <2>1, WholeKept
  <2>. QED
    BY <2>3, <2>4, <2>5
<1>14. Len(buffer[s]) \in Nat /\ MaxBuffer \in Nat
  BY <1>2, FramingAssumption, ByteFields
<1>. QED
  BY <1>11, <1>12, <1>13, <1>14

LEMMA FramingStep == FramingIInv /\ [FramingNext]_framingVars => FramingIInv'
<1> SUFFICES ASSUME FramingIInv, [FramingNext]_framingVars PROVE FramingIInv'
  OBVIOUS
<1>1. ASSUME NEW s \in Slots, NEW length \in Lengths, Connect(s, length) PROVE FramingIInv'
  BY <1>1, ConnectKeeps
<1>2. ASSUME NEW s \in Slots, NEW length \in Lengths, Send(s, length) PROVE FramingIInv'
  BY <1>2, SendKeeps
<1>3. ASSUME NEW s \in Slots, Receive(s) PROVE FramingIInv'
  BY <1>3, ReceiveKeeps
<1>4. ASSUME NEW s \in Slots, Disconnect(s) PROVE FramingIInv'
  BY <1>4, DisconnectKeeps
<1>5. CASE UNCHANGED framingVars
  BY <1>5 DEF framingVars, FramingIInv, FramingType, SlotsGood, WholeOnly
<1>. QED
  BY <1>1, <1>2, <1>3, <1>4, <1>5 DEF FramingNext

LEMMA FramingIInvImplies == FramingIInv => FramingInv
<1> SUFFICES ASSUME FramingIInv PROVE FramingInv
  OBVIOUS
<1>1. ASSUME NEW s \in Slots
      PROVE  /\ past[s].paced => past[s].wrong <= past[s].torn
             /\ connected[s] /\ wire[s] = <<>> /\ past[s].torn = 0 => buffer[s] = <<>>
  BY DEF FramingIInv, SlotsGood, Good
<1>. QED
  BY <1>1 DEF FramingIInv, FramingInv, OneWrongPerTear, NothingWithheld

\* What clients send becomes whole commands, in their order and one at a time when the client
\* waits; nothing waits when all was received; and a tear costs one command at most
\* (pushThreadCommand), for every number of slots and every size of buffers and pieces.
THEOREM CommandsComeWhole == FramingInit /\ [][FramingNext]_framingVars => []FramingInv
<1>1. FramingInit => FramingIInv
  BY InitFraming
<1>2. FramingIInv /\ [FramingNext]_framingVars => FramingIInv'
  BY FramingStep
<1>3. FramingIInv => FramingInv
  BY FramingIInvImplies
<1>. QED
  BY <1>1, <1>2, <1>3, PTL

============================================================================
