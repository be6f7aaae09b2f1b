------------------------------ MODULE FifoQueue ------------------------------
(***************************************************************************)
(* What the rest of the test dispatcher relies on when it puts client      *)
(* commands on a thread's message queue: commands come out in the order    *)
(* they went in, none lost and none invented.                              *)
(*                                                                         *)
(* The promise is made for the first Capacity commands only.  Once a       *)
(* command has been added to a full queue the module promises nothing any  *)
(* more: growing unrolls nothing and clears a slot (GrownSlots there).     *)
(***************************************************************************)
EXTENDS Naturals, Sequences

CONSTANTS
  Commands,   \* the commands clients send
  Capacity    \* how many commands may wait before the promise is void

VARIABLES
  contents,   \* the waiting commands, oldest first
  overflowed  \* has a command ever been added to a full queue

fifoVars == <<contents, overflowed>>

FifoInit ==
  /\ contents = <<>>
  /\ overflowed = FALSE

\* A command joins the tail of a queue that has room for it.
Put(c) ==
  /\ ~overflowed
  /\ Len(contents) < Capacity
  /\ contents' = Append(contents, c)
  /\ UNCHANGED overflowed

\* The oldest command leaves.
Take ==
  /\ ~overflowed
  /\ contents # <<>>
  /\ contents' = Tail(contents)
  /\ UNCHANGED overflowed

\* A command is added to a full queue: from here on contents is arbitrary.
Overflow ==
  /\ ~overflowed
  /\ Len(contents) = Capacity
  /\ overflowed'

AfterOverflow == overflowed /\ overflowed'

FifoNext ==
  \/ \E c \in Commands : Put(c)
  \/ Take
  \/ Overflow
  \/ AfterOverflow

FifoSpec == FifoInit /\ [][FifoNext]_fifoVars
==============================================================================
