---------------------------- MODULE CommandFraming ----------------------------
(***************************************************************************)
(* How the bytes that a client sends become commands.  The server thread   *)
(* receives at most four bytes at a time (createServer, TDServer.c:560:    *)
(* sizeof(MAXBUFLEN-1) is the size of an int) and pushThreadCommand        *)
(* (TDServerThreads.c) collects them in the BUFFER of the connection's     *)
(* slot until the three newlines come with which a command ends.  To which *)
(* slot bytes belong is the subject of ConnectionTable.                    *)
(***************************************************************************)
EXTENDS Integers, Sequences

CONSTANTS
  Slots,      \* slots of the table
  Lengths,    \* lengths of commands without the newlines
  ChunkSize,  \* bytes received at a time, 4
  MaxBuffer,  \* a BUFFER of this length takes nothing more, 2048
  MaxSent     \* bound of the model: commands sent

ASSUME FramingAssumption ==
  /\ Slots # {}
  /\ Lengths \subseteq Nat \ {0}
  /\ ChunkSize \in Nat \ {0} /\ MaxBuffer \in Nat \ {0} /\ MaxSent \in Nat

\* A byte is known by the command it belongs to, its place there and how many follow.
Byte == [n : 1..MaxSent, place : Nat \ {0}, left : Nat]
Command(n, length) == [k \in 1..length + 3 |-> [n |-> n, place |-> k, left |-> length + 3 - k]]
Newline(byte) == byte.left < 3

VARIABLES
  wire,       \* [Slots -> bytes sent and not received]
  buffer,     \* [Slots -> BUFFER]
  connected,  \* [Slots -> BOOLEAN]
  handed,     \* the command that was added to the queue last
  sent,       \* commands sent
  past        \* history of the slots
framingVars == <<wire, buffer, connected, handed, sent, past>>

\* torn: how often bytes were thrown away, or a connection found bytes of the one before;
\* wrong: commands handed over that were not one command of the client; paced: each
\* command was sent after the one before it was received.
NoPast == [torn |-> 0, wrong |-> 0, paced |-> TRUE]

FramingInit ==
  /\ wire = [s \in Slots |-> <<>>] /\ buffer = [s \in Slots |-> <<>>]
  /\ connected = [s \in Slots |-> FALSE]
  /\ handed = [slot |-> CHOOSE s \in Slots : TRUE, bytes |-> <<>>]
  /\ sent = 0 /\ past = [s \in Slots |-> NoPast]

-------------------------------------------------------------------------------
\* A client takes the slot (getThreadForFileDescriptor) and sends its first command, which
\* createServer receives right after accept: BUFFER stays as it is.
Connect(s, length) ==
  /\ ~connected[s] /\ sent < MaxSent
  /\ connected' = [connected EXCEPT ![s] = TRUE]
  /\ sent' = sent + 1
  /\ wire' = [wire EXCEPT ![s] = Command(sent + 1, length)]
  /\ past' = [past EXCEPT ![s].torn = IF buffer[s] = <<>> THEN @ ELSE @ + 1]
  /\ UNCHANGED <<buffer, handed>>

Send(s, length) ==
  /\ connected[s] /\ sent < MaxSent
  /\ sent' = sent + 1
  /\ wire' = [wire EXCEPT ![s] = @ \o Command(sent + 1, length)]
  /\ past' = [past EXCEPT ![s].paced = @ /\ wire[s] = <<>>]
  /\ UNCHANGED <<buffer, connected, handed>>

EndsCommand(b) == Len(b) >= 3 /\ \A k \in Len(b) - 2..Len(b) : Newline(b[k])

IsOneCommand(b) ==
  /\ b[1].place = 1 /\ Len(b) = b[1].left + 1
  /\ \A k \in DOMAIN b : b[k].n = b[1].n

\* Mutant: a character stays.
FreedButOne(b) == SubSeq(b, 1, 1)
\* BUFFER is freed and set to NULL.
Freed(b) == <<>>

\* pushThreadCommand
PushThreadCommand(s, bytes) ==
  LET b == buffer[s] \o bytes
  IN IF Len(buffer[s]) >= MaxBuffer THEN
       /\ buffer' = [buffer EXCEPT ![s] = Freed(@)]
       /\ past' = [past EXCEPT ![s].torn = @ + 1]
       /\ UNCHANGED handed
     ELSE IF EndsCommand(b) THEN
       /\ buffer' = [buffer EXCEPT ![s] = Freed(b)]
       /\ handed' = [slot |-> s, bytes |-> b]
       /\ past' = [past EXCEPT ![s].wrong = IF IsOneCommand(b) THEN @ ELSE @ + 1]
     ELSE
       /\ buffer' = [buffer EXCEPT ![s] = b]
       /\ UNCHANGED <<handed, past>>

Receive(s) ==
  \E k \in 1..ChunkSize :
    /\ k <= Len(wire[s])
    /\ wire' = [wire EXCEPT ![s] = SubSeq(@, k + 1, Len(@))]
    /\ PushThreadCommand(s, SubSeq(wire[s], 1, k))
    /\ UNCHANGED <<connected, sent>>

\* The connection ends, perhaps in the middle of a command: removeThreadListener frees the
\* slot and leaves BUFFER.
Disconnect(s) ==
  /\ connected[s]
  /\ connected' = [connected EXCEPT ![s] = FALSE]
  /\ wire' = [wire EXCEPT ![s] = <<>>]
  /\ UNCHANGED <<buffer, handed, sent, past>>

FramingNext ==
  \E s \in Slots :
    \/ \E length \in Lengths : Connect(s, length) \/ Send(s, length)
    \/ Receive(s) \/ Disconnect(s)

-------------------------------------------------------------------------------
\* Whole commands, one after the other.
WholeCommands(b) ==
  /\ b[1].place = 1 /\ b[Len(b)].left = 0
  /\ \A k \in 1..Len(b) - 1 :
       IF b[k].left = 0 THEN b[k + 1].place = 1 /\ b[k + 1].n > b[k].n
       ELSE b[k + 1] = [b[k] EXCEPT !.place = @ + 1, !.left = @ - 1]

\* As long as nothing was thrown away or left behind, what is handed to the queue are whole
\* commands, and one at a time if the client waits until each was received: the end is only
\* looked for where the received bytes end (TDServerThreads.c:545-556), so that commands
\* that come together are taken for one.
WholeOnly ==
  handed.bytes # <<>> /\ past[handed.slot].torn = 0 =>
    /\ WholeCommands(handed.bytes)
    /\ past[handed.slot].paced => IsOneCommand(handed.bytes)

\* A buffer that overflows, or that a closed connection leaves in the slot
\* (TDServerThreads.c:505, 541), costs one wrong command at most: after it the commands of
\* a client that waits are right again.
OneWrongPerTear == \A s \in Slots : past[s].paced => past[s].wrong <= past[s].torn

\* When everything a client sent was received, nothing of it waits for bytes to come.
NothingWithheld ==
  \A s \in Slots : connected[s] /\ wire[s] = <<>> /\ past[s].torn = 0 => buffer[s] = <<>>

\* What clients send becomes commands (pushThreadCommand): whole ones only, all of them, and
\* right again after each tear.
FramingInv == WholeOnly /\ OneWrongPerTear /\ NothingWithheld
===============================================================================
