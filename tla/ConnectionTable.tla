---------------------------- MODULE ConnectionTable ----------------------------
(***************************************************************************)
(* The table of client connections (ServerThreads in TDServer.h) and the   *)
(* server thread that maintains it: createServer's select loop (TDServer.c)*)
(* with getThreadForFileDescriptor, removeThreadListener and the lookups   *)
(* by descriptor and by MAC address (TDServerThreads.c).                   *)
(*                                                                         *)
(* The C table has one row of CONNECTIONSPERTHREAD slots per handler       *)
(* thread.  A slot here is the pair (row i, column j) counted row by row,  *)
(* the order in which the code scans them.                                 *)
(*                                                                         *)
(* One iteration of the select loop is one action: no other thread writes  *)
(* the variables of this module.  What happens to a command after          *)
(* pushThreadCommand is the subject of CommandDispatch; lastPush only says *)
(* which slot the step attributed a command to, if it pushed one.          *)
(***************************************************************************)
EXTENDS Integers, FiniteSets, FiniteSetsExt

CONSTANTS
  Clients,              \* the clients' IP addresses, none of which is 0
  MaxDescriptor,        \* descriptors are 0..MaxDescriptor
  MaxConnections,       \* MAXCONNECTIONS
  ConnectionsPerThread, \* CONNECTIONSPERTHREAD
  MaxHandlers           \* bound of the model: handler threads per row

ASSUME TableAssumption ==
  /\ {0, -1} \cap Clients = {}
  /\ MaxDescriptor \in Nat
  /\ ConnectionsPerThread \in Nat \ {0}
  /\ MaxConnections \in Nat \ {0}
  /\ MaxConnections % ConnectionsPerThread = 0
  /\ MaxHandlers \in Nat

Slots == 0..MaxConnections - 1
Rows  == 0..(MaxConnections \div ConnectionsPerThread) - 1
Row(s)    == s \div ConnectionsPerThread
Column(s) == s % ConnectionsPerThread

Descriptors == 0..MaxDescriptor
NoMac  == 0   \* the empty MAC string; the MAC of client c is written c
Free   == 0   \* owner of a descriptor that is not open
Stdin  == -1  \* owner of descriptor 0 when the program starts
NoSlot == -1  \* the ERROR result of a lookup

VARIABLES
  threadIP,    \* [Slots -> IP address or 0]
  threadFD,    \* [Slots -> descriptor or 0]
  macAddress,  \* [Slots -> MAC or NoMac]
  openThreads, \* highest row in use, -1 before the first connection
  handlers,    \* [Rows -> number of live threadCommandHandler threads]
  localArp,    \* the clients whose MAC is in the lookup table
  owner,       \* [Descriptors -> who holds the open descriptor, or Free]
  peer,        \* their_addr: the address the server believes it talks to
  sinSize,     \* sin_size: does accept() have room to report an address
  lastPush,    \* what the last step pushed with pushThreadCommand, or NoPush
  orderly      \* history: so far each connection was recorded under its own
               \* address and none has been closed

table == <<threadIP, threadFD, macAddress>>
vars == <<table, openThreads, handlers, localArp, owner, peer, sinSize, lastPush,
          orderly>>

NoPush == [from |-> 0, slot |-> NoSlot, ip |-> 0]

Init ==
  /\ threadIP = [s \in Slots |-> 0]
  /\ threadFD = [s \in Slots |-> 0]
  /\ macAddress = [s \in Slots |-> NoMac]
  /\ openThreads = -1
  /\ handlers = [i \in Rows |-> 0]
  /\ localArp = {}
  /\ owner = [d \in Descriptors |-> IF d = 0 THEN Stdin ELSE Free]
  /\ peer = 0 /\ sinSize = FALSE
  /\ lastPush = NoPush
  /\ orderly = TRUE

-------------------------------------------------------------------------------
First(S) == IF S = {} THEN NoSlot ELSE Min(S)

getMacLookup(ip) == IF ip \in localArp THEN ip ELSE NoMac

\* The three outcomes of looking at slot s in getThreadForFileDescriptor.
OtherMac(s, mac) == mac # NoMac /\ macAddress[s] \notin {NoMac, mac}
MatchesIP(s, ip) == ip # 0 /\ threadIP[s] = ip
MatchesFD(s, ip, fd) ==
  ~MatchesIP(s, ip) /\ threadFD[s] = fd /\ threadFD[s] # 0
Claimable(s, ip) == ~MatchesIP(s, ip) /\ threadIP[s] = 0

\* The slot at which the scan of the open rows stops: each slot is tested for
\* the address, then the descriptor, then for being free, before the next one
\* is looked at.
ScannedSlots == {s \in Slots : Row(s) <= Max({openThreads, 0})}
StopSlot(ip, fd, mac) ==
  First({s \in ScannedSlots : \/ MatchesIP(s, ip) /\ ~OtherMac(s, mac)
                              \/ MatchesFD(s, ip, fd)
                              \/ Claimable(s, ip)})

Claims(s, ip, fd) == Claimable(s, ip) /\ ~MatchesFD(s, ip, fd)

\* The table after getThreadForFileDescriptor(ip, fd, mac).
FoundTable(ip, fd, mac) ==
  LET s == StopSlot(ip, fd, mac)
      new == s # NoSlot /\ Claims(s, ip, fd)
      fill == s # NoSlot /\ MatchesIP(s, ip) /\ macAddress[s] = NoMac
  IN [ip  |-> IF new THEN [threadIP EXCEPT ![s] = ip] ELSE threadIP,
      fd  |-> IF new THEN [threadFD EXCEPT ![s] = fd] ELSE threadFD,
      mac |-> IF new \/ fill THEN [macAddress EXCEPT ![s] = mac] ELSE macAddress]

\* Mutant: a thread for a row that was never open only.
SpawnsOnce(ip, fd, mac) ==
  LET s == StopSlot(ip, fd, mac)
  IN s # NoSlot /\ Claims(s, ip, fd) /\ Row(s) > openThreads

\* Claiming the first slot of a row creates a handler thread for the row.
Spawns(ip, fd, mac) ==
  LET s == StopSlot(ip, fd, mac)
  IN s # NoSlot /\ Claims(s, ip, fd) /\ Column(s) = 0

SpawnHandlers(ip, fd, mac, n) ==
  IF Spawns(ip, fd, mac)
  THEN LET i == Row(StopSlot(ip, fd, mac)) IN
       /\ handlers[i] + n <= MaxHandlers
       /\ handlers' = [handlers EXCEPT ![i] = @ + n]
  ELSE UNCHANGED handlers

RowOf(s) == IF s = NoSlot THEN {} ELSE {t \in Slots : Row(t) = Row(s)}

\* Mutant: the descriptor is not compared.
IpForThreadAnySlot(t, s, fd) ==
  LET f == First(RowOf(s)) IN IF f = NoSlot THEN 0 ELSE t.ip[f]

\* getIpForThread and the search of removeThreadListener, in row of slot s of a
\* table t.
IpForThread(t, s, fd) ==
  LET f == First({x \in RowOf(s) : t.fd[x] = fd}) IN IF f = NoSlot THEN 0 ELSE t.ip[f]
SlotOfIp(t, s, ip) == First({x \in RowOf(s) : t.ip[x] = ip})

\* removeThreadListener: the MAC address of the slot stays.
RemoveThreadListener(t, s, ip) ==
  LET x == SlotOfIp(t, s, ip) IN
  /\ threadIP' = IF x = NoSlot THEN t.ip ELSE [t.ip EXCEPT ![x] = 0]
  /\ threadFD' = IF x = NoSlot THEN t.fd ELSE [t.fd EXCEPT ![x] = 0]
  /\ macAddress' = t.mac

Install(t) ==
  /\ threadIP' = t.ip /\ threadFD' = t.fd /\ macAddress' = t.mac

\* pushThreadCommand by client c, who sent on a descriptor looked up as slot s.
PushThreadCommand(c, t, s, ip) ==
  LET x == SlotOfIp(t, s, ip) IN
  lastPush' = [from |-> c, slot |-> x, ip |-> IF x = NoSlot THEN 0 ELSE t.ip[x]]

\* if (l > openThreads) openThreads = l, after openThreads was made at least 0.
OpenRow(s) ==
  openThreads' = Max({openThreads, 0, IF s = NoSlot THEN 0 ELSE Row(s)})

Close(d) == owner' = [owner EXCEPT ![d] = Free]

-------------------------------------------------------------------------------
\* A datagram that is not BYEBYE.  recvfrom reports its sender; when it is an
\* announcement and the board data is loaded (initial_broadcast), setMacLookup
\* records the sender's MAC.
Datagram(c) ==
  /\ peer' = c
  /\ localArp' = localArp \cup {c} \/ UNCHANGED localArp
  /\ lastPush' = NoPush
  /\ UNCHANGED <<table, openThreads, handlers, owner, sinSize, orderly>>

\* A connection request of client c.  accept() returns the lowest free descriptor.
\* The first accept() is called with sin_size = 0 and leaves their_addr as it
\* is; it sets sin_size, so the later ones report the client's address.  The
\* slot is looked up by that address; then the first bytes are received and
\* pushed, or the client has already gone (recv gives 0) and nothing is done:
\* the tests for -1 in that branch can never be true.
Accept(c) ==
  LET free == {d \in Descriptors : owner[d] = Free}
      fd   == Min(free)
      ip   == IF sinSize THEN c ELSE peer
      mac  == getMacLookup(ip)
      s    == StopSlot(ip, fd, mac)
      t    == FoundTable(ip, fd, mac)
  IN /\ free # {}
     /\ peer' = ip
     /\ sinSize' = TRUE
     /\ owner' = [owner EXCEPT ![fd] = c]
     /\ Install(t)
     /\ OpenRow(s)
     /\ SpawnHandlers(ip, fd, mac, 1)
     /\ PushThreadCommand(c, t, s, ip) \/ lastPush' = NoPush
     /\ orderly' = (orderly /\ ip = c)
     /\ UNCHANGED localArp

\* Bytes arrive on an open descriptor.  The lookup passes address 0 and no MAC;
\* when it fails the bytes stay unread.
Receive(fd) ==
  LET s == StopSlot(0, fd, NoMac)
      t == FoundTable(0, fd, NoMac)
  IN /\ owner[fd] \in Clients
     /\ s # NoSlot
     /\ Install(t)
     /\ SpawnHandlers(0, fd, NoMac, 1)
     /\ PushThreadCommand(owner[fd], t, s, IpForThread(t, s, fd))
     /\ UNCHANGED <<openThreads, localArp, owner, peer, sinSize, orderly>>

\* The peer closed the connection, or reading failed (recv gives 0 or -1).  The
\* lookup is made twice: the second one finds the table as the first left it,
\* and claims the same slot again.
Disconnect(fd) ==
  LET s == StopSlot(0, fd, NoMac)
      t == FoundTable(0, fd, NoMac)
  IN /\ owner[fd] \in Clients
     /\ s # NoSlot
     /\ RemoveThreadListener(t, s, IpForThread(t, s, fd))
     /\ SpawnHandlers(0, fd, NoMac, 2)
     /\ Close(fd)
     /\ orderly' = FALSE
     /\ lastPush' = NoPush
     /\ UNCHANGED <<openThreads, localArp, peer, sinSize>>

\* A BYEBYE datagram of client c: the descriptor is looked up by MAC address
\* (getFileDescriptorByMac), then the slot by address and descriptor.
Byebye(c) ==
  LET known == First({s \in Slots : Row(s) <= openThreads /\ macAddress[s] = c})
      fd    == threadFD[known]
      s     == StopSlot(c, fd, c)
      t     == FoundTable(c, fd, c)
  IN /\ getMacLookup(c) # NoMac
     /\ known # NoSlot
     /\ peer' = c
     /\ RemoveThreadListener(t, s, c)
     /\ SpawnHandlers(c, fd, c, 1)
     /\ Close(fd)
     /\ orderly' = FALSE
     /\ lastPush' = NoPush
     /\ UNCHANGED <<openThreads, localArp, sinSize>>

\* A handler thread finds no connection left in its row and ends
\* (threadCommandHandler; its other steps are in CommandDispatch).
HandlerExit(i) ==
  /\ handlers[i] > 0
  /\ \A s \in Slots : Row(s) = i => threadIP[s] = 0
  /\ handlers' = [handlers EXCEPT ![i] = @ - 1]
  /\ lastPush' = NoPush
  /\ UNCHANGED <<table, openThreads, localArp, owner, peer, sinSize, orderly>>

Next ==
  \/ \E c \in Clients : Datagram(c)
  \/ \E c \in Clients : Accept(c)
  \/ \E c \in Clients : Byebye(c)
  \/ \E fd \in Descriptors : Receive(fd)
  \/ \E fd \in Descriptors : Disconnect(fd)
  \/ \E i \in Rows : HandlerExit(i)

Spec == Init /\ [][Next]_vars

-------------------------------------------------------------------------------
Connected(c) == \E d \in Descriptors : owner[d] = c
Recorded(c)  == \E s \in Slots : threadIP[s] = c
RowLive(i)   == \E s \in Slots : Row(s) = i /\ threadIP[s] # 0

\* Type correctness: the table holds addresses of clients and descriptors, and
\* openThreads names a row of the table once a client has connected.
TypeOK ==
  /\ threadIP \in [Slots -> Clients \cup {0}]
  /\ threadFD \in [Slots -> Descriptors]
  /\ macAddress \in [Slots -> Clients \cup {NoMac}]
  /\ openThreads \in Rows \cup {-1}
  /\ handlers \in [Rows -> 0..MaxHandlers]
  /\ localArp \subseteq Clients
  /\ owner \in [Descriptors -> Clients \cup {Free, Stdin}]
  /\ peer \in Clients \cup {0} /\ sinSize \in BOOLEAN
  /\ lastPush \in [from : Clients \cup {0}, slot : Slots \cup {NoSlot},
                    ip : Clients \cup {0}]
  /\ orderly \in BOOLEAN

\* A row with a connection always has a thread to serve it
\* (getThreadForFileDescriptor makes one for the first slot of a row only; the
\* handler ends when its row is empty), whatever connects, leaves or is
\* misattributed.
LiveRowServed == \A i \in Rows : RowLive(i) => handlers[i] > 0

\* The MAC address of a slot in use is the one of the client in it, never that
\* of an earlier client of the slot: removeThreadListener leaves it behind.
MacBelongsToIp ==
  \A s \in Slots : threadIP[s] # 0 /\ macAddress[s] # NoMac => macAddress[s] = threadIP[s]

\* What the table always promises, however its connections came about.
TableInv == TypeOK /\ LiveRowServed /\ MacBelongsToIp

\* As long as connections are orderly, no bytes are taken for those of another
\* client (getIpForThread, pushThreadCommand), also when a client connects
\* twice and only its first descriptor is in the table.
OrderlyAttribution == orderly => lastPush.ip \in {0, lastPush.from}

\* As long as connections are orderly, a row is served by one thread only, so
\* that its commands are handled one at a time.
OrderlyOneHandler == orderly => \A i \in Rows : handlers[i] <= 1

\* As long as connections are orderly, a client is turned away only because the
\* first row is full.
OrderlyRefusal ==
  orderly => \A c \in Clients : Connected(c) /\ ~Recorded(c) =>
                                  \A s \in Slots : Row(s) = 0 => threadIP[s] # 0

\* What the table promises while connections are orderly: right senders, one thread, and a
\* place for everybody it has room for.
OrderlyService == OrderlyAttribution /\ OrderlyOneHandler /\ OrderlyRefusal
===============================================================================
