------------------------- MODULE ConnectionTable_proofs -------------------------
(***************************************************************************)
(* Proofs that the table of connections keeps what TableInv and, while     *)
(* connections are orderly, OrderlyService promise, for any number of      *)
(* clients, descriptors, rows, slots a row and threads.                    *)
(***************************************************************************)
EXTENDS ConnectionTable, WellFoundedInduction, TLAPS

\* A set of natural numbers that is not empty has a least element.
LEMMA LeastNatural ==
  ASSUME NEW S, S \subseteq Nat, S # {}
  PROVE  \E m \in S : \A k \in S : m <= k
<1>1. PICK m \in S : \A k \in S : ~(<<k, m>> \in OpToRel(<, Nat))
  BY WFMin, NatLessThanWellFounded, Zenon
<1>2. \A k \in S : ~(k < m)
  BY <1>1 DEF OpToRel
<1>3. QED
  BY <1>2

\* First gives the least slot of a set, or NoSlot.
LEMMA FirstSlot ==
  ASSUME NEW S, S \subseteq Nat
  PROVE  /\ First(S) = NoSlot => S = {}
         /\ S # {} => First(S) \in S /\ \A k \in S : First(S) <= k
<1>1. CASE S = {}
  BY <1>1
<1>2. CASE S # {}
  <2>1. \E m \in S : \A k \in S : m <= k
    BY <1>2, LeastNatural
  <2>2. Min(S) \in S /\ \A k \in S : Min(S) <= k
    BY <2>1 DEF Min
  <2>3. First(S) = Min(S)
    BY <1>2 DEF First
  <2>4. QED
    BY <1>2, <2>2, <2>3 DEF NoSlot
<1>3. QED
  BY <1>1, <1>2

\* The first slot of the row of a slot.
RowStart(s) == Row(s) * ConnectionsPerThread

\* The first slot of a row is a slot of the row, and comes before its other slots.
LEMMA RowStartFirst ==
  ASSUME NEW s \in Slots
  PROVE  /\ Row(s) \in Rows
         /\ RowStart(s) \in Slots
         /\ Row(RowStart(s)) = Row(s)
         /\ Column(s) # 0 => RowStart(s) < s
  BY TableAssumption DEF Slots, Rows, Row, Column, RowStart

\* Slot s ends the scan of getThreadForFileDescriptor(ip, fd, mac).
Stops(s, ip, fd, mac) ==
  \/ MatchesIP(s, ip) /\ ~OtherMac(s, mac)
  \/ MatchesFD(s, ip, fd)
  \/ Claimable(s, ip)

\* The scan ends at a slot that ends it, and at none of those before.
LEMMA StopSlotFirst ==
  ASSUME NEW ip, NEW fd, NEW mac
  PROVE  /\ StopSlot(ip, fd, mac) \in Slots \cup {NoSlot}
         /\ StopSlot(ip, fd, mac) # NoSlot =>
              /\ StopSlot(ip, fd, mac) \in ScannedSlots
              /\ Stops(StopSlot(ip, fd, mac), ip, fd, mac)
              /\ \A s \in ScannedSlots : s < StopSlot(ip, fd, mac) => ~Stops(s, ip, fd, mac)
<1> DEFINE S == {s \in ScannedSlots : Stops(s, ip, fd, mac)}
<1>1. S \subseteq Slots /\ Slots \subseteq Nat /\ ScannedSlots \subseteq Slots
  BY TableAssumption DEF ScannedSlots, Slots
<1>2. StopSlot(ip, fd, mac) = First(S)
  BY DEF StopSlot, Stops
<1>3. /\ First(S) = NoSlot => S = {}
      /\ S # {} => First(S) \in S /\ \A k \in S : First(S) <= k
  BY <1>1, FirstSlot
<1>4. S = {} => First(S) = NoSlot
  BY DEF First
<1> HIDE DEF S
<1>5. CASE S = {}
  BY <1>2, <1>4, <1>5
<1>6. CASE S # {}
  <2>1. First(S) \in S
    BY <1>3, <1>6
  <2>2. First(S) \in ScannedSlots /\ Stops(First(S), ip, fd, mac)
    BY <2>1 DEF S
  <2>3. ASSUME NEW s \in ScannedSlots, s < First(S) PROVE ~Stops(s, ip, fd, mac)
    <3>1. s \in S => First(S) <= s
      BY <1>3, <1>6
    <3>2. s \in Nat /\ First(S) \in Nat
      BY <1>1, <2>1
    <3>3. s \notin S
      BY <2>3, <3>1, <3>2
    <3>4. QED
      BY <3>3 DEF S
  <2>4. QED
    BY <1>1, <1>2, <2>1, <2>2, <2>3
<1>7. QED
  BY <1>5, <1>6

-------------------------------------------------------------------------------
\* The parts of TableInv, for a table t that is not stored yet.
TableType(t) ==
  /\ t.ip \in [Slots -> Clients \cup {0}]
  /\ t.fd \in [Slots -> Descriptors]
  /\ t.mac \in [Slots -> Clients \cup {NoMac}]
MacsRight(t) == \A s \in Slots : t.ip[s] # 0 /\ t.mac[s] # NoMac => t.mac[s] = t.ip[s]

\* A slot in use lies in a row that is served, or that the lookup starts a thread for.
Served(t, ip, fd, mac) ==
  \A s \in Slots : t.ip[s] # 0 =>
    \/ handlers[Row(s)] > 0
    \/ Spawns(ip, fd, mac) /\ Row(s) = Row(StopSlot(ip, fd, mac))

\* What getThreadForFileDescriptor makes of a table that is right.  A slot that is claimed
\* and is not the first of its row has the first one before it, which did not end the scan,
\* and so is in use: the row is served already.
LEMMA FoundTableRight ==
  ASSUME TableInv, NEW ip \in Clients \cup {0}, NEW fd \in Descriptors, NEW mac \in {NoMac, ip}
  PROVE  /\ TableType(FoundTable(ip, fd, mac))
         /\ MacsRight(FoundTable(ip, fd, mac))
         /\ Served(FoundTable(ip, fd, mac), ip, fd, mac)
<1> DEFINE stop == StopSlot(ip, fd, mac)
           t == FoundTable(ip, fd, mac)
           new == stop # NoSlot /\ Claims(stop, ip, fd)
           fill == stop # NoSlot /\ MatchesIP(stop, ip) /\ macAddress[stop] = NoMac
<1>1. /\ t.ip = IF new THEN [threadIP EXCEPT ![stop] = ip] ELSE threadIP
      /\ t.fd = IF new THEN [threadFD EXCEPT ![stop] = fd] ELSE threadFD
      /\ t.mac = IF new \/ fill THEN [macAddress EXCEPT ![stop] = mac] ELSE macAddress
  BY DEF FoundTable
<1>2. stop \in Slots \cup {NoSlot}
  BY StopSlotFirst
<1>3. /\ threadIP \in [Slots -> Clients \cup {0}] /\ threadFD \in [Slots -> Descriptors]
      /\ macAddress \in [Slots -> Clients \cup {NoMac}]
  BY DEF TableInv, TypeOK
<1>4. mac \in Clients \cup {NoMac}
  BY DEF NoMac
<1>5. TableType(t)
  BY <1>1, <1>2, <1>3, <1>4 DEF TableType
<1>6. MacsRight(t)
  <2> SUFFICES ASSUME NEW s \in Slots, t.ip[s] # 0, t.mac[s] # NoMac
               PROVE  t.mac[s] = t.ip[s]
    BY DEF MacsRight
  <2>1. CASE new /\ s = stop
    BY <1>1, <1>3, <2>1
  <2>2. CASE ~new /\ fill /\ s = stop
    BY <1>1, <1>3, <2>2 DEF MatchesIP
  <2>3. CASE s # stop \/ ~(new \/ fill)
    <3>1. t.ip[s] = threadIP[s] /\ t.mac[s] = macAddress[s]
      BY <1>1, <1>3, <2>3
    <3>2. QED
      BY <3>1 DEF TableInv, MacBelongsToIp
  <2>4. QED
    BY <2>1, <2>2, <2>3
<1>7. Served(t, ip, fd, mac)
  <2> SUFFICES ASSUME NEW s \in Slots, t.ip[s] # 0
               PROVE  \/ handlers[Row(s)] > 0
                      \/ Spawns(ip, fd, mac) /\ Row(s) = Row(stop)
    BY DEF Served
  <2>1. ASSUME NEW x \in Slots, threadIP[x] # 0, Row(x) = Row(s) PROVE handlers[Row(s)] > 0
    BY <2>1, RowStartFirst DEF TableInv, LiveRowServed, RowLive
  <2>2. CASE threadIP[s] # 0
    BY <2>1, <2>2
  <2>3. CASE threadIP[s] = 0
    <3>1. new /\ s = stop
      BY <1>1, <1>3, <2>3
    <3>2. CASE Column(s) = 0
      BY <3>1, <3>2 DEF Spawns
    <3>3. CASE Column(s) # 0
      <4>1. RowStart(s) \in Slots /\ Row(RowStart(s)) = Row(s) /\ RowStart(s) < s
        BY <3>3, RowStartFirst
      <4>2. s \in ScannedSlots
        BY <3>1, StopSlotFirst
      <4>3. RowStart(s) \in ScannedSlots
        BY <4>1, <4>2 DEF ScannedSlots
      <4>4. ~Stops(RowStart(s), ip, fd, mac)
        BY <3>1, <4>1, <4>3, StopSlotFirst
      <4>5. threadIP[RowStart(s)] # 0
        BY <4>4 DEF Stops, Claimable, MatchesIP
      <4>6. QED
        BY <2>1, <4>1, <4>5
    <3>4. QED
      BY <3>2, <3>3
  <2>4. QED
    BY <2>2, <2>3
<1>8. QED
  BY <1>5, <1>6, <1>7

\* A table that was found is stored, or stored without the client that leaves.
LEMMA StoredRight ==
  ASSUME NEW t, TableType(t), MacsRight(t), NEW s \in Slots \cup {NoSlot}, NEW ip,
         Install(t) \/ RemoveThreadListener(t, s, ip)
  PROVE  /\ threadIP' \in [Slots -> Clients \cup {0}]
         /\ threadFD' \in [Slots -> Descriptors]
         /\ macAddress' \in [Slots -> Clients \cup {NoMac}]
         /\ MacBelongsToIp'
         /\ \A x \in Slots : threadIP'[x] # 0 => t.ip[x] # 0
<1>1. CASE Install(t)
  BY <1>1 DEF Install, TableType, MacsRight, MacBelongsToIp
<1>2. CASE RemoveThreadListener(t, s, ip)
  <2> DEFINE x == SlotOfIp(t, s, ip)
  <2>1. /\ threadIP' = IF x = NoSlot THEN t.ip ELSE [t.ip EXCEPT ![x] = 0]
        /\ threadFD' = IF x = NoSlot THEN t.fd ELSE [t.fd EXCEPT ![x] = 0]
        /\ macAddress' = t.mac
    BY <1>2 DEF RemoveThreadListener
  <2>2. 0 \in Descriptors
    BY TableAssumption DEF Descriptors
  <2> HIDE DEF x
  <2>3. QED
    BY <2>1, <2>2 DEF TableType, MacsRight, MacBelongsToIp
<1>3. QED
  BY <1>1, <1>2

\* A step that looks a connection up, starts the thread the lookup asks for and stores what
\* it found, with a client less at most, keeps the rows served.
LEMMA RowsServed ==
  ASSUME TableInv, NEW ip, NEW fd, NEW mac, NEW n \in {1, 2},
         Served(FoundTable(ip, fd, mac), ip, fd, mac), SpawnHandlers(ip, fd, mac, n),
         \A x \in Slots : threadIP'[x] # 0 => FoundTable(ip, fd, mac).ip[x] # 0
  PROVE  handlers' \in [Rows -> 0..MaxHandlers] /\ LiveRowServed'
<1>1. handlers \in [Rows -> 0..MaxHandlers] /\ MaxHandlers \in Nat
  BY TableAssumption DEF TableInv, TypeOK
<1>2. SUFFICES /\ handlers' \in [Rows -> 0..MaxHandlers]
               /\ \A x \in Slots : threadIP'[x] # 0 => handlers'[Row(x)] > 0
  BY DEF LiveRowServed, RowLive
<1>3. CASE Spawns(ip, fd, mac)
  <2> DEFINE i == Row(StopSlot(ip, fd, mac))
  <2>1. /\ handlers[i] + n <= MaxHandlers
        /\ handlers' = [handlers EXCEPT ![i] = @ + n]
    BY <1>3 DEF SpawnHandlers
  <2>2. i \in Rows
    BY <1>3, StopSlotFirst, RowStartFirst DEF Spawns
  <2> HIDE DEF i
  <2>3. /\ handlers' \in [Rows -> 0..MaxHandlers]
        /\ handlers'[i] > 0
        /\ \A r \in Rows : handlers[r] > 0 => handlers'[r] > 0
    BY <1>1, <2>1, <2>2
  <2>4. ASSUME NEW x \in Slots, threadIP'[x] # 0 PROVE handlers'[Row(x)] > 0
    <3>1. Row(x) \in Rows
      BY RowStartFirst
    <3>2. handlers[Row(x)] > 0 \/ Row(x) = i
      BY <2>4 DEF Served, i
    <3>3. QED
      BY <2>3, <3>1, <3>2
  <2>5. QED
    BY <2>3, <2>4
<1>4. CASE ~Spawns(ip, fd, mac)
  BY <1>1, <1>4 DEF SpawnHandlers, Served
<1>5. QED
  BY <1>3, <1>4

\* The row that a lookup opened is one of the table (OpenRow).
LEMMA OpenedRow ==
  ASSUME openThreads \in Rows \cup {-1}, NEW s \in Slots \cup {NoSlot}, OpenRow(s)
  PROVE  openThreads' \in Rows \cup {-1}
<1> DEFINE r == IF s = NoSlot THEN 0 ELSE Row(s)
<1>1. 0 \in Slots /\ Row(0) = 0
  BY TableAssumption DEF Slots, Row
<1>2. 0 \in Rows /\ r \in Rows /\ Rows \subseteq Int
  BY <1>1, RowStartFirst DEF Rows
<1>3. openThreads' = Max({openThreads, 0, r})
  BY DEF OpenRow
<1> HIDE DEF r
<1>4. \E x \in {openThreads, 0, r} : \A y \in {openThreads, 0, r} : x >= y
  BY <1>2
<1>5. Max({openThreads, 0, r}) \in {openThreads, 0, r}
  BY <1>4 DEF Max
<1>6. QED
  BY <1>2, <1>3, <1>5

\* What a step pushed names a slot of the table and one of the clients.
LEMMA PushedType ==
  ASSUME NEW t, TableType(t), NEW s \in Slots \cup {NoSlot}, NEW c \in Clients, NEW ip,
         PushThreadCommand(c, t, s, ip) \/ lastPush' = NoPush
  PROVE  lastPush' \in [from : Clients \cup {0}, slot : Slots \cup {NoSlot}, ip : Clients \cup {0}]
<1>1. CASE lastPush' = NoPush
  BY <1>1 DEF NoPush
<1>2. CASE PushThreadCommand(c, t, s, ip)
  <2> DEFINE S == {x \in RowOf(s) : t.ip[x] = ip}
  <2>1. S \subseteq Slots /\ Slots \subseteq Nat
    BY TableAssumption DEF RowOf, Slots
  <2>2. First(S) \in Slots \cup {NoSlot}
    BY <2>1, FirstSlot DEF First
  <2>3. SlotOfIp(t, s, ip) \in Slots \cup {NoSlot}
    BY <2>2 DEF SlotOfIp
  <2>4. QED
    BY <1>2, <2>3 DEF PushThreadCommand, TableType
<1>3. QED
  BY <1>1, <1>2

-------------------------------------------------------------------------------
LEMMA InitTableInv == Init => TableInv
<1> SUFFICES ASSUME Init PROVE TableInv
  OBVIOUS
<1>1. 0 \in Descriptors
  BY TableAssumption DEF Descriptors
<1>2. TypeOK
  <2>1. lastPush \in [from : Clients \cup {0}, slot : Slots \cup {NoSlot}, ip : Clients \cup {0}]
    BY DEF Init, NoPush
  <2>2. handlers \in [Rows -> 0..MaxHandlers]
    BY TableAssumption DEF Init
  <2>3. /\ threadIP \in [Slots -> Clients \cup {0}] /\ threadFD \in [Slots -> Descriptors]
        /\ macAddress \in [Slots -> Clients \cup {NoMac}]
        /\ owner \in [Descriptors -> Clients \cup {Free, Stdin}]
    BY <1>1 DEF Init
  <2>4. QED
    BY <2>1, <2>2, <2>3 DEF Init, TypeOK
<1>3. LiveRowServed /\ MacBelongsToIp
  BY DEF Init, LiveRowServed, RowLive, MacBelongsToIp
<1>4. QED
  BY <1>2, <1>3 DEF TableInv

\* Closing a descriptor.
LEMMA ClosedType ==
  ASSUME owner \in [Descriptors -> Clients \cup {Free, Stdin}], NEW d, Close(d)
  PROVE  owner' \in [Descriptors -> Clients \cup {Free, Stdin}]
  BY DEF Close

LEMMA AcceptTableInv ==
  ASSUME TableInv, NEW c \in Clients, Accept(c) PROVE TableInv'
<1> DEFINE free == {d \in Descriptors : owner[d] = Free}
           fd == Min(free)
           ip == IF sinSize THEN c ELSE peer
           mac == getMacLookup(ip)
           s == StopSlot(ip, fd, mac)
           t == FoundTable(ip, fd, mac)
<1>1. /\ free # {} /\ peer' = ip /\ sinSize' = TRUE
      /\ owner' = [owner EXCEPT ![fd] = c]
      /\ Install(t) /\ OpenRow(s) /\ SpawnHandlers(ip, fd, mac, 1)
      /\ PushThreadCommand(c, t, s, ip) \/ lastPush' = NoPush
      /\ orderly' = (orderly /\ ip = c)
      /\ UNCHANGED localArp
  BY DEF Accept
<1>2. free \subseteq Nat /\ free \subseteq Descriptors
  BY TableAssumption DEF Descriptors
<1>3. fd \in Descriptors
  <2>1. fd = First(free)
    BY <1>1 DEF First
  <2>2. QED
    BY <1>1, <1>2, <2>1, FirstSlot
<1>4. ip \in Clients \cup {0} /\ mac \in {NoMac, ip}
  BY DEF TableInv, TypeOK, getMacLookup
<1> HIDE DEF free, fd, ip, mac
<1>5. TableType(t) /\ MacsRight(t) /\ Served(t, ip, fd, mac)
  BY <1>3, <1>4, FoundTableRight
<1>6. s \in Slots \cup {NoSlot}
  BY StopSlotFirst
<1> HIDE DEF s
<1>7. /\ threadIP' \in [Slots -> Clients \cup {0}]
      /\ threadFD' \in [Slots -> Descriptors]
      /\ macAddress' \in [Slots -> Clients \cup {NoMac}]
      /\ MacBelongsToIp'
      /\ \A x \in Slots : threadIP'[x] # 0 => t.ip[x] # 0
  BY <1>1, <1>5, <1>6, StoredRight
<1>8. handlers' \in [Rows -> 0..MaxHandlers] /\ LiveRowServed'
  BY <1>1, <1>5, <1>7, RowsServed
<1>9. openThreads' \in Rows \cup {-1}
  BY <1>1, <1>6, OpenedRow DEF TableInv, TypeOK
<1>10. lastPush' \in [from : Clients \cup {0}, slot : Slots \cup {NoSlot}, ip : Clients \cup {0}]
  BY <1>1, <1>5, <1>6, PushedType
<1>11. /\ owner' \in [Descriptors -> Clients \cup {Free, Stdin}] /\ localArp' \subseteq Clients
       /\ peer' \in Clients \cup {0} /\ sinSize' \in BOOLEAN /\ orderly' \in BOOLEAN
  BY <1>1, <1>3, <1>4 DEF TableInv, TypeOK
<1>12. QED
  BY <1>7, <1>8, <1>9, <1>10, <1>11 DEF TableInv, TypeOK

LEMMA ReceiveTableInv ==
  ASSUME TableInv, NEW fd \in Descriptors, Receive(fd) PROVE TableInv'
<1> DEFINE s == StopSlot(0, fd, NoMac)
           t == FoundTable(0, fd, NoMac)
<1>1. /\ owner[fd] \in Clients
      /\ Install(t) /\ SpawnHandlers(0, fd, NoMac, 1)
      /\ PushThreadCommand(owner[fd], t, s, IpForThread(t, s, fd))
      /\ UNCHANGED <<openThreads, localArp, owner, peer, sinSize, orderly>>
  BY DEF Receive
<1>2. TableType(t) /\ MacsRight(t) /\ Served(t, 0, fd, NoMac)
  BY FoundTableRight
<1>3. s \in Slots \cup {NoSlot}
  BY StopSlotFirst
<1> HIDE DEF s
<1>4. /\ threadIP' \in [Slots -> Clients \cup {0}]
      /\ threadFD' \in [Slots -> Descriptors]
      /\ macAddress' \in [Slots -> Clients \cup {NoMac}]
      /\ MacBelongsToIp'
      /\ \A x \in Slots : threadIP'[x] # 0 => t.ip[x] # 0
  BY <1>1, <1>2, <1>3, StoredRight
<1>5. handlers' \in [Rows -> 0..MaxHandlers] /\ LiveRowServed'
  BY <1>1, <1>2, <1>4, RowsServed
<1>6. lastPush' \in [from : Clients \cup {0}, slot : Slots \cup {NoSlot}, ip : Clients \cup {0}]
  BY <1>1, <1>2, <1>3, PushedType
<1>7. QED
  BY <1>1, <1>4, <1>5, <1>6 DEF TableInv, TypeOK

LEMMA DisconnectTableInv ==
  ASSUME TableInv, NEW fd \in Descriptors, Disconnect(fd) PROVE TableInv'
<1> DEFINE s == StopSlot(0, fd, NoMac)
           t == FoundTable(0, fd, NoMac)
<1>1. /\ RemoveThreadListener(t, s, IpForThread(t, s, fd))
      /\ SpawnHandlers(0, fd, NoMac, 2) /\ Close(fd)
      /\ orderly' = FALSE /\ lastPush' = NoPush
      /\ UNCHANGED <<openThreads, localArp, peer, sinSize>>
  BY DEF Disconnect
<1>2. TableType(t) /\ MacsRight(t) /\ Served(t, 0, fd, NoMac)
  BY FoundTableRight
<1>3. s \in Slots \cup {NoSlot}
  BY StopSlotFirst
<1> HIDE DEF s
<1>4. /\ threadIP' \in [Slots -> Clients \cup {0}]
      /\ threadFD' \in [Slots -> Descriptors]
      /\ macAddress' \in [Slots -> Clients \cup {NoMac}]
      /\ MacBelongsToIp'
      /\ \A x \in Slots : threadIP'[x] # 0 => t.ip[x] # 0
  BY <1>1, <1>2, <1>3, StoredRight
<1>5. handlers' \in [Rows -> 0..MaxHandlers] /\ LiveRowServed'
  BY <1>1, <1>2, <1>4, RowsServed
<1>6. owner' \in [Descriptors -> Clients \cup {Free, Stdin}]
  BY <1>1, ClosedType DEF TableInv, TypeOK
<1>7. QED
  BY <1>1, <1>4, <1>5, <1>6 DEF TableInv, TypeOK, NoPush

LEMMA ByebyeTableInv ==
  ASSUME TableInv, NEW c \in Clients, Byebye(c) PROVE TableInv'
<1> DEFINE S == {x \in Slots : Row(x) <= openThreads /\ macAddress[x] = c}
           known == First(S)
           fd == threadFD[known]
           s == StopSlot(c, fd, c)
           t == FoundTable(c, fd, c)
<1>1. /\ known # NoSlot /\ peer' = c
      /\ RemoveThreadListener(t, s, c)
      /\ SpawnHandlers(c, fd, c, 1) /\ Close(fd)
      /\ orderly' = FALSE /\ lastPush' = NoPush
      /\ UNCHANGED <<openThreads, localArp, sinSize>>
  BY DEF Byebye
<1>2. known \in Slots
  <2>1. S \subseteq Slots /\ Slots \subseteq Nat
    BY TableAssumption DEF Slots
  <2>2. S = {} => known = NoSlot
    BY DEF First
  <2>3. QED
    BY <1>1, <2>1, <2>2, FirstSlot
<1> HIDE DEF known
<1>3. fd \in Descriptors
  BY <1>2 DEF TableInv, TypeOK
<1> HIDE DEF fd
<1>4. TableType(t) /\ MacsRight(t) /\ Served(t, c, fd, c)
  BY <1>3, FoundTableRight
<1>5. s \in Slots \cup {NoSlot}
  BY StopSlotFirst
<1> HIDE DEF s
<1>6. /\ threadIP' \in [Slots -> Clients \cup {0}]
      /\ threadFD' \in [Slots -> Descriptors]
      /\ macAddress' \in [Slots -> Clients \cup {NoMac}]
      /\ MacBelongsToIp'
      /\ \A x \in Slots : threadIP'[x] # 0 => t.ip[x] # 0
  BY <1>1, <1>4, <1>5, StoredRight
<1>7. handlers' \in [Rows -> 0..MaxHandlers] /\ LiveRowServed'
  BY <1>1, <1>4, <1>6, RowsServed
<1>8. owner' \in [Descriptors -> Clients \cup {Free, Stdin}]
  BY <1>1, ClosedType DEF TableInv, TypeOK
<1>9. QED
  BY <1>1, <1>6, <1>7, <1>8 DEF TableInv, TypeOK, NoPush

\* A handler ends only when its row is empty.
LEMMA HandlerExitTableInv ==
  ASSUME TableInv, NEW i \in Rows, HandlerExit(i) PROVE TableInv'
<1>1. /\ handlers[i] > 0 /\ handlers' = [handlers EXCEPT ![i] = @ - 1]
      /\ \A s \in Slots : Row(s) = i => threadIP[s] = 0
      /\ lastPush' = NoPush
      /\ UNCHANGED <<threadIP, threadFD, macAddress, openThreads, localArp, owner, peer, sinSize, orderly>>
  BY DEF HandlerExit, table
<1>2. handlers \in [Rows -> 0..MaxHandlers] /\ MaxHandlers \in Nat
  BY TableAssumption DEF TableInv, TypeOK
<1>3. handlers' \in [Rows -> 0..MaxHandlers]
  BY <1>1, <1>2
<1>4. LiveRowServed'
  <2> SUFFICES ASSUME NEW r \in Rows, RowLive(r) PROVE handlers'[r] > 0
    BY <1>1 DEF LiveRowServed, RowLive
  <2>1. r # i /\ handlers[r] > 0
    BY <1>1 DEF TableInv, LiveRowServed, RowLive
  <2>2. QED
    BY <1>1, <1>2, <2>1
<1>5. MacBelongsToIp'
  BY <1>1 DEF TableInv, MacBelongsToIp
<1>6. QED
  BY <1>1, <1>3, <1>4, <1>5 DEF TableInv, TypeOK, NoPush

LEMMA DatagramTableInv ==
  ASSUME TableInv, NEW c \in Clients, Datagram(c) PROVE TableInv'
  BY DEF Datagram, TableInv, TypeOK, LiveRowServed, RowLive, MacBelongsToIp, table, NoPush

\* In every reachable state the variables have their types, a row in which a connection is
\* recorded has a thread (getThreadForFileDescriptor starts one for the first slot of a row
\* only), and the MAC address of a slot in use is that of its client, for tables of any size.
THEOREM TableKeepsItsPromises == Spec => []TableInv
<1>1. TableInv /\ [Next]_vars => TableInv'
  <2> SUFFICES ASSUME TableInv, [Next]_vars PROVE TableInv'
    OBVIOUS
  <2>1. CASE \E c \in Clients : Datagram(c)
    BY <2>1, DatagramTableInv
  <2>2. CASE \E c \in Clients : Accept(c)
    BY <2>2, AcceptTableInv
  <2>3. CASE \E c \in Clients : Byebye(c)
    BY <2>3, ByebyeTableInv
  <2>4. CASE \E fd \in Descriptors : Receive(fd)
    BY <2>4, ReceiveTableInv
  <2>5. CASE \E fd \in Descriptors : Disconnect(fd)
    BY <2>5, DisconnectTableInv
  <2>6. CASE \E i \in Rows : HandlerExit(i)
    BY <2>6, HandlerExitTableInv
  <2>7. CASE UNCHANGED vars
    BY <2>7 DEF vars, table, TableInv, TypeOK, LiveRowServed, RowLive, MacBelongsToIp
  <2>8. QED
    BY <2>1, <2>2, <2>3, <2>4, <2>5, <2>6, <2>7 DEF Next
<1>2. QED
  BY <1>1, InitTableInv, PTL DEF Spec

-------------------------------------------------------------------------------
\* While connections are orderly only the first row is ever open and only its first slot
\* has started a thread, a slot in use holds a descriptor of its client, and every other
\* descriptor in the table is open.
FirstRowOnly ==
  /\ openThreads <= 0
  /\ \A s \in Slots : threadIP[s] # 0 => threadIP[0] # 0
  /\ \A i \in Rows : handlers[i] <= IF i = 0 /\ threadIP[0] # 0 THEN 1 ELSE 0
DescriptorsRight ==
  \A s \in Slots : /\ threadIP[s] # 0 => owner[threadFD[s]] = threadIP[s]
                   /\ threadFD[s] # 0 => owner[threadFD[s]] # Free
OrderlyIInv ==
  orderly => /\ FirstRowOnly /\ DescriptorsRight
             /\ OrderlyAttribution /\ OrderlyRefusal

\* A scan without result leaves no slot that would have ended it.
LEMMA StopSlotNone ==
  ASSUME NEW ip, NEW fd, NEW mac, StopSlot(ip, fd, mac) = NoSlot
  PROVE  \A s \in ScannedSlots : ~Stops(s, ip, fd, mac)
<1> DEFINE S == {s \in ScannedSlots : Stops(s, ip, fd, mac)}
<1>1. S \subseteq Nat
  BY TableAssumption DEF ScannedSlots, Slots
<1>2. First(S) = NoSlot
  BY DEF StopSlot, Stops
<1>3. S = {}
  BY <1>1, <1>2, FirstSlot
<1>4. QED
  BY <1>3

\* The first row and its first slot.
LEMMA FirstRow ==
  /\ 0 \in Slots /\ 0 \in Rows
  /\ \A s \in Slots : Row(s) \in Nat /\ (Row(s) <= 0 /\ Column(s) = 0 => s = 0)
  BY TableAssumption DEF Slots, Rows, Row, Column

\* While only the first row is open, a scan looks at that row, and opens no other.
LEMMA FirstRowScanned ==
  ASSUME openThreads \in {-1, 0}
  PROVE  /\ ScannedSlots = {s \in Slots : Row(s) = 0}
         /\ \A s \in ScannedSlots \cup {NoSlot} : OpenRow(s) => openThreads' = 0
<1>1. \A x \in {-1, 0} : Max({x, 0}) = 0 /\ Max({x, 0, 0}) = 0
  BY DEF Max
<1>2. ScannedSlots = {s \in Slots : Row(s) = 0}
  BY <1>1, FirstRow DEF ScannedSlots
<1>3. QED
  BY <1>1, <1>2 DEF OpenRow

\* What is pushed is attributed to the address that was looked up, or to nobody.
LEMMA PushedIp ==
  ASSUME NEW t, NEW s \in Slots \cup {NoSlot}, NEW c, NEW ip, PushThreadCommand(c, t, s, ip)
  PROVE  lastPush'.from = c /\ lastPush'.ip \in {0, ip}
<1> DEFINE S == {x \in RowOf(s) : t.ip[x] = ip}
<1>1. S \subseteq Nat
  BY TableAssumption DEF RowOf, Slots
<1>2. First(S) = NoSlot \/ First(S) \in S
  BY <1>1, FirstSlot DEF First
<1>3. SlotOfIp(t, s, ip) = First(S)
  BY DEF SlotOfIp
<1>4. QED
  BY <1>2, <1>3 DEF PushThreadCommand

\* Somebody is connected: the first slot is in use.
LEMMA FirstSlotUsed ==
  ASSUME FirstRowOnly, OrderlyRefusal, orderly, NEW c \in Clients, Connected(c)
  PROVE  threadIP[0] # 0
<1>1. CASE Recorded(c)
  BY <1>1, TableAssumption DEF Recorded, FirstRowOnly
<1>2. CASE ~Recorded(c)
  <2>1. 0 \in Slots /\ Row(0) = 0
    BY TableAssumption DEF Slots, Row
  <2>2. QED
    BY <1>2, <2>1 DEF OrderlyRefusal
<1>3. QED
  BY <1>1, <1>2

\* An orderly connection: a client's slot is found by its address, or is the first free one.
LEMMA AcceptOrderly ==
  ASSUME TableInv, OrderlyIInv, NEW c \in Clients, Accept(c), orderly'
  PROVE  (FirstRowOnly /\ DescriptorsRight /\ OrderlyAttribution /\ OrderlyRefusal)'
<1> DEFINE free == {d \in Descriptors : owner[d] = Free}
           fd == Min(free)
           ip == IF sinSize THEN c ELSE peer
           mac == getMacLookup(ip)
           s == StopSlot(ip, fd, mac)
           t == FoundTable(ip, fd, mac)
<1>1. /\ free # {} /\ owner' = [owner EXCEPT ![fd] = c]
      /\ Install(t) /\ OpenRow(s) /\ SpawnHandlers(ip, fd, mac, 1)
      /\ PushThreadCommand(c, t, s, ip) \/ lastPush' = NoPush
      /\ orderly' = (orderly /\ ip = c)
  BY DEF Accept
<1>2. /\ orderly /\ ip = c
      /\ FirstRowOnly /\ DescriptorsRight /\ OrderlyAttribution /\ OrderlyRefusal
  BY <1>1 DEF OrderlyIInv
<1>3. free \subseteq Nat /\ free \subseteq Descriptors
  BY TableAssumption DEF Descriptors
<1>4. fd \in Descriptors /\ owner[fd] = Free
  <2>1. fd = First(free)
    BY <1>1 DEF First
  <2>2. QED
    BY <1>1, <1>3, <2>1, FirstSlot
<1>5. mac \in {NoMac, c}
  BY <1>2 DEF getMacLookup
<1>6. /\ threadIP \in [Slots -> Clients \cup {0}] /\ threadFD \in [Slots -> Descriptors]
      /\ owner \in [Descriptors -> Clients \cup {Free, Stdin}]
      /\ handlers \in [Rows -> 0..MaxHandlers] /\ openThreads \in {-1, 0}
      /\ c # 0 /\ c # Free /\ MacBelongsToIp
  BY <1>2, TableAssumption DEF TableInv, TypeOK, FirstRowOnly, Rows, Free
<1> HIDE DEF free, fd, ip, mac
<1>7. \A x \in Slots : ~MatchesFD(x, c, fd)
  BY <1>2, <1>4 DEF MatchesFD, DescriptorsRight
<1>8. \A x \in Slots : Stops(x, c, fd, mac) <=> threadIP[x] \in {0, c}
  BY <1>5, <1>6, <1>7 DEF Stops, MatchesIP, OtherMac, Claimable, MacBelongsToIp
<1>9. /\ ScannedSlots = {x \in Slots : Row(x) = 0}
      /\ s \in ScannedSlots \cup {NoSlot}
      /\ openThreads' = 0
  BY <1>1, <1>6, FirstRowScanned, StopSlotFirst
<1>10. s # NoSlot => /\ threadIP[s] \in {0, c}
                     /\ \A x \in ScannedSlots : x < s => threadIP[x] # 0
  BY <1>2, <1>8, <1>9, StopSlotFirst
<1>11. s = NoSlot => \A x \in ScannedSlots : threadIP[x] # 0
  BY <1>2, <1>8, <1>9, StopSlotNone
<1> DEFINE new == s # NoSlot /\ threadIP[s] = 0
<1>12. /\ threadIP' = IF new THEN [threadIP EXCEPT ![s] = c] ELSE threadIP
       /\ threadFD' = IF new THEN [threadFD EXCEPT ![s] = fd] ELSE threadFD
  <2>1. s # NoSlot => (Claims(s, ip, fd) <=> threadIP[s] = 0)
    BY <1>2, <1>6, <1>7, <1>9 DEF Claims, Claimable, MatchesIP
  <2>2. QED
    BY <1>1, <1>2, <2>1 DEF Install, FoundTable
<1>13. SpawnHandlers(c, fd, mac, 1) /\ (Spawns(c, fd, mac) <=> new /\ s = 0)
  <2>1. s # NoSlot => (Claims(s, c, fd) <=> threadIP[s] = 0)
    BY <1>6, <1>7, <1>9 DEF Claims, Claimable, MatchesIP
  <2>2. s # NoSlot => (Column(s) = 0 <=> s = 0)
    BY <1>9, FirstRow, TableAssumption DEF Column
  <2>3. QED
    BY <1>1, <1>2, <2>1, <2>2 DEF Spawns
<1>14. new => (s # 0 => threadIP[0] # 0)
  BY <1>9, <1>10, FirstRow, TableAssumption DEF Slots, Row
<1>15. FirstRowOnly'
  <2>1. \A x \in Slots : threadIP'[x] # 0 => threadIP'[0] # 0
    BY <1>2, <1>6, <1>9, <1>12, <1>14, FirstRow DEF FirstRowOnly
  <2>2. \A i \in Rows : handlers'[i] <= IF i = 0 /\ threadIP'[0] # 0 THEN 1 ELSE 0
    <3>1. CASE new /\ s = 0
      <4>1. handlers' = [handlers EXCEPT ![0] = handlers[0] + 1]
        BY <1>2, <1>13, <3>1, TableAssumption DEF SpawnHandlers, Row
      <4>2. threadIP[0] = 0 /\ threadIP'[0] = c
        BY <1>6, <1>12, <3>1, FirstRow
      <4>3. QED
        BY <1>2, <1>6, <4>1, <4>2, FirstRow DEF FirstRowOnly
    <3>2. CASE ~(new /\ s = 0)
      <4>1. handlers' = handlers /\ (threadIP[0] # 0 => threadIP'[0] # 0)
        BY <1>6, <1>12, <1>13, <3>2, FirstRow DEF SpawnHandlers
      <4>2. QED
        BY <1>2, <1>6, <4>1 DEF FirstRowOnly
    <3>3. QED
      BY <3>1, <3>2
  <2>3. QED
    BY <1>9, <2>1, <2>2 DEF FirstRowOnly
<1>16. DescriptorsRight'
  <2> SUFFICES ASSUME NEW x \in Slots
               PROVE  /\ threadIP'[x] # 0 => owner'[threadFD'[x]] = threadIP'[x]
                      /\ threadFD'[x] # 0 => owner'[threadFD'[x]] # Free
    BY DEF DescriptorsRight
  <2>1. CASE new /\ x = s
    <3>1. threadIP'[x] = c /\ threadFD'[x] = fd /\ owner'[fd] = c
      BY <1>1, <1>4, <1>6, <1>9, <1>12, <2>1
    <3>2. QED
      BY <1>6, <3>1
  <2>2. CASE ~(new /\ x = s)
    <3>1. threadIP'[x] = threadIP[x] /\ threadFD'[x] = threadFD[x] /\ threadFD[x] \in Descriptors
      BY <1>6, <1>9, <1>12, <2>2
    <3>2. \A d \in Descriptors : owner[d] # Free => owner'[d] = owner[d]
      BY <1>1, <1>4, <1>6
    <3>3. QED
      BY <1>2, <3>1, <3>2 DEF DescriptorsRight, Free
  <2>3. QED
    BY <2>1, <2>2
<1>17. OrderlyAttribution'
  BY <1>1, <1>2, <1>9, PushedIp DEF OrderlyAttribution, NoPush, ScannedSlots
<1>18. OrderlyRefusal'
  <2> SUFFICES ASSUME NEW k \in Clients, Connected(k)', ~Recorded(k)', NEW x \in Slots, Row(x) = 0
               PROVE  threadIP'[x] # 0
    BY DEF OrderlyRefusal
  <2>1. CASE k = c
    <3>1. s = NoSlot
      BY <1>6, <1>9, <1>10, <1>12, <2>1 DEF Recorded
    <3>2. QED
      BY <1>6, <1>9, <1>11, <1>12, <3>1
  <2>2. CASE k # c
    <3>1. Connected(k)
      BY <1>1, <1>4, <1>6, <2>2 DEF Connected
    <3>2. ~Recorded(k)
      BY <1>6, <1>9, <1>12, <2>2, TableAssumption DEF Recorded
    <3>3. threadIP[x] # 0
      BY <1>2, <3>1, <3>2 DEF OrderlyRefusal
    <3>4. QED
      BY <1>6, <1>9, <1>12, <3>3
  <2>3. QED
    BY <2>1, <2>2
<1>19. QED
  BY <1>15, <1>16, <1>17, <1>18

\* Bytes on a descriptor: a slot without address may take the descriptor, and nothing else
\* happens, since the first slot is in use already.
LEMMA ReceiveOrderly ==
  ASSUME TableInv, OrderlyIInv, NEW fd \in Descriptors, Receive(fd), orderly'
  PROVE  (FirstRowOnly /\ DescriptorsRight /\ OrderlyAttribution /\ OrderlyRefusal)'
<1> DEFINE s == StopSlot(0, fd, NoMac)
           t == FoundTable(0, fd, NoMac)
           f == First({x \in RowOf(s) : t.fd[x] = fd})
<1>1. /\ owner[fd] \in Clients /\ s # NoSlot
      /\ Install(t) /\ SpawnHandlers(0, fd, NoMac, 1)
      /\ PushThreadCommand(owner[fd], t, s, IpForThread(t, s, fd))
      /\ UNCHANGED <<openThreads, localArp, owner, peer, sinSize, orderly>>
  BY DEF Receive
<1>2. /\ orderly
      /\ FirstRowOnly /\ DescriptorsRight /\ OrderlyAttribution /\ OrderlyRefusal
  BY <1>1 DEF OrderlyIInv
<1>3. /\ threadIP \in [Slots -> Clients \cup {0}] /\ threadFD \in [Slots -> Descriptors]
      /\ handlers \in [Rows -> 0..MaxHandlers] /\ openThreads \in {-1, 0}
      /\ owner[fd] # Free /\ 0 \notin Clients
  BY <1>1, <1>2, TableAssumption DEF TableInv, TypeOK, FirstRowOnly, Rows, Free
<1>4. /\ ScannedSlots = {x \in Slots : Row(x) = 0} /\ s \in ScannedSlots
  BY <1>1, <1>3, FirstRowScanned, StopSlotFirst
<1>5. threadIP[0] # 0
  BY <1>1, <1>2, FirstSlotUsed DEF Connected
<1> DEFINE new == Claims(s, 0, fd)
<1>6. new => threadIP[s] = 0
  BY DEF Claims, Claimable
<1>7. /\ t.ip = IF new THEN [threadIP EXCEPT ![s] = 0] ELSE threadIP
      /\ t.fd = IF new THEN [threadFD EXCEPT ![s] = fd] ELSE threadFD
      /\ threadIP' = t.ip /\ threadFD' = t.fd
  BY <1>1 DEF Install, FoundTable
<1>8. t.ip = threadIP
  BY <1>3, <1>4, <1>6, <1>7
<1>9. handlers' = handlers
  <2>1. ~Spawns(0, fd, NoMac)
    BY <1>4, <1>5, <1>6, FirstRow DEF Spawns
  <2>2. QED
    BY <1>1, <2>1 DEF SpawnHandlers
<1> HIDE DEF s, t, new
<1>10. FirstRowOnly'
  BY <1>1, <1>2, <1>7, <1>8, <1>9 DEF FirstRowOnly
<1>11. DescriptorsRight'
  BY <1>1, <1>2, <1>3, <1>4, <1>6, <1>7, <1>8 DEF DescriptorsRight
<1>12. OrderlyAttribution'
  <2>1. f # NoSlot => f \in Slots /\ t.fd[f] = fd
    <3> DEFINE S == {x \in RowOf(s) : t.fd[x] = fd}
    <3>1. S \subseteq Nat
      BY TableAssumption DEF RowOf, Slots
    <3>2. S = {} => First(S) = NoSlot
      BY DEF First
    <3>3. First(S) # NoSlot => First(S) \in S
      BY <3>1, <3>2, FirstSlot
    <3>4. QED
      BY <3>3 DEF RowOf
  <2>2. IpForThread(t, s, fd) = IF f = NoSlot THEN 0 ELSE t.ip[f]
    BY DEF IpForThread
  <2> HIDE DEF f
  <2>3. IpForThread(t, s, fd) \in {0, owner[fd]}
    <3>1. CASE f = NoSlot
      BY <2>2, <3>1
    <3>2. CASE f # NoSlot
      BY <1>7, <1>1, <1>11, <2>1, <2>2, <3>2 DEF DescriptorsRight
    <3>3. QED
      BY <3>1, <3>2
  <2>4. lastPush'.from = owner[fd] /\ lastPush'.ip \in {0, IpForThread(t, s, fd)}
    BY <1>1, <1>4, PushedIp DEF ScannedSlots
  <2>5. QED
    BY <2>3, <2>4 DEF OrderlyAttribution
<1>13. OrderlyRefusal'
  BY <1>1, <1>2, <1>7, <1>8 DEF OrderlyRefusal, Connected, Recorded
<1>14. QED
  BY <1>10, <1>11, <1>12, <1>13

\* The other steps end the order, or change nothing it is about but a thread that ends.
LEMMA OrderlyKept ==
  ASSUME TableInv, OrderlyIInv, [Next]_vars
  PROVE  OrderlyIInv'
<1> SUFFICES ASSUME orderly'
             PROVE  (FirstRowOnly /\ DescriptorsRight /\ OrderlyAttribution /\ OrderlyRefusal)'
  BY DEF OrderlyIInv
<1>1. CASE \E c \in Clients : Datagram(c)
  BY <1>1 DEF Datagram, OrderlyIInv, FirstRowOnly, DescriptorsRight, OrderlyAttribution, NoPush,
              OrderlyRefusal, Connected, Recorded, table
<1>2. CASE \E c \in Clients : Accept(c)
  BY <1>2, AcceptOrderly
<1>3. CASE \E c \in Clients : Byebye(c)
  BY <1>3 DEF Byebye
<1>4. CASE \E fd \in Descriptors : Receive(fd)
  BY <1>4, ReceiveOrderly
<1>5. CASE \E fd \in Descriptors : Disconnect(fd)
  BY <1>5 DEF Disconnect
<1>6. ASSUME NEW i \in Rows, HandlerExit(i)
      PROVE  (FirstRowOnly /\ DescriptorsRight /\ OrderlyAttribution /\ OrderlyRefusal)'
  <2>1. /\ UNCHANGED <<threadIP, threadFD, openThreads, owner, orderly>>
        /\ lastPush' = NoPush /\ handlers' = [handlers EXCEPT ![i] = @ - 1]
    BY <1>6 DEF HandlerExit, table
  <2>2. handlers \in [Rows -> 0..MaxHandlers]
    BY DEF TableInv, TypeOK
  <2>3. FirstRowOnly'
    BY <2>1, <2>2 DEF OrderlyIInv, FirstRowOnly
  <2>4. QED
    BY <2>1, <2>3 DEF OrderlyIInv, DescriptorsRight, OrderlyAttribution, NoPush, OrderlyRefusal,
                      Connected, Recorded
<1>7. CASE UNCHANGED vars
  BY <1>7 DEF vars, table, OrderlyIInv, FirstRowOnly, DescriptorsRight, OrderlyAttribution,
              OrderlyRefusal, Connected, Recorded
<1>8. QED
  BY <1>1, <1>2, <1>3, <1>4, <1>5, <1>6, <1>7 DEF Next

\* The table is empty at first.
LEMMA InitOrderly == Init => OrderlyIInv
<1> SUFFICES ASSUME Init PROVE OrderlyIInv
  OBVIOUS
<1>1. FirstRowOnly /\ DescriptorsRight
  BY FirstRow DEF Init, FirstRowOnly, DescriptorsRight
<1>2. OrderlyAttribution /\ OrderlyRefusal
  <2>1. \A c \in Clients : ~Connected(c)
    BY TableAssumption DEF Init, Connected, Free, Stdin
  <2>2. QED
    BY <2>1 DEF Init, NoPush, OrderlyAttribution, OrderlyRefusal
<1>3. QED
  BY <1>1, <1>2 DEF OrderlyIInv

\* As long as every connection was recorded under its own address and none was closed, no
\* bytes are taken for another client's (getIpForThread, pushThreadCommand), no row has two
\* handlers, and a client is turned away only because the first row is full
\* (getThreadForFileDescriptor), for tables of any size.
THEOREM OrderlyClientsServed == Spec => []OrderlyService
<1>1. TableInv /\ OrderlyIInv => OrderlyService
  <2> SUFFICES ASSUME TableInv, OrderlyIInv, orderly PROVE OrderlyOneHandler
    BY DEF OrderlyIInv, OrderlyService, OrderlyOneHandler, OrderlyAttribution, OrderlyRefusal
  <2>1. handlers \in [Rows -> 0..MaxHandlers] /\ MaxHandlers \in Nat
    BY TableAssumption DEF TableInv, TypeOK
  <2>2. QED
    BY <2>1 DEF OrderlyIInv, FirstRowOnly, OrderlyOneHandler
<1>2. QED
  BY <1>1, InitOrderly, OrderlyKept, TableKeepsItsPromises, PTL DEF Spec
===============================================================================
