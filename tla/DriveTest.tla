------------------------------- MODULE DriveTest -------------------------------
(***************************************************************************)
(* driveTest.c with BlockDeviceLib.c and the detection of drives           *)
(* (ideDeviceLib.c, scsiDeviceLib.c, floppyDeviceLib.c).                   *)
(*                                                                         *)
(* A drive is a function from places to contents: <<"old", i>> is what was *)
(* there first, <<"new", k>> element k of the pattern, Junk anything else. *)
(* A place that is faulty always reads as Junk.  writeAndRestoreBlock is   *)
(* one step: nothing else uses the drive.  Each call that opens the drive  *)
(* may fail.  Places, sizes and locations are counted in units of which    *)
(* BlockSize make a block.                                                 *)
(***************************************************************************)
EXTENDS TestOutput

CONSTANTS
  BlockSize,     \* BLKSSZGET
  DriveSizes,    \* BLKGETSIZE64 of the drives a board may have
  TestSizes,     \* the argument size
  MaxSize,       \* MAX_SIZE
  ULongLong,     \* 2^64: one more than the greatest unsigned long long
  FaultyPlaces,  \* the sets of places that may be faulty
  MaxIoFails,    \* bound of the model: calls that fail
  DeviceTables,  \* the contents of /proc/devices: sequences of [kind, major]
  DiskStats      \* the contents of diskstats: sequences of [kind, major, minor, dev]

ASSUME DriveAssumption ==
  /\ TestSizes \subseteq Nat /\ ULongLong \in Nat
  /\ BlockSize \in Nat \ {0} /\ DriveSizes \subseteq Nat \ {0}
  /\ \A n \in DriveSizes : n % BlockSize = 0 /\ 2 * n < ULongLong
  /\ MaxIoFails \in Nat

VARIABLES
  driveAt,   \* the next step: "next" drive, its "regions", the "verdict"
  request,   \* size
  todo,      \* the drives that are still to be tested, with their names
  regions,   \* the regions of the present drive that are still to be tested
  content,   \* the present drive
  bad,       \* its faulty places
  equal,     \* for each region that was tested: was it found equal
  ioFails,   \* history: how many calls on the drive failed
  unrestored \* history: the places of regions that were not found equal
driveVars == <<driveAt, request, todo, regions, content, bad, equal, ioFails, unrestored>>

Junk == <<"junk", 0>>
Places == DOMAIN content
deviceSize == Cardinality(Places)
Fresh(n) == [p \in 0..n - 1 |-> <<"old", p>>]

-------------------------------------------------------------------------------
\* Detection: the controllers of a kind in /proc/devices, numbered as they come;
\* then one pass over diskstats, in which the drive looked for is always the first
\* one of the next controller.  The list of floppy drives holds indices, not
\* major numbers, and the name of the drive has the wrong argument.
Controllers(table, kind) == SelectSeq(table, LAMBDA e : e.kind = kind)

deviceNumber(table, kind, i) ==
  IF kind = "floppy" THEN i - 1 ELSE Controllers(table, kind)[i].major

Detect(table, stats, kind) ==
  LET n == Len(Controllers(table, kind))
      found[k \in 0..Len(stats)] ==
        IF k = 0 THEN <<>>
        ELSE LET f == found[k - 1]
                 e == stats[k]
             IN IF /\ Len(f) < n /\ e.kind = kind /\ e.minor = 0
                   /\ e.major = deviceNumber(table, kind, Len(f) + 1)
                THEN Append(f, IF kind = "floppy" THEN "fd0" ELSE e.dev) ELSE f
  IN found[Len(stats)]

detectAndTestDrives(table, stats) ==
  Detect(table, stats, "ide") \o Detect(table, stats, "floppy") \o Detect(table, stats, "scsi")

-------------------------------------------------------------------------------
DriveInit ==
  /\ driveAt = "next" /\ request = 1 /\ todo = <<>> /\ regions = {} /\ content = Fresh(BlockSize)
  /\ bad = {} /\ equal = <<>> /\ ioFails = 0 /\ unrestored = {}

DriveEnds(r) ==
  /\ program' = "none" /\ report' = r /\ todo' = <<>>
  /\ UNCHANGED <<driveAt, regions, content, bad, equal, ioFails, unrestored>>

\* Mutant: the reason is given before the status.
RefusedDiagnostic(line) == failedMessage(diagnosticPrint(testPrint(Before, line), "reason"))

\* A line that fails, and the reason.
Refused(line) == diagnosticPrint(Verdict(Before, line, FALSE), "reason")

\* The drives of a board all have one size and the same faults.
DriveStart ==
  /\ program = "ready"
  /\ request' \in TestSizes
  /\ \/ \* wrong arguments
        DriveEnds(Verdict(Before, "Drive Test", FALSE))
     \/ /\ request' > MaxSize /\ DriveEnds(Refused("Drive Test"))
     \/ /\ request' <= MaxSize
        /\ \E table \in DeviceTables, stats \in DiskStats :
             /\ detectAndTestDrives(table, stats) = <<>>
             /\ DriveEnds(Refused("Drive Test"))
     \/ /\ request' <= MaxSize
        /\ program' = "drive" /\ report' = Before
        /\ \/ todo' = <<"given">>
           \/ \E table \in DeviceTables, stats \in DiskStats :
                /\ todo' = detectAndTestDrives(table, stats) /\ todo' # <<>>
        /\ content' \in {Fresh(n) : n \in DriveSizes} /\ bad' \in FaultyPlaces
        /\ driveAt' = "next" /\ ioFails' = 0 /\ regions' = {} /\ equal' = <<>>
        /\ unrestored' = {}

\* calculateNearestBlockSize: rounded to a number of blocks, one at least.
NearestBlockSize ==
  LET n == ((2 * request + BlockSize) \div (2 * BlockSize)) * BlockSize
  IN IF n = 0 THEN BlockSize ELSE n
size == NearestBlockSize

\* getDeviceCenterSector, and getDeviceFinalSector, whose result wraps around on a
\* drive that is smaller than the size.
Center == deviceSize \div 2
Final  == (deviceSize - size) % ULongLong

\* A drive that cannot be opened is not tested.
InvalidDrive ==
  /\ program = "drive" /\ driveAt = "next" /\ todo # <<>>
  /\ ioFails < MaxIoFails /\ ioFails' = ioFails + 1
  /\ report' = diagnosticPrint(Verdict(report, Head(todo), FALSE), "reason")
  /\ todo' = Tail(todo)
  /\ equal' = <<>>
  /\ UNCHANGED <<program, driveAt, request, regions, content, bad, unrestored>>

\* The three regions, in an order the language leaves open.
TestBlockDevice ==
  /\ program = "drive" /\ driveAt = "next" /\ todo # <<>>
  /\ report' = testPrint(IF size # request THEN diagnosticPrint(report, "adjusted")
                         ELSE report, Head(todo))
  /\ \E c \in (IF ioFails < MaxIoFails THEN {Center, 0} ELSE {Center}),
        f \in (IF ioFails < MaxIoFails THEN {Final, 0} ELSE {Final}) :
       /\ regions' = {<<"begin", 0>>, <<"center", c>>, <<"final", f>>}
       /\ ioFails' = ioFails + (IF c # Center \/ f # Final THEN 1 ELSE 0)
  /\ driveAt' = "regions" /\ content' = Fresh(deviceSize)
  /\ equal' = <<>> /\ unrestored' = {}
  /\ UNCHANGED <<program, request, todo, bad>>

\* The location is compared after an addition that wraps around; a location that
\* cannot be sought leaves the file at its start.
Beyond(begin) == (begin + size) % ULongLong > deviceSize
Seek(begin)   == IF begin >= ULongLong \div 2 THEN 0 ELSE begin

\* readBlockToDevice into a buffer, and writeBlockToDevice from one, when the call
\* does not fail.  At the end of the drive less is read or written.
Read(drive, begin, buffer) ==
  IF Beyond(begin) THEN buffer
  ELSE [k \in 0..size - 1 |->
          LET p == Seek(begin) + k IN IF p \notin DOMAIN drive THEN buffer[k]
                                      ELSE IF p \in bad THEN Junk ELSE drive[p]]
Write(drive, begin, buffer) ==
  IF Beyond(begin) THEN drive
  ELSE [p \in DOMAIN drive |->
          IF p - Seek(begin) \in 0..size - 1 THEN buffer[p - Seek(begin)] ELSE drive[p]]

Pattern == [k \in 0..size - 1 |-> <<"new", k>>]

\* What malloc returns: the buffer of the region before is free again.
Uninitialized == {Pattern, [k \in 0..size - 1 |-> Junk]}

\* Mutant: the pattern is written back.
WriteAndRestorePattern(begin, fails) ==
  \E old \in Uninitialized, back \in Uninitialized :
    LET written  == IF 2 \in fails THEN content ELSE Write(content, begin, Pattern)
        compared == IF 3 \in fails THEN back ELSE Read(written, begin, back)
        same     == compared = Pattern
    IN /\ content' = IF same /\ 4 \notin fails THEN Write(written, begin, Pattern) ELSE written
       /\ equal' = Append(equal, same)
       /\ unrestored' = IF same THEN unrestored
                        ELSE unrestored \cup (Seek(begin)..Seek(begin) + size - 1)

\* Read what is there, write the pattern, read it back; what was there is written
\* back only when the pattern was read.  fails has the calls that fail.
WriteAndRestore(begin, fails) ==
  \E old \in Uninitialized, back \in Uninitialized :
    LET saved    == IF 1 \in fails THEN old ELSE Read(content, begin, old)
        written  == IF 2 \in fails THEN content ELSE Write(content, begin, Pattern)
        compared == IF 3 \in fails THEN back ELSE Read(written, begin, back)
        same     == compared = Pattern
    IN /\ content' = IF same /\ 4 \notin fails THEN Write(written, begin, saved) ELSE written
       /\ equal' = Append(equal, same)
       /\ unrestored' = IF same THEN unrestored
                        ELSE unrestored \cup (Seek(begin)..Seek(begin) + size - 1)

TestRegion ==
  /\ program = "drive" /\ driveAt = "regions"
  /\ \E r \in regions, fails \in {{}, {1}, {2}, {3}, {4}} :
       /\ ioFails + Cardinality(fails) <= MaxIoFails
       /\ ioFails' = ioFails + Cardinality(fails)
       /\ WriteAndRestore(r[2], fails)
       /\ regions' = regions \ {r}
       /\ driveAt' = IF regions' = {} THEN "verdict" ELSE "regions"
  /\ UNCHANGED <<program, report, request, todo, bad>>

\* Mutant: the drive passes only when the last region was found equal.
DriveVerdictLast == equal[3]

\* The results are joined with |, and compared with FALSE.
DriveVerdict == \E k \in DOMAIN equal : equal[k]

DriveReported ==
  /\ program = "drive" /\ driveAt = "verdict"
  /\ report' = customMessage(report, IF DriveVerdict THEN "Passed" ELSE "FAILED")
  /\ driveAt' = "next" /\ todo' = Tail(todo)
  /\ UNCHANGED <<program, request, regions, content, bad, equal, ioFails, unrestored>>

DriveDone ==
  /\ program = "drive" /\ driveAt = "next" /\ todo = <<>>
  /\ DriveEnds(report) /\ UNCHANGED request

DriveNext ==
  DriveStart \/ InvalidDrive \/ TestBlockDevice \/ TestRegion \/ DriveReported \/ DriveDone

-------------------------------------------------------------------------------
\* What is on a drive after it was tested is what was there before, except where a
\* region was found unequal: also where the regions of a small drive overlap.
DriveRestored ==
  ioFails = 0 /\ driveAt # "regions"
    => \A p \in Places \ (unrestored \cup bad) : content[p] = <<"old", p>>

\* No place of the region is faulty.
SoundRegion(begin) == \A k \in 0..size - 1 : begin + k \notin bad

\* A drive of which each region fits passes exactly if one of them has no faulty
\* place, whatever the others are like.  Where one does not fit, buffers that were
\* never filled are compared.
DriveVerdictHonest ==
  driveAt = "next" /\ equal # <<>> /\ ioFails = 0 /\ Center + size <= deviceSize
    /\ ~report.dropped
    => LET passed == \E begin \in {0, Center, Final} : SoundRegion(begin)
       IN report.TEST[Len(report.TEST)].status = <<IF passed THEN "Passed" ELSE "FAILED">>
===============================================================================
