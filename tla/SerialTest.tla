------------------------------- MODULE SerialTest -------------------------------
(***************************************************************************)
(* serialTest.c, serialTestFunctions.c and serialFunctions.c: bytes are    *)
(* written to a serial port with a loopback plug and read back, and the    *)
(* operator may have a failed test repeated.  The driver returns a byte    *)
(* some time after it was written; the program gives it 25 ms.             *)
(*                                                                         *)
(* An attempt that fails leaves its descriptor open, so the port is not    *)
(* closed before the program ends, and what was not read stays there.      *)
(***************************************************************************)
EXTENDS TestOutput

CONSTANTS
  Settings,    \* how many settings of the port are tested: baud rate, parity, stop bit
  patterns,    \* the bytes that are written at each setting
  MaxLateBytes,\* bound of the model: bytes that are late
  MaxRetries   \* bound of the model: how often the operator asks for a retry

\* The array patterns has two bytes, 0x55 and 0x7f.  With one byte, or one that occurs
\* twice, what an attempt left behind could pass for the answer of the next one.
ASSUME SerialAssumption ==
  /\ Settings \in Nat \ {0} /\ patterns \in Seq(Nat) /\ Len(patterns) > 1
  /\ \A k, l \in DOMAIN patterns : patterns[k] = patterns[l] => k = l

VARIABLES
  serialAt,    \* the next step
  opened,      \* was the port opened
  retry,       \* may the operator repeat the test
  plugged,     \* is the loopback plug there
  place,       \* <<setting, number of the pattern>>
  pending,     \* bytes the driver has still to return: [value, attempt]
  input,       \* bytes that can be read
  receiveChar, \* the byte that was read last; not initialized
  attempt,     \* history: the number of this attempt
  late,        \* history: how many bytes were late
  unplugged,   \* history: was there no plug when the attempt wrote a byte
  foreign      \* history: did it, after its first byte, take a byte of an attempt
               \* before, or none, for its own
serialVars == <<serialAt, opened, retry, plugged, place, pending, input, receiveChar, attempt,
                late, unplugged, foreign>>

FirstPlace == <<1, 1>>
LastPlace  == <<Settings, Len(patterns)>>

SerialInit ==
  /\ serialAt = "idle" /\ opened = FALSE /\ retry = TRUE /\ plugged = TRUE /\ place = FirstPlace
  /\ pending = <<>> /\ input = <<>> /\ receiveChar = 0 /\ attempt = 0
  /\ late = 0 /\ unplugged = FALSE /\ foreign = FALSE

SerialStart ==
  /\ program = "ready" /\ program' = "serial" /\ report' = Before
  /\ serialAt' = "open" /\ opened' = FALSE /\ retry' \in BOOLEAN /\ plugged' \in BOOLEAN
  /\ place' = FirstPlace /\ pending' = <<>> /\ input' = <<>>
  /\ receiveChar' \in {patterns[k] : k \in DOMAIN patterns}
  /\ attempt' = 0 /\ late' = 0 /\ unplugged' = FALSE /\ foreign' = FALSE

\* serial_test begins.
OpenSerialPort ==
  /\ program = "serial" /\ serialAt = "open"
  /\ serialAt' = "write" /\ opened' \in BOOLEAN
  /\ report' = diagnosticPrint(report, "Beginning")
  /\ place' = FirstPlace /\ attempt' = attempt + 1
  /\ unplugged' = FALSE /\ foreign' = FALSE
  /\ UNCHANGED <<program, retry, plugged, pending, input, receiveChar, late>>

\* A port that could not be opened cannot be written to.
WriteFails ==
  /\ program = "serial" /\ serialAt = "write" /\ ~opened
  /\ serialAt' = "failed"
  /\ UNCHANGED <<program, report, opened, retry, plugged, place, pending, input,
                 receiveChar, attempt, late, unplugged, foreign>>

\* A byte is written; without the plug it is lost.  Bytes keep their order.
SerialPortWrite ==
  LET byte == [value |-> patterns[place[2]], attempt |-> attempt] IN
  /\ program = "serial" /\ serialAt = "write" /\ opened
  /\ serialAt' = "read"
  /\ \/ /\ plugged /\ input' = Append(input \o pending, byte) /\ pending' = <<>>
        /\ UNCHANGED late
     \/ /\ plugged /\ late < MaxLateBytes
        /\ pending' = Append(pending, byte) /\ late' = late + 1 /\ UNCHANGED input
     \/ ~plugged /\ UNCHANGED <<pending, input, late>>
  /\ unplugged' = (unplugged \/ ~plugged)
  /\ UNCHANGED <<program, report, opened, retry, plugged, place, receiveChar, attempt, foreign>>

\* The driver returns what was late.
ReturnLate ==
  /\ program = "serial" /\ pending # <<>>
  /\ input' = Append(input, Head(pending)) /\ pending' = Tail(pending)
  /\ UNCHANGED <<program, report, serialAt, opened, retry, plugged, place, receiveChar, attempt,
                 late, unplugged, foreign>>

NextPlace == IF place[2] < Len(patterns) THEN <<place[1], place[2] + 1>>
             ELSE <<place[1] + 1, 1>>

\* Mutant: any byte will do.
AcceptedAny(received, ret) == ret # -1

\* The byte is compared also when none was read.
Accepted(received, ret) == ret # -1 /\ received = patterns[place[2]]

\* read returns -1 or 0 when there is no byte, as the settings of the port have it.
\* A test that ends well flushes and closes the port.
SerialPortRead ==
  /\ program = "serial" /\ serialAt = "read"
  /\ \E ret \in (IF input = <<>> THEN {-1, 0} ELSE {1}) :
       /\ receiveChar' = IF ret = 1 THEN Head(input).value ELSE receiveChar
       /\ foreign' = \/ foreign
                     \/ place # FirstPlace /\ (ret # 1 \/ Head(input).attempt # attempt)
       /\ IF ~Accepted(receiveChar', ret)
          THEN /\ serialAt' = "failed"
               /\ input' = IF ret = 1 THEN Tail(input) ELSE input
               /\ report' = diagnosticPrint(report, "pattern")
               /\ UNCHANGED place
          ELSE IF place = LastPlace
          THEN /\ serialAt' = "passed" /\ input' = <<>>
               /\ report' = diagnosticPrint(diagnosticPrint(report, "pattern"), "Finished")
               /\ UNCHANGED place
          ELSE /\ serialAt' = "write" /\ place' = NextPlace
               /\ input' = IF ret = 1 THEN Tail(input) ELSE input
               /\ report' = diagnosticPrint(report, "pattern")
  /\ UNCHANGED <<program, opened, retry, plugged, pending, attempt, late, unplugged>>

\* The operator, who may put the plug in, has the test repeated.  The port is reset,
\* but is still open, so that nothing is discarded.
Retry ==
  /\ program = "serial" /\ serialAt = "failed" /\ retry /\ attempt <= MaxRetries
  /\ serialAt' = "open" /\ plugged' \in {plugged, TRUE}
  /\ UNCHANGED <<program, report, opened, retry, place, pending, input, receiveChar, attempt,
                 late, unplugged, foreign>>

\* test_com reports the last attempt.
SerialReport ==
  /\ program = "serial" /\ serialAt \in {"failed", "passed"}
  /\ program' = "none" /\ serialAt' = "idle"
  /\ report' = Verdict(report, "serial", serialAt = "passed")
  /\ UNCHANGED <<opened, retry, plugged, place, pending, input, receiveChar, attempt, late,
                 unplugged, foreign>>

SerialNext ==
  \/ SerialStart \/ OpenSerialPort \/ WriteFails \/ SerialPortWrite \/ ReturnLate
  \/ SerialPortRead \/ Retry \/ SerialReport

-------------------------------------------------------------------------------
\* A port passes only if each byte but the first that was compared was written in
\* that attempt: neither what was left of an attempt before, nor the value left in
\* receiveChar when nothing was read, makes it pass.  Once as many bytes are late as
\* there are patterns, those left of one setting match the next one.
PassedMeansEchoed == Reported("serial", "Passed") /\ late < Len(patterns) => ~foreign

\* A port that opens, with its plug in and no byte late, passes, whatever happened
\* in the attempts before.
SoundPortPasses ==
  serialAt = "failed" /\ late = 0 /\ ~unplugged => ~opened
===============================================================================
