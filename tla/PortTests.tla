-------------------------------- MODULE PortTests --------------------------------
(***************************************************************************)
(* The tests that only talk to an I/O port.  ledTest.c: a thread writes    *)
(* the wanted colour to the POST LEDs over and over, under                 *)
(* ledStatusChange, while the main thread asks the operator about one      *)
(* colour after the other.  mouseTest.c: commands are sent to the mouse    *)
(* and its answers polled for, at a port at which the bytes of the         *)
(* keyboard arrive as well.                                                *)
(***************************************************************************)
EXTENDS TestOutput

CONSTANT MaxKeys   \* bound of the model: bytes of the keyboard during the test

VARIABLES
  ledAt,         \* the main thread: asks about a colour, or changes to the next one
  ledStatus,     \* ledStatus: the colour that is wanted
  leds,          \* what the LEDs show
  handlerAt,     \* the place of the thread ledHandler
  mutex,         \* who holds ledStatusChange
  mouse,         \* how the mouse answers
  answers,       \* the bytes it still sends for the last command
  data,          \* the bytes that were read: [value, from]
  keys           \* history: how many bytes came from the keyboard
ledVars   == <<ledAt, ledStatus, leds, handlerAt, mutex>>
mouseVars == <<mouse, answers, data, keys>>

Colours == <<"green", "red", "yellow">>
NotAsking == [colour |-> 0, step |-> "none"]

PortInit ==
  /\ ledAt = NotAsking /\ ledStatus = "off" /\ leds = "off" /\ handlerAt = "none"
  /\ mutex = "free"
  /\ mouse = "good" /\ answers = <<>> /\ data = <<>> /\ keys = 0

-------------------------------------------------------------------------------
\* The LED test.  Its thread may not come into being.
LedStart ==
  /\ program = "ready"
  /\ \/ /\ program' = "led" /\ report' = Before /\ handlerAt' = "check"
        /\ ledAt' = [colour |-> 1, step |-> "ask"] /\ ledStatus' = "green"
     \/ /\ program' = "none" /\ report' = Verdict(Before, "LED", FALSE)
        /\ UNCHANGED << ledAt, ledStatus, handlerAt>>
  /\ UNCHANGED <<leds, mutex, mouseVars>>

LedEnds(passed) ==
  /\ program' = "none" /\ report' = Verdict(report, "LED", passed)
  /\ ledAt' = NotAsking /\ handlerAt' = "none" /\ mutex' = "free"

\* The operator answers; the process ends with its thread.
LedAnswer ==
  /\ program = "led" /\ ledAt.step = "ask"
  /\ \/ /\ ledAt.colour < 3 /\ ledAt' = [ledAt EXCEPT !.step = "change"]
        /\ UNCHANGED <<program, report, ledStatus, handlerAt, mutex>>
     \/ LedEnds(FALSE) /\ ledStatus' = IF ledAt.colour = 3 THEN "off" ELSE ledStatus
     \/ ledAt.colour = 3 /\ LedEnds(TRUE) /\ ledStatus' = "off"
  /\ UNCHANGED <<leds, mouseVars>>

\* Mutant: the colour that was asked about is set again.
LedChangeAgain ==
  /\ program = "led"
  /\ \/ /\ ledAt.step = "change" /\ mutex = "free" /\ mutex' = "main"
        /\ ledStatus' = Colours[ledAt.colour]
        /\ ledAt' = [ledAt EXCEPT !.step = "unlock"]
     \/ /\ ledAt.step = "unlock" /\ mutex' = "free" /\ UNCHANGED ledStatus
        /\ ledAt' = [colour |-> ledAt.colour + 1, step |-> "ask"]
  /\ UNCHANGED <<program, report, leds, handlerAt, mouseVars>>

LedChange ==
  /\ program = "led"
  /\ \/ /\ ledAt.step = "change" /\ mutex = "free" /\ mutex' = "main"
        /\ ledStatus' = Colours[ledAt.colour + 1]
        /\ ledAt' = [ledAt EXCEPT !.step = "unlock"]
     \/ /\ ledAt.step = "unlock" /\ mutex' = "free" /\ UNCHANGED ledStatus
        /\ ledAt' = [colour |-> ledAt.colour + 1, step |-> "ask"]
  /\ UNCHANGED <<program, report, leds, handlerAt, mouseVars>>

ledHandler ==
  /\ program = "led"
  /\ \/ /\ handlerAt = "check" /\ handlerAt' = IF ledStatus = "off" THEN "none" ELSE "lock"
        /\ UNCHANGED <<leds, mutex>>
     \/ /\ handlerAt = "lock" /\ mutex = "free" /\ mutex' = "handler" /\ handlerAt' = "write"
        /\ UNCHANGED leds
     \/ /\ handlerAt = "write" /\ leds' = ledStatus /\ handlerAt' = "unlock"
        /\ UNCHANGED mutex
     \/ /\ handlerAt = "unlock" /\ mutex' = "free" /\ handlerAt' = "check"
        /\ UNCHANGED leds
  /\ UNCHANGED <<program, report, ledAt, ledStatus, mouseVars>>

-------------------------------------------------------------------------------
\* The mouse test: five commands are acknowledged, the last one then tells status,
\* resolution and sample rate.  A test without a mouse polls for ever.
Ack == 250
Replies(n) == IF n < 5 THEN <<Ack>>
              ELSE <<Ack, 0, IF mouse = "good" THEN 2 ELSE 3, 100>>

MouseStart ==
  /\ program = "ready" /\ program' = "mouse" /\ report' = Before
  /\ mouse' \in {"none", "good", "other"} /\ keys' = 0 /\ data' = <<>>
  /\ answers' = IF mouse' = "none" THEN <<>> ELSE <<Ack>>
  /\ UNCHANGED ledVars

\* data[1] and data[2]
MouseAnswersRight(d) == d[7].value = 2 /\ d[8].value = 100

\* WaitObf, a read of the port, and the next command.
MouseRead ==
  /\ program = "mouse"
  /\ \E byte \in [value : {Ack, 30}, from : {"keyboard"}] \cup [value : 0..255, from : {"mouse"}] :
       /\ IF byte.from = "mouse"
          THEN answers # <<>> /\ byte.value = Head(answers) /\ UNCHANGED keys
          ELSE keys < MaxKeys /\ keys' = keys + 1
       /\ data' = Append(data, byte)
       /\ LET n == Len(data')
              rest == IF byte.from = "mouse" THEN Tail(answers) ELSE answers
          IN IF n <= 5 /\ byte.value # Ack
             THEN /\ program' = "none" /\ report' = Verdict(report, "mouse", FALSE)
                  /\ answers' = rest
             ELSE IF n = 8
             THEN /\ program' = "none" /\ answers' = rest
                  /\ report' = Verdict(report, "mouse", MouseAnswersRight(data'))
             ELSE /\ answers' = IF n < 5 /\ mouse # "none" THEN rest \o Replies(n + 1) ELSE rest
                  /\ UNCHANGED <<program, report>>
  /\ UNCHANGED <<mouse, ledVars>>

MousePolls == program = "mouse" /\ answers = <<>> /\ UNCHANGED <<program, report, ledVars, mouseVars>>

PortNext ==
  \/ LedStart \/ LedAnswer \/ LedChange \/ ledHandler
  \/ MouseStart \/ MouseRead \/ MousePolls

-------------------------------------------------------------------------------
\* While the operator is asked about a colour, the LEDs come to show it.
AskedColourShown ==
  \A c \in 1..3 : ledAt = [colour |-> c, step |-> "ask"]
                    ~> leds = Colours[c] \/ ledAt # [colour |-> c, step |-> "ask"]

\* Only a mouse that has the resolution and the rate it was given passes; a byte of
\* the keyboard that looks like an answer does not help another one to pass.
MousePassHonest == Reported("mouse", "Passed") => mouse = "good"
===============================================================================
