------------------------------- MODULE BoardSetup -------------------------------
(***************************************************************************)
(* How a session learns which board it tests: the first half of            *)
(* beginTesting (TDTestFunctions.c), the setters, getters and prompts of   *)
(* BoardInfo.c, the board.info file that outlives the process, and the     *)
(* server thread, which meanwhile takes the serial number, the finished    *)
(* good number and the initials from a client's broadcast                  *)
(* (default_broadcast) and logs clients in (user_authenticate).  Both      *)
(* threads query the database, as DatabaseQuery says.                      *)
(* No lock protects the fields of the board: to test one, to assign it and *)
(* to read it for a setter are three steps of either thread.  Initials are *)
(* copied in one.  A value is a number that says where it comes from.      *)
(***************************************************************************)
EXTENDS Naturals, DatabaseQuery

CONSTANTS
  MaxSessions,    \* bound of the model: times the machine is started
  MaxRequests,    \* bound of the model: broadcasts with data about the board, and logins
  Broadcasts      \* what the broadcasts of clients say about the board

ASSUME BoardAssumption ==
  /\ Users = {"main", "server"}
  /\ MaxSessions \in Nat /\ MaxRequests \in Nat

VARIABLES
  at,       \* where main is in beginTesting
  board,    \* boardStatusAndState.boardInfo, which both threads assign
  BoardInfo,\* the global structure of BoardInfo.c
  file,     \* board.info: absent, empty or a copy of BoardInfo
  args,     \* values were given on the command line
  held,     \* what main has in hand: an answer it has not assigned yet, a value that
            \* a setter has read, or the number it looks up
  prompt,   \* the question main waits for: none, sent, shown or closed by the server
  handleDefaultMessage,
  server,   \* the server thread: what it does, and with which message
  seen      \* history: see Seen
boardVars ==
  <<at, board, BoardInfo, file, args, held, prompt, handleDefaultMessage, server, seen>>
vars == <<queryVars, boardVars>>

\* Where a value comes from; 0 is an empty one.  A finished good number is in the database
\* or not; the number of the boot MAC is that of the session in which it was entered.
Argument == 1
Operator == 2
Client == 3
InDatabase == 1
NotInDatabase == 2

Info == [mac : 0..MaxSessions, serial : 0..Client, tester : 0..Client, rev : {0, Operator},
         fg : 0..NotInDatabase, name : 0..1]
NoInfo == [mac |-> 0, serial |-> 0, tester |-> 0, rev |-> 0, fg |-> 0, name |-> 0]
Absent == [kind |-> "absent", info |-> NoInfo]
Empty == [kind |-> "empty", info |-> NoInfo]
\* Of what the file holds, the model keeps what is read from it or compared with it.
Full(info) == [kind |-> "full", info |-> [info EXCEPT !.rev = 0, !.fg = 0, !.name = 0]]
Message == [serial : {0, Client}, fg : 0..NotInDatabase, rev : {0, Operator}, tester : {0, Client}]
ASSUME BroadcastAssumption == Broadcasts \subseteq Message
NoMessage == [serial |-> 0, fg |-> 0, rev |-> 0, tester |-> 0]
User == {u \in [known : BOOLEAN, privileged : BOOLEAN] : u.privileged => u.known}
Value == 0..MaxSessions \cup 0..Client
Shared == {"serial", "fg", "rev", "tester"}  \* the fields that both threads assign
Identity == {"serial", "tester"}
Server == [pc : Shared \cup {"off", "idle", "end", "password", "access", "reply"},
           step : {"test", "assign", "read", "tell"}, held : Value, msg : Message,
           user : User, found : [known : BOOLEAN, privileged : BOOLEAN], missed : BOOLEAN]
Stranger == [known |-> FALSE, privileged |-> FALSE]
Stopped == [pc |-> "off", step |-> "test", held |-> 0, msg |-> NoMessage, user |-> Stranger,
            found |-> Stranger, missed |-> FALSE]

\* started, requests: counted for the bounds; kept: the MAC in the file when the
\* last session was set up; dented: the file was cut short, could not be made anew, or was
\* written by the server before main had read it; heard: a client's serial number or
\* initials were taken over in this session; overruled: main put an answer in its place,
\* because it had asked again or because it had looked before; crossed: main assigned a
\* field, or went on with a number, while the server was about to assign it or to tell it;
\* login: the last client was let in, or not, rightly; unanswered: the query for the number
\* failed.
Seen == [started : Nat, requests : Nat, kept : 0..MaxSessions, dented : BOOLEAN,
         heard : SUBSET Identity, overruled : SUBSET Identity, crossed : SUBSET (Shared \ {"rev"}),
         login : BOOLEAN, unanswered : BOOLEAN]

Init ==
  /\ QueryInit
  /\ at = "off" /\ board = NoInfo /\ BoardInfo = NoInfo /\ file = Absent /\ args = FALSE
  /\ held = 0 /\ prompt = "none" /\ handleDefaultMessage = "notlocked"
  /\ server = Stopped
  /\ seen = [started |-> 0, requests |-> 0, kept |-> 0, dented |-> FALSE,
             heard |-> {}, overruled |-> {}, crossed |-> {}, login |-> TRUE,
             unanswered |-> FALSE]

Main(pc, next) == at = pc /\ at' = next
ServerQuiet == UNCHANGED <<handleDefaultMessage, server>>

-------------------------------------------------------------------------------
\* The machine is started, with an FG number on the command line or none, and goes down.
PowerOn ==
  /\ Main("off", "speed") /\ seen.started < MaxSessions
  /\ \E g \in BOOLEAN, fg \in 0..NotInDatabase :
       args' = g /\ board' = [NoInfo EXCEPT !.fg = fg]
  /\ BoardInfo' = NoInfo /\ held' = 0 /\ prompt' = "none"
  /\ handleDefaultMessage' = "notlocked" /\ server' = [Stopped EXCEPT !.pc = "idle"]
  /\ seen' = [seen EXCEPT !.started = @ + 1, !.heard = {}, !.overruled = {},
                          !.crossed = {}]
  /\ QueryLost /\ UNCHANGED file

PowerOff ==
  /\ Main(at, "off") /\ at # "off"
  /\ board' = NoInfo /\ BoardInfo' = NoInfo /\ args' = FALSE /\ held' = 0 /\ prompt' = "none"
  /\ handleDefaultMessage' = "notlocked" /\ server' = Stopped
  /\ seen' = [seen EXCEPT !.dented = @ \/ file.kind = "empty" \/ at \in {"zero", "update"},
                          !.heard = {}, !.overruled = {}, !.crossed = {}, !.login = TRUE,
                          !.unanswered = FALSE]
  /\ QueryLost /\ UNCHANGED file

-------------------------------------------------------------------------------
\* updateBoardInfo: a field of BoardInfo is set and, with updateBoardInfoFile, the file
\* takes all of BoardInfo, if there is a file and it can be opened and written; nobody asks
\* whether it could.  updateBOMRev takes nothing but '0' and '\0', which leave BoardInfo
\* without a revision.
Accepts(field, value) == field \in {"tester", "name"} => value # 0
Updated(field, value) == IF field = "rev" THEN BoardInfo ELSE [BoardInfo EXCEPT ![field] = value]
FileTakes(info) == UNCHANGED file \/ (file.kind # "absent" /\ file' = Full(info))
Set(field, value) ==
  IF Accepts(field, value)
  THEN BoardInfo' = Updated(field, value) /\ FileTakes(Updated(field, value))
  ELSE UNCHANGED <<BoardInfo, file>>

\* main runs a query and takes its result.
Query(pc, counts) ==
  /\ at = pc /\ QueryBegins("main", counts)
  /\ UNCHANGED boardVars
Gives(pc, results) == at = pc /\ \E r \in results : QueryGives("main", r)

\* promptUser: the question is sent to the listener, shown to the clients, and answered by
\* an operator or closed by the server, which answers with nothing.
Ask(pc, next) == Main(pc, next) /\ prompt' = "sent"
Asking == {"ask_speed", "ask_mac", "ask_tester", "reask_tester", "ask_serial", "reask_serial", "ask_rev",
           "reask_rev", "ask_fg", "reask_fg", "ask_retry", "ask_name"}
Show ==
  /\ at \in Asking /\ prompt = "sent" /\ prompt' = "shown"
  /\ Unqueried /\ ServerQuiet /\ UNCHANGED <<at, board, BoardInfo, file, args, held, seen>>
Answers(pc, a) == at = pc /\ (prompt = "shown" \/ (prompt = "closed" /\ a = 0))

-------------------------------------------------------------------------------
\* getProcessorSpeed: the operator is asked when /proc/cpuinfo does not tell.
GetProcessorSpeed ==
  /\ \/ Main("speed", "lookup") /\ UNCHANGED prompt
     \/ Ask("speed", "ask_speed")
  /\ Unqueried /\ ServerQuiet /\ UNCHANGED <<board, BoardInfo, file, args, held, seen>>
SpeedEntered ==
  /\ \E a \in {0, Operator} : Answers("ask_speed", a)
  /\ at' = "lookup" /\ prompt' = "none"
  /\ Unqueried /\ ServerQuiet /\ UNCHANGED <<board, BoardInfo, file, args, held, seen>>

-------------------------------------------------------------------------------
\* The MAC: two queries, whose result is not used, then board.info; a file that is cut off
\* or a new one leaves it open whether the operator is asked (getBoardInfoFromFile tests an
\* uninitialized value, getAuto returns none).
LookUp == Query("lookup", FALSE)
LookedUp ==
  /\ Gives("lookup", {"ok", "wrong", "zero", "failed"})
  /\ at' = "read"
  /\ ServerQuiet /\ UNCHANGED <<board, BoardInfo, file, args, held, prompt, seen>>

MayAsk ==
  at' \in {"setmac", "ask_mac"} /\ prompt' = (IF at' = "ask_mac" THEN "sent" ELSE "none")
ReadBoardInfoFile ==
  /\ at = "read"
  /\ \/ /\ file.kind = "full"
        /\ board' = [board EXCEPT !.mac = file.info.mac]
        /\ BoardInfo' = Updated("mac", file.info.mac)
        /\ at' = "setmac" /\ UNCHANGED prompt
     \/ file.kind = "empty" /\ MayAsk /\ UNCHANGED <<board, BoardInfo>>
     \/ file.kind = "absent" /\ at' = "create" /\ UNCHANGED <<prompt, board, BoardInfo>>
  /\ Unqueried /\ ServerQuiet /\ UNCHANGED <<file, args, held, seen>>

\* initBoardInfoFile: the file is created or cut off, then filled with zeros; nobody asks
\* whether either could be done.
Truncate(pc, next) == Main(pc, next) /\ file' = Empty
FillWithZeros(pc) == at = pc /\ file' \in {file, Full(NoInfo)}
InitBoardInfoFile ==
  /\ \/ Truncate("create", "created") /\ UNCHANGED prompt
     \/ at = "create" /\ UNCHANGED file /\ MayAsk
     \/ FillWithZeros("created") /\ MayAsk
     \/ Truncate("truncate", "zero") /\ UNCHANGED prompt
     \/ Main("truncate", "update") /\ UNCHANGED <<file, prompt>>
     \/ FillWithZeros("zero") /\ at' = "update" /\ UNCHANGED prompt
  /\ Unqueried /\ ServerQuiet /\ UNCHANGED <<board, BoardInfo, args, held, seen>>

BootMacEntered ==
  /\ \E mac \in {0, seen.started} :
       Answers("ask_mac", mac) /\ board' = [board EXCEPT !.mac = mac]
  /\ at' = "setmac" /\ prompt' = "none"
  /\ Unqueried /\ ServerQuiet /\ UNCHANGED <<BoardInfo, file, args, held, seen>>

-------------------------------------------------------------------------------
\* The setters main calls one after the other, and the wait for a client's broadcast.  A
\* setter reads the field of the board, then sets that of BoardInfo.
NextSetter == [setmac |-> "wait", settester |-> "setrev", setrev |-> "setserial",
               setserial |-> "setfg", setfg |-> "fg", setname |-> "truncate"]
FieldSet == [setmac |-> "mac", settester |-> "tester", setrev |-> "rev",
             setserial |-> "serial", setfg |-> "fg", setname |-> "name"]
Store == [setmac |-> "store_mac", settester |-> "store_tester", setrev |-> "store_rev",
          setserial |-> "store_serial", setfg |-> "store_fg", setname |-> "store_name"]
CallSetter ==
  /\ \E s \in DOMAIN NextSetter :
       \/ Main(s, Store[s]) /\ held' = board[FieldSet[s]] /\ UNCHANGED <<BoardInfo, file>>
       \/ Main(Store[s], NextSetter[s]) /\ Set(FieldSet[s], held) /\ held' = 0
  /\ Unqueried /\ ServerQuiet /\ UNCHANGED <<board, args, prompt, seen>>

WaitForBroadcast ==
  /\ Main("wait", "tester") /\ handleDefaultMessage = "false"
  /\ Unqueried /\ ServerQuiet /\ UNCHANGED <<board, BoardInfo, file, args, held, prompt, seen>>

\* main assigns what it has in hand.  The server may have looked at the field before, and
\* assign it afterwards; or it may have read it, and tell BoardInfo what it was.
Put == [tester |-> "put_tester", serial |-> "put_serial", rev |-> "put_rev", fg |-> "put_fg"]
NextPlace == [tester |-> "serial", serial |-> "rev", rev |-> "settester", fg |-> "fg"]
Crossing(f) == IF server.pc = f /\ server.step \in {"assign", "tell"} THEN {f} \ {"rev"} ELSE {}
Assign(f) ==
  /\ Main(Put[f], NextPlace[f])
  /\ board' = [board EXCEPT ![f] = held] /\ held' = 0
  /\ seen' = [seen EXCEPT !.crossed = @ \cup Crossing(f)]
  /\ Unqueried /\ ServerQuiet /\ UNCHANGED <<BoardInfo, file, args, prompt>>

\* The initials and the serial number: what is there, the command line's, or the operator's.
FirstPrompt == [tester |-> "ask_tester", serial |-> "ask_serial"]
SecondPrompt == [tester |-> "reask_tester", serial |-> "reask_serial"]
Fill(f) ==
  /\ \/ Main(f, NextPlace[f]) /\ board[f] # 0 /\ UNCHANGED <<held, prompt>>
     \/ Main(f, Put[f]) /\ board[f] = 0 /\ args /\ held' = Argument /\ UNCHANGED prompt
     \/ board[f] = 0 /\ ~args /\ Ask(f, FirstPrompt[f]) /\ UNCHANGED held
  /\ Unqueried /\ ServerQuiet /\ UNCHANGED <<board, BoardInfo, file, args, seen>>

\* The first answer gives way to what BoardInfo has from the client.  What is not valid
\* makes main ask again, and then BoardInfo is not looked at; a client's number may be
\* invalid as well, for it has lost its leading zeros, and so may initials that are long.
Enter(f, value, late) ==
  /\ held' = value /\ at' = Put[f] /\ prompt' = "none"
  /\ seen' = IF late THEN [seen EXCEPT !.overruled = @ \cup ({f} \cap seen.heard)] ELSE seen
AskAgain(pc) == at' = pc /\ prompt' = "sent" /\ UNCHANGED <<held, seen>>
Untold(f) == server.pc = f /\ server.step \in {"read", "tell"}
Answered(f) ==
  /\ \E a \in {0, Operator} :
       \/ /\ Answers(FirstPrompt[f], a)
          /\ IF BoardInfo[f] # 0 THEN Enter(f, BoardInfo[f], FALSE) \/ AskAgain(SecondPrompt[f])
             ELSE IF a # 0 THEN Enter(f, a, Untold(f)) ELSE AskAgain(SecondPrompt[f])
       \/ /\ Answers(SecondPrompt[f], a)
          /\ IF a # 0 THEN Enter(f, a, TRUE) ELSE AskAgain(SecondPrompt[f])
  /\ Unqueried /\ ServerQuiet /\ UNCHANGED <<board, BoardInfo, file, args>>

\* The revision: nothing is done with the argument, BoardInfo never has one, and the second
\* answer stands whatever it is, the character '\0' too.
FillRevision ==
  /\ at = "rev"
  /\ IF board.rev = 0 /\ ~args THEN Ask("rev", "ask_rev") ELSE at' = "settester" /\ UNCHANGED prompt
  /\ Unqueried /\ ServerQuiet /\ UNCHANGED <<board, BoardInfo, file, args, held, seen>>
RevisionAnswered ==
  /\ \E a \in {0, Operator} :
       \/ Answers("ask_rev", a) /\ a = 0 /\ AskAgain("reask_rev")
       \/ /\ (Answers("ask_rev", a) /\ a # 0) \/ Answers("reask_rev", a)
          /\ Enter("rev", Operator, FALSE)
  /\ Unqueried /\ ServerQuiet /\ UNCHANGED <<board, BoardInfo, file, args>>

-------------------------------------------------------------------------------
\* The finished good number: it is looked up until it is found or the operator gives up; a
\* number that BoardInfo has is taken in place of the operator's.
\* main looks twice whether there is a number, and does not look up one that came between.
NumberUnset ==
  /\ \/ /\ Main("fg", "unset") /\ query["main"].pc = "idle" /\ board.fg = 0
        /\ UNCHANGED <<prompt, seen>>
     \/ board.fg = 0 /\ Ask("unset", "ask_fg") /\ UNCHANGED seen
     \/ /\ Main("unset", "name") /\ board.fg # 0 /\ UNCHANGED prompt
        /\ seen' = [seen EXCEPT !.crossed = @ \cup {"fg"}]
  /\ Unqueried /\ ServerQuiet /\ UNCHANGED <<board, BoardInfo, file, args, held>>

CheckNumber ==
  /\ at = "fg" /\ board.fg # 0 /\ held' = board.fg /\ QueryBegins("main", TRUE)
  /\ ServerQuiet /\ UNCHANGED <<at, board, BoardInfo, file, args, prompt, seen>>
\* databaseIsValidFinishedGoodNumber: a query that fails finds no number.
\* Mutant: a query that fails leaves the number as it is.
ValidUnlessRefuted(r) == IF r = "ok" THEN held = InDatabase ELSE r \in {"wrong", "failed"}
Valid(r) == IF r = "ok" THEN held = InDatabase ELSE r = "wrong"
Invalid(r) == IF r = "ok" THEN held # InDatabase ELSE TRUE
NumberChecked ==
  /\ at = "fg"
  /\ \E r \in {"ok", "wrong", "zero", "failed"} :
       /\ QueryGives("main", r)
       /\ \/ Valid(r) /\ at' = "name" /\ UNCHANGED <<prompt, seen>>
          \/ /\ Invalid(r) /\ Ask("fg", "ask_retry")
             /\ seen' = [seen EXCEPT !.unanswered = r = "failed"]
  /\ held' = 0 /\ ServerQuiet /\ UNCHANGED <<board, BoardInfo, file, args>>

RetryAnswered ==
  /\ \E retry \in {0, 1} :
       /\ Answers("ask_retry", retry)
       /\ at' = IF retry = 1 THEN "ask_fg" ELSE "failed"
       /\ prompt' = IF retry = 1 THEN "sent" ELSE "none"
       /\ seen' = [seen EXCEPT !.unanswered = @ /\ retry = 0]
  /\ Unqueried /\ ServerQuiet /\ UNCHANGED <<board, BoardInfo, file, args, held>>

NumberEntered ==
  /\ \E a \in 0..NotInDatabase :
       \/ /\ Answers("ask_fg", a)
          /\ IF BoardInfo.fg # 0 THEN Enter("fg", BoardInfo.fg, FALSE) \/ AskAgain("reask_fg")
             ELSE IF a # 0 THEN Enter("fg", a, FALSE) ELSE AskAgain("reask_fg")
       \/ /\ Answers("reask_fg", a)
          /\ IF a # 0 THEN Enter("fg", a, FALSE) ELSE AskAgain("reask_fg")
  /\ Unqueried /\ ServerQuiet /\ UNCHANGED <<board, BoardInfo, file, args>>

-------------------------------------------------------------------------------
\* The name of the board, from the database or the operator, and the file made anew.
LookUpName == Query("name", FALSE)
NameLookedUp ==
  /\ \/ /\ Gives("name", {"ok", "wrong"}) /\ at' = "setname"
        /\ board' = [board EXCEPT !.name = 1] /\ UNCHANGED prompt
     \/ Gives("name", {"zero", "failed"}) /\ Ask("name", "ask_name") /\ UNCHANGED board
  /\ ServerQuiet /\ UNCHANGED <<BoardInfo, file, args, held, seen>>

NameEntered ==
  /\ \E a \in {0, 1} : Answers("ask_name", a) /\ board' = [board EXCEPT !.name = a]
  /\ at' = "setname" /\ prompt' = "none"
  /\ Unqueried /\ ServerQuiet /\ UNCHANGED <<BoardInfo, file, args, held, seen>>

\* Mutant: the file made anew is left to the next setter.
KeepsZeros ==
  /\ Main("update", "done")
  /\ seen' = [seen EXCEPT !.kept = board.mac, !.dented = FALSE]
  /\ Unqueried /\ ServerQuiet /\ UNCHANGED <<board, BoardInfo, file, args, held, prompt>>

UpdateBoardInfoFile ==
  /\ Main("update", "done")
  /\ FileTakes(BoardInfo)
  /\ seen' = [seen EXCEPT !.kept = board.mac, !.dented = file' # Full(BoardInfo)]
  /\ Unqueried /\ ServerQuiet /\ UNCHANGED <<board, BoardInfo, args, held, prompt>>

-------------------------------------------------------------------------------
\* default_broadcast, in the server thread: each value is taken over when the board has
\* none, then BoardInfo and the file are told and an open question is closed.
ServerRuns(next) ==
  server' = next /\ UNCHANGED <<at, args, held>>
\* Until main has waited for a broadcast, one with nothing to take over does nothing but
\* assign handleDefaultMessage, and main waits for its end.
Awaited == at \in {"speed", "ask_speed", "lookup", "read", "create", "created", "ask_mac",
                   "setmac", "store_mac", "wait"}
Broadcast ==
  /\ server.pc = "idle" /\ handleDefaultMessage' = "true"
  /\ \E m \in Broadcasts :
       /\ \/ m = NoMessage /\ Awaited /\ UNCHANGED seen
          \/ /\ m # NoMessage \/ ~Awaited
             /\ seen.requests < MaxRequests /\ seen' = [seen EXCEPT !.requests = @ + 1]
       /\ ServerRuns([server EXCEPT !.pc = "serial", !.msg = m])
  /\ Unqueried /\ UNCHANGED <<board, BoardInfo, file, prompt>>

\* The address in the broadcast is malformed: default_broadcast returns ERROR.
MalformedBroadcast ==
  /\ server.pc = "idle" /\ Awaited /\ handleDefaultMessage' = "true"
  /\ Unqueried /\ UNCHANGED <<at, board, BoardInfo, file, args, held, prompt, server, seen>>

\* The server tests a field, assigns it, reads it for the setter and tells BoardInfo.
\* Initials that are not there are taken over as well: they are cleared, and nobody is told.
\* What was served is forgotten.
NextValue == [serial |-> "fg", fg |-> "rev", rev |-> "tester", tester |-> "end"]
Serving(f, step) == server.pc = f /\ server.step = step
Served(f) == [server EXCEPT !.pc = NextValue[f], !.step = "test", !.held = 0, !.msg[f] = 0]
TakeOver(f) ==
  /\ \/ /\ Serving(f, "test") /\ UNCHANGED <<board, seen>>
        /\ ServerRuns(IF board[f] = 0 /\ (server.msg[f] # 0 \/ f = "tester")
                      THEN [server EXCEPT !.step = "assign"] ELSE Served(f))
     \/ /\ Serving(f, "assign") /\ board' = [board EXCEPT ![f] = server.msg[f]]
        /\ IF server.msg[f] = 0 THEN ServerRuns(Served(f)) /\ UNCHANGED seen
           ELSE /\ ServerRuns([server EXCEPT !.step = "read"])
                /\ seen' = [seen EXCEPT !.heard = @ \cup ({f} \cap Identity),
                     !.overruled = IF at = Put[f] THEN @ \cup ({f} \cap Identity) ELSE @]
  /\ Unqueried /\ UNCHANGED <<BoardInfo, file, prompt, handleDefaultMessage>>

notifyUserToCloseMessageBox == prompt' = IF prompt = "shown" THEN "closed" ELSE prompt
Tell(f) ==
  /\ \/ /\ Serving(f, "read") /\ ServerRuns([server EXCEPT !.step = "tell", !.held = board[f]])
        /\ UNCHANGED <<BoardInfo, file, prompt, seen>>
     \/ /\ Serving(f, "tell") /\ ServerRuns(Served(f))
        /\ Set(f, server.held) /\ notifyUserToCloseMessageBox
        /\ seen' = [seen EXCEPT !.dented =
             @ \/ (file'.info.mac # file.info.mac /\ seen.kept # 0)]
  /\ Unqueried /\ UNCHANGED <<board, handleDefaultMessage>>

BroadcastEnds ==
  /\ server.pc = "end" /\ handleDefaultMessage' = "false"
  /\ ServerRuns([server EXCEPT !.pc = "idle", !.msg = NoMessage])
  /\ Unqueried /\ UNCHANGED <<board, BoardInfo, file, prompt, seen>>

\* user_authenticate: whether the user is known, then the level of access; a query that
\* fails finds no user and gives the level of production.
LogIn ==
  /\ server.pc = "idle" /\ seen.requests < MaxRequests
  /\ seen' = [seen EXCEPT !.requests = @ + 1]
  /\ \E u \in User : ServerRuns([server EXCEPT !.pc = "password", !.user = u, !.found = Stranger, !.missed = FALSE])
  /\ Unqueried /\ UNCHANGED <<board, BoardInfo, file, prompt, handleDefaultMessage>>

Question == [password |-> "known", access |-> "privileged"]
NextQuestion == [password |-> "access", access |-> "reply"]
AskDatabase ==
  /\ server.pc \in DOMAIN Question /\ QueryBegins("server", server.pc = "password")
  /\ UNCHANGED boardVars
DatabaseAnswers ==
  /\ server.pc \in DOMAIN Question
  /\ \E r \in {"ok", "wrong", "zero", "failed"}, yes \in BOOLEAN :
       /\ QueryGives("server", r)
       /\ CASE r = "ok" -> yes = server.user[Question[server.pc]]
            [] r = "wrong" -> TRUE
            [] OTHER -> ~yes
       /\ ServerRuns([server EXCEPT !.pc = NextQuestion[server.pc],
                                    !.found = [@ EXCEPT ![Question[server.pc]] = yes],
                                    !.missed = @ \/ r # "ok"])
  /\ UNCHANGED <<board, BoardInfo, file, prompt, handleDefaultMessage, seen>>

Granted == server.found.known /\ server.found.privileged
Reply ==
  /\ server.pc = "reply"
  /\ seen' = [seen EXCEPT !.login =
       \/ trouble.overlapped
       \/ Granted = (server.user.known /\ server.user.privileged)
       \/ server.missed /\ ~Granted]
  /\ ServerRuns([Stopped EXCEPT !.pc = "idle"])
  /\ Unqueried /\ UNCHANGED <<board, BoardInfo, file, prompt, handleDefaultMessage>>

-------------------------------------------------------------------------------
Next ==
  \/ PowerOn \/ PowerOff \/ Show
  \/ GetProcessorSpeed \/ SpeedEntered
  \/ LookUp \/ LookedUp \/ ReadBoardInfoFile \/ InitBoardInfoFile \/ BootMacEntered
  \/ CallSetter \/ WaitForBroadcast
  \/ (\E f \in Identity : Fill(f) \/ Answered(f)) \/ (\E f \in Shared : Assign(f))
  \/ FillRevision \/ RevisionAnswered
  \/ NumberUnset \/ CheckNumber \/ NumberChecked \/ RetryAnswered \/ NumberEntered
  \/ LookUpName \/ NameLookedUp \/ NameEntered \/ UpdateBoardInfoFile
  \/ Broadcast \/ MalformedBroadcast \/ BroadcastEnds
  \/ \E f \in Shared : TakeOver(f) \/ Tell(f)
  \/ LogIn \/ AskDatabase \/ DatabaseAnswers \/ Reply

Spec == Init /\ [][Next]_vars

-------------------------------------------------------------------------------
\* Every variable has its type.
TypeOK ==
  /\ QueryTypeOK
  /\ board \in Info /\ BoardInfo \in Info
  /\ file \in [kind : {"absent", "empty", "full"}, info : Info]
  /\ args \in BOOLEAN /\ held \in Value /\ prompt \in {"none", "sent", "shown", "closed"}
  /\ handleDefaultMessage \in {"notlocked", "true", "false"}
  /\ server \in Server /\ seen \in Seen

\* Testing goes on only with a finished good number that is in the database, and the
\* operator is told that a number is wrong only when it is not there or a call of the
\* driver failed (TDTestFunctions.c:1003-1035), as long as the queries of the two threads,
\* which share one connection with no lock, did not overlap, and no client's number came
\* between main's tests of the number or, after main had assigned one, from a broadcast
\* whose test came before.
FgJudgedRight ==
  ~trouble.overlapped /\ "fg" \notin seen.crossed =>
    /\ at \in {"name", "ask_name", "setname", "store_name", "truncate", "zero", "update",
               "done"} => board.fg = InDatabase
    /\ at \in {"ask_retry", "failed"} => board.fg = NotInDatabase \/ seen.unanswered

\* When the data of the board is complete (TDTestFunctions.c:1046), the board, BoardInfo
\* and the file name the same MAC, serial number and tester, whatever a client's broadcast
\* changed in between, and the last two are not empty; except the file, when it could not
\* be made anew, and a field that main assigned just when the server, which had looked
\* before, was about to assign it (or to clear the initials), or had read it to tell BoardInfo.
RecordsAgree ==
  at = "done" => \A f \in {"mac", "serial", "tester"} \ seen.crossed :
    /\ board[f] = BoardInfo[f] /\ (~seen.dented => board[f] = file.info[f])
    /\ f # "mac" => board[f] # 0

\* A serial number or initials that a client sent and the board took over are those the
\* board is tested under ("got it from the client", BoardInfo.c:814, 876), unless main had
\* asked a second time or had looked before the broadcast had assigned and told them; also
\* when the two threads' assignments crossed.
ClientHonoured ==
  at = "done" => \A f \in seen.heard \ seen.overruled : board[f] = Client

\* The boot MAC that the file of a finished session holds is the one of the next session
\* (getBoardInfoFromFile), unless the machine went down while the file was made anew, this
\* failed, or a broadcast, which writes all of BoardInfo, came before main had read the file.
MacKept ==
  seen.kept # 0 /\ ~seen.dented /\ at \notin {"off", "speed", "ask_speed", "lookup", "read"} =>
    board.mac = seen.kept

\* A client is let in if and only if both queries find him, a failed one finding nobody.
LoginHonest == seen.login

\* The records of the board are right when its data is complete, and those of the next
\* session: they agree, they hold what a client said, and the file gives its MAC back.
RecordsInv == TypeOK /\ RecordsAgree /\ ClientHonoured /\ MacKept

\* What a query is asked to decide is decided by what is in the database, also when calls
\* of the driver fail (DBFunc.c:258, 1314-1490): numbers and logins.
JudgedRight == FgJudgedRight /\ LoginHonest
===============================================================================
