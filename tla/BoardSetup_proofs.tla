------------------------- MODULE BoardSetup_proofs -------------------------
(***************************************************************************)
(* Proofs that the records of the board agree and hold what a client said  *)
(* when testing begins, that its boot MAC outlives the process, and that   *)
(* numbers and logins are judged by what is in the database: for any       *)
(* number of sessions, broadcasts, logins and failing calls of the driver. *)
(* Then, what those queries rest on: the database connection is fit for    *)
(* the next query whenever no query runs, and keeps the promise of         *)
(* DatabaseQuery, for any callers and any number of failures.              *)
(***************************************************************************)
EXTENDS BoardSetup, DatabaseConnection, TLAPS

\* The places of main: until it has read the file, until BoardInfo has the MAC, until the
\* value of a field is settled, and until the setter of the field was called.
Reading == {"off", "speed", "ask_speed", "lookup", "read"}
Making == {"create", "created", "ask_mac"}
Opening == Reading \cup Making \cup {"setmac", "store_mac"}
OfTester == {"wait", "tester", "ask_tester", "reask_tester", "put_tester"}
OfSerial == {"serial", "ask_serial", "reask_serial", "put_serial"}
Filling(f) == Opening \cup OfTester \cup (IF f = "tester" THEN {} ELSE OfSerial)
Unset(f) ==
  Opening \cup OfTester \cup OfSerial
    \cup {"rev", "ask_rev", "reask_rev", "put_rev", "settester", "store_tester"}
    \cup (IF f = "tester" THEN {} ELSE {"setrev", "store_rev", "setserial", "store_serial"})
Places ==
  Opening \cup OfTester \cup OfSerial
    \cup {"rev", "ask_rev", "reask_rev", "put_rev", "settester", "store_tester",
          "setrev", "store_rev", "setserial", "store_serial", "setfg", "store_fg",
          "fg", "unset", "ask_fg", "reask_fg", "put_fg", "ask_retry", "failed",
          "name", "ask_name", "setname", "store_name", "truncate", "zero", "update", "done"}
Storing(f) == IF f = "tester" THEN "store_tester" ELSE "store_serial"
Putting(f) == IF f = "tester" THEN "put_tester" ELSE "put_serial"

\* What the threads have in hand fits the field it is for.
HeldTyped ==
  /\ at = "store_mac" => held \in 0..MaxSessions
  /\ at \in {"put_serial", "put_tester", "store_serial", "store_tester"} => held \in 0..Client
  /\ at = "put_rev" => held \in {0, Operator}
  /\ at \in {"put_fg", "store_fg"} => held \in 0..NotInDatabase
  /\ at = "store_name" => held \in 0..1
  /\ server.step = "tell" /\ server.pc \in Identity => server.held \in 0..Client
  /\ server.step = "tell" /\ server.pc = "fg" => server.held \in 0..NotInDatabase
AllTypes ==
  /\ TypeOK /\ at \in Places /\ seen.started <= MaxSessions
  /\ HeldTyped /\ (server.pc \in Shared \/ server.step = "test")

\* BoardInfo has the MAC of the board, or its setter has it in hand.
MacSet ==
  /\ at \notin Opening => BoardInfo.mac = board.mac
  /\ at = "store_mac" => held = board.mac

\* Until main has settled the value of a field, the board has it from a client or not at
\* all, and BoardInfo too, unless the server has yet to tell it.
Unfilled(f) ==
  at \in Filling(f) =>
    /\ f \notin seen.crossed
    /\ board[f] = (IF f \in seen.heard THEN Client ELSE 0)
    /\ BoardInfo[f] # 0 => BoardInfo[f] = board[f]
    /\ f \in seen.heard /\ BoardInfo[f] = 0 => Untold(f)
    /\ Untold(f) => f \in seen.heard
    /\ Serving(f, "tell") => server.held = board[f]
\* What main is about to assign is what a client said, unless that is overruled.
InHand(f) ==
  at = Putting(f) => held # 0 /\ (f \in seen.heard \ seen.overruled => held = Client)
\* Then the board keeps what it has from a client, and, unless the assignments crossed, has
\* a value that the server leaves alone.
Filled(f) ==
  at \notin Filling(f) =>
    /\ f \in seen.heard \ seen.overruled => board[f] = Client
    /\ f \notin seen.crossed =>
         board[f] # 0 /\ ~Serving(f, "assign") /\ (Serving(f, "tell") => server.held = board[f])
\* BoardInfo has it too once the setter was called.
Stored(f) ==
  f \notin seen.crossed =>
    /\ at = Storing(f) => held = board[f]
    /\ at \notin Unset(f) => BoardInfo[f] = board[f]
FieldRight(f) ==
  /\ Serving(f, "assign") => f \notin seen.heard
  /\ f \in seen.heard => board[f] # 0
  /\ Unfilled(f) /\ InHand(f) /\ Filled(f) /\ Stored(f)

\* The file that was made anew has what BoardInfo has, except where assignments crossed.
FileTold ==
  at = "done" /\ ~seen.dented =>
    \A f \in {"mac", "serial", "tester"} \ seen.crossed : file.info[f] = BoardInfo[f]

\* The file has the MAC of the session before, until it is made anew, and the board has it
\* from there.
MacOutlives ==
  seen.kept # 0 /\ ~seen.dented =>
    /\ at \notin Making
    /\ at \notin {"zero", "update"} => file.kind = "full" /\ file.info.mac = seen.kept
    /\ at \notin Reading => board.mac = seen.kept /\ BoardInfo.mac = seen.kept

RecordsIInv ==
  /\ AllTypes
  /\ MacSet /\ FieldRight("serial") /\ FieldRight("tester")
  /\ FileTold /\ MacOutlives

\* Main runs queries at three places, the one for a number when there is one; it looks up
\* the number of the board, unless assignments crossed.
MainAsks ==
  /\ Running("main") => at \in {"lookup", "fg", "name"}
  /\ at = "fg" /\ Running("main") =>
       query["main"].counts /\ held # 0 /\ ("fg" \notin seen.crossed => board.fg = held)
\* The server leaves alone a number that is there.
FgKept == board.fg # 0 /\ "fg" \notin seen.crossed => ~Serving("fg", "assign")

\* What the server has found out about the user is right, and that he is not what he is not.
FoundOut(q) ==
  /\ server.found[q] => server.user[q]
  /\ ~server.missed => server.found[q] = server.user[q]
UserKnown ==
  ~trouble.overlapped =>
    /\ server.pc \in {"access", "reply"} => FoundOut("known")
    /\ server.pc = "reply" => FoundOut("privileged")

-------------------------------------------------------------------------------
Fields == {"mac", "serial", "tester", "rev", "fg", "name"}
File == [kind : {"absent", "empty", "full"}, info : Info]

\* What the file has of BoardInfo.
LEMMA FullOf ==
  ASSUME NEW info \in Info
  PROVE  /\ Full(info).kind = "full" /\ Full(info).info \in Info
         /\ \A f \in {"mac", "serial", "tester"} : Full(info).info[f] = info[f]
<1>. DEFINE kept == [info EXCEPT !.rev = 0, !.fg = 0, !.name = 0]
<1>1. Full(info).kind = "full" /\ Full(info).info = kept
  BY DEF Full
<1>2. kept \in Info
  <2>1. 0 \in 0..NotInDatabase /\ 0 \in 0..1
    BY DEF NotInDatabase
  <2>. QED
    BY <2>1 DEF Info
<1>3. kept.mac = info.mac /\ kept.serial = info.serial /\ kept.tester = info.tester
  BY DEF Info
<1>. HIDE DEF kept
<1>. QED
  BY <1>1, <1>2, <1>3

\* What a value that fits a field makes of BoardInfo and of the file.
Fits(f, v) ==
  /\ f = "mac" => v \in 0..MaxSessions
  /\ f \in {"serial", "tester"} => v \in 0..Client
  /\ f = "fg" => v \in 0..NotInDatabase
  /\ f = "name" => v \in 0..1
LEMMA SetRight ==
  ASSUME BoardInfo \in Info, file \in File, NEW f \in Fields, NEW v, Fits(f, v), Set(f, v)
  PROVE  /\ BoardInfo' \in Info /\ file' \in File
         /\ \A g \in Fields : g # f => BoardInfo'[g] = BoardInfo[g]
         /\ f \in {"mac", "serial", "fg"} \/ (f = "tester" /\ v # 0) => BoardInfo'[f] = v
         /\ f = "tester" /\ v = 0 => BoardInfo' = BoardInfo
         /\ file' = file \/ file' = Full(BoardInfo')
<1>1. CASE ~Accepts(f, v)
  BY <1>1 DEF Set, Accepts, Fields
<1>2. CASE Accepts(f, v)
  <2>. DEFINE b == Updated(f, v)
  <2>1. BoardInfo' = b /\ (file' = file \/ file' = Full(b))
    BY <1>2 DEF Set, FileTakes
  <2>2. b \in Info
    BY DEF Info, Fields, Fits, Updated
  <2>3. /\ f # "rev" => b[f] = v
        /\ \A g \in Fields : g # f => b[g] = BoardInfo[g]
    BY DEF Info, Fields, Updated
  <2>4. Full(b) \in File
    <3>1. Full(b).info \in Info
      BY <2>2, FullOf
    <3>. QED
      BY <3>1 DEF Full, File
  <2>5. ~(f = "tester" /\ v = 0)
    BY <1>2 DEF Accepts
  <2>. HIDE DEF b
  <2>. QED
    BY <2>1, <2>2, <2>3, <2>4, <2>5
<1>. QED
  BY <1>1, <1>2

\* The query variables keep their types.
LEMMA QueryTyped ==
  ASSUME QueryTypeOK,
         \/ Unqueried \/ QueryLost
         \/ \E u \in {"main", "server"}, counts \in BOOLEAN : QueryBegins(u, counts)
         \/ \E u \in {"main", "server"}, r \in {"ok", "wrong", "zero", "failed"} : QueryGives(u, r)
  PROVE  QueryTypeOK'
<1>. DEFINE Type == [pc : {"idle", "running", "back"}, counts : BOOLEAN, fault : BOOLEAN,
                     result : {"none", "ok", "wrong", "zero", "failed"}]
<1>1. NoQuery \in Type
  BY DEF NoQuery
<1>2. CASE Unqueried
  BY <1>2 DEF Unqueried, queryVars, QueryTypeOK
<1>3. CASE QueryLost
  BY <1>1, <1>3 DEF QueryLost, QueryTypeOK
<1>4. ASSUME NEW u \in {"main", "server"}, NEW counts \in BOOLEAN, QueryBegins(u, counts)
      PROVE  QueryTypeOK'
  <2>1. [NoQuery EXCEPT !.pc = "running", !.counts = counts] \in Type
    BY DEF NoQuery
  <2>2. query' \in [Users -> Type]
    BY <1>4, <2>1 DEF QueryBegins, QueryTypeOK
  <2>3. trouble' \in [overlapped : BOOLEAN, broken : BOOLEAN]
    BY <1>4 DEF QueryBegins, QueryTypeOK
  <2>. QED
    BY <2>2, <2>3 DEF QueryTypeOK
<1>5. ASSUME NEW u \in {"main", "server"}, NEW r \in {"ok", "wrong", "zero", "failed"}, QueryGives(u, r)
      PROVE  QueryTypeOK'
  BY <1>1, <1>5 DEF QueryGives, QueryTypeOK
<1>. QED
  BY <1>2, <1>3, <1>4, <1>5

\* CallSetter is the first or the second half of a setter for one of six fields.
LEMMA SetterOf ==
  ASSUME CallSetter
  PROVE  /\ Unqueried /\ ServerQuiet /\ UNCHANGED <<board, args, prompt, seen>>
         /\ \/ /\ UNCHANGED <<BoardInfo, file>>
               /\ \/ at = "setmac" /\ at' = "store_mac" /\ held' = board["mac"]
                  \/ at = "settester" /\ at' = "store_tester" /\ held' = board["tester"]
                  \/ at = "setrev" /\ at' = "store_rev" /\ held' = board["rev"]
                  \/ at = "setserial" /\ at' = "store_serial" /\ held' = board["serial"]
                  \/ at = "setfg" /\ at' = "store_fg" /\ held' = board["fg"]
                  \/ at = "setname" /\ at' = "store_name" /\ held' = board["name"]
            \/ /\ held' = 0
               /\ \/ at = "store_mac" /\ at' = "wait" /\ Set("mac", held)
                  \/ at = "store_tester" /\ at' = "setrev" /\ Set("tester", held)
                  \/ at = "store_rev" /\ at' = "setserial" /\ Set("rev", held)
                  \/ at = "store_serial" /\ at' = "setfg" /\ Set("serial", held)
                  \/ at = "store_fg" /\ at' = "fg" /\ Set("fg", held)
                  \/ at = "store_name" /\ at' = "truncate" /\ Set("name", held)
<1>. DEFINE Half(s) == \/ Main(s, Store[s]) /\ held' = board[FieldSet[s]] /\ UNCHANGED <<BoardInfo, file>>
                       \/ Main(Store[s], NextSetter[s]) /\ Set(FieldSet[s], held) /\ held' = 0
            Setters == {"setmac", "settester", "setrev", "setserial", "setfg", "setname"}
<1>0. DOMAIN NextSetter = Setters
  BY DEF NextSetter
<1>1. PICK s \in Setters : Half(s)
  BY <1>0, Zenon DEF CallSetter
<1>2. Unqueried /\ ServerQuiet /\ UNCHANGED <<board, args, prompt, seen>>
  BY DEF CallSetter
<1>3. /\ Store["setmac"] = "store_mac" /\ FieldSet["setmac"] = "mac" /\ NextSetter["setmac"] = "wait"
      /\ Store["settester"] = "store_tester" /\ FieldSet["settester"] = "tester" /\ NextSetter["settester"] = "setrev"
      /\ Store["setrev"] = "store_rev" /\ FieldSet["setrev"] = "rev" /\ NextSetter["setrev"] = "setserial"
      /\ Store["setserial"] = "store_serial" /\ FieldSet["setserial"] = "serial" /\ NextSetter["setserial"] = "setfg"
      /\ Store["setfg"] = "store_fg" /\ FieldSet["setfg"] = "fg" /\ NextSetter["setfg"] = "fg"
      /\ Store["setname"] = "store_name" /\ FieldSet["setname"] = "name" /\ NextSetter["setname"] = "truncate"
  BY DEF Store, FieldSet, NextSetter
<1>4. CASE s = "setmac"
  BY <1>1, <1>2, <1>3, <1>4 DEF Main
<1>5. CASE s = "settester"
  BY <1>1, <1>2, <1>3, <1>5 DEF Main
<1>6. CASE s = "setrev"
  BY <1>1, <1>2, <1>3, <1>6 DEF Main
<1>7. CASE s = "setserial"
  BY <1>1, <1>2, <1>3, <1>7 DEF Main
<1>8. CASE s = "setfg"
  BY <1>1, <1>2, <1>3, <1>8 DEF Main
<1>9. CASE s = "setname"
  BY <1>1, <1>2, <1>3, <1>9 DEF Main
<1>. QED
  BY <1>1, <1>4, <1>5, <1>6, <1>7, <1>8, <1>9

\* What the server has served it has forgotten, and it goes on to the next field.
LEMMA ServedOf ==
  ASSUME NEW f \in Shared, server \in Server
  PROVE  /\ Served(f) \in Server /\ Served(f).step = "test"
         /\ Served(f).pc \in {"fg", "rev", "tester", "end"} /\ Served(f).pc # f
<1>1. NextValue[f] \in {"fg", "rev", "tester", "end"} /\ NextValue[f] # f
  BY DEF NextValue, Shared
<1>2. [server.msg EXCEPT ![f] = 0] \in Message
  BY DEF Server, Message, Shared, NotInDatabase
<1>3. Served(f) = [server EXCEPT !.pc = NextValue[f], !.step = "test", !.held = 0,
                                 !.msg = [server.msg EXCEPT ![f] = 0]]
  BY DEF Served, Server
<1>4. 0 \in Value
  BY DEF Value, Client
<1>. QED
  BY <1>1, <1>2, <1>3, <1>4 DEF Server, Shared

\* The server tests a field, or assigns it.
LEMMA TakenOf ==
  ASSUME NEW f \in Shared, TakeOver(f), server \in Server
  PROVE  /\ server.pc = f
         /\ UNCHANGED <<at, args, held, BoardInfo, file, prompt, handleDefaultMessage>> /\ Unqueried
         /\ server' \in Server /\ server'.step # "tell"
         /\ \/ /\ server.step = "test" /\ UNCHANGED <<board, seen>>
               /\ \/ board[f] = 0 /\ server'.pc = f /\ server'.step = "assign"
                  \/ server'.pc # f /\ server'.step = "test"
            \/ /\ server.step = "assign" /\ board' = [board EXCEPT ![f] = server.msg[f]]
               /\ server.msg[f] = 0 /\ UNCHANGED seen /\ server'.pc # f /\ server'.step = "test"
            \/ /\ server.step = "assign" /\ board' = [board EXCEPT ![f] = server.msg[f]]
               /\ server.msg[f] # 0 /\ server'.pc = f /\ server'.step = "read"
               /\ seen' = [seen EXCEPT !.heard = @ \cup ({f} \cap Identity),
                     !.overruled = IF at = Put[f] THEN @ \cup ({f} \cap Identity) ELSE @]
         /\ server'.pc \in {"serial", "fg", "rev", "tester", "end"}
<1>1. UNCHANGED <<at, args, held, BoardInfo, file, prompt, handleDefaultMessage>> /\ Unqueried
  BY DEF TakeOver, ServerRuns
<1>2. [server EXCEPT !.step = "assign"] \in Server /\ [server EXCEPT !.step = "read"] \in Server
  BY DEF Server
<1>3. f \in {"serial", "fg", "rev", "tester"}
  BY DEF Shared
<1>4. CASE Serving(f, "test")
  <2>1. UNCHANGED <<board, seen>> /\ server.pc = f /\ server.step = "test"
    BY <1>4 DEF TakeOver, Serving
  <2>2. CASE board[f] = 0 /\ (server.msg[f] # 0 \/ f = "tester")
    <3>1. server' = [server EXCEPT !.step = "assign"]
      BY <1>4, <2>2 DEF TakeOver, Serving, ServerRuns
    <3>2. server'.pc = f /\ server'.step = "assign"
      BY <2>1, <3>1 DEF Server
    <3>. QED
      BY <1>1, <1>2, <1>3, <2>1, <2>2, <3>1, <3>2
  <2>3. CASE ~(board[f] = 0 /\ (server.msg[f] # 0 \/ f = "tester"))
    <3>1. server' = Served(f)
      BY <1>4, <2>3 DEF TakeOver, Serving, ServerRuns
    <3>. QED
      BY <1>1, <2>1, <3>1, ServedOf
  <2>. QED
    BY <2>2, <2>3
<1>5. CASE Serving(f, "assign")
  <2>1. /\ server.pc = f /\ server.step = "assign" /\ board' = [board EXCEPT ![f] = server.msg[f]]
        /\ IF server.msg[f] = 0 THEN server' = Served(f) /\ UNCHANGED seen
           ELSE /\ server' = [server EXCEPT !.step = "read"]
                /\ seen' = [seen EXCEPT !.heard = @ \cup ({f} \cap Identity),
                     !.overruled = IF at = Put[f] THEN @ \cup ({f} \cap Identity) ELSE @]
    BY <1>5 DEF TakeOver, Serving, ServerRuns
  <2>2. CASE server.msg[f] = 0
    BY <1>1, <2>1, <2>2, ServedOf
  <2>3. CASE server.msg[f] # 0
    <3>1. server'.pc = f /\ server'.step = "read" /\ server' \in Server
      BY <1>2, <2>1, <2>3 DEF Server
    <3>. QED
      BY <1>1, <1>3, <2>1, <2>3, <3>1
  <2>. QED
    BY <2>2, <2>3
<1>. QED
  BY <1>4, <1>5 DEF TakeOver

\* The server reads a field for the setter, or tells BoardInfo.
LEMMA ToldOf ==
  ASSUME NEW f \in Shared, Tell(f), server \in Server, board \in Info
  PROVE  /\ server.pc = f
         /\ UNCHANGED <<at, args, held, board, handleDefaultMessage>> /\ Unqueried
         /\ server' \in Server
         /\ server'.pc \in {"serial", "fg", "rev", "tester", "end"}
         /\ \/ /\ server.step = "read" /\ UNCHANGED <<BoardInfo, file, prompt, seen>>
               /\ server'.pc = f /\ server'.step = "tell" /\ server'.held = board[f]
            \/ /\ server.step = "tell" /\ Set(f, server.held) /\ notifyUserToCloseMessageBox
               /\ server'.pc # f /\ server'.step = "test"
               /\ seen' = [seen EXCEPT !.dented =
                    @ \/ (file'.info.mac # file.info.mac /\ seen.kept # 0)]
<1>1. UNCHANGED <<at, args, held, board, handleDefaultMessage>> /\ Unqueried
  BY DEF Tell, ServerRuns
<1>2. f \in {"serial", "fg", "rev", "tester"}
  BY DEF Shared
<1>3. CASE Serving(f, "read")
  <2>1. /\ server.pc = f /\ server.step = "read" /\ UNCHANGED <<BoardInfo, file, prompt, seen>>
        /\ server' = [server EXCEPT !.step = "tell", !.held = board[f]]
    BY <1>3 DEF Tell, Serving, ServerRuns
  <2>2. board[f] \in Value
    BY <1>2 DEF Info, Value, Client, NotInDatabase, Operator
  <2>3. server' \in Server /\ server'.pc = f /\ server'.step = "tell" /\ server'.held = board[f]
    BY <2>1, <2>2 DEF Server
  <2>. QED
    BY <1>1, <1>2, <2>1, <2>3
<1>4. CASE Serving(f, "tell")
  <2>1. /\ server.pc = f /\ server.step = "tell" /\ Set(f, server.held) /\ notifyUserToCloseMessageBox
        /\ server' = Served(f)
        /\ seen' = [seen EXCEPT !.dented = @ \/ (file'.info.mac # file.info.mac /\ seen.kept # 0)]
    BY <1>4 DEF Tell, Serving, ServerRuns
  <2>. QED
    BY <1>1, <2>1, ServedOf
<1>. QED
  BY <1>3, <1>4 DEF Tell

\* Main finds a field, takes the command line's value in hand or asks.
LEMMA FilledOf ==
  ASSUME NEW f \in Identity, Fill(f)
  PROVE  /\ at = f /\ Unqueried /\ ServerQuiet /\ UNCHANGED <<board, BoardInfo, file, args, seen>>
         /\ \/ /\ at' = (IF f = "tester" THEN "serial" ELSE "rev")
               /\ board[f] # 0 /\ UNCHANGED <<held, prompt>>
            \/ at' = Putting(f) /\ board[f] = 0 /\ held' = Argument /\ UNCHANGED prompt
            \/ /\ at' = (IF f = "tester" THEN "ask_tester" ELSE "ask_serial")
               /\ prompt' = "sent" /\ UNCHANGED held
<1>1. /\ f \in {"tester", "serial"}
      /\ NextPlace[f] = (IF f = "tester" THEN "serial" ELSE "rev")
      /\ FirstPrompt[f] = (IF f = "tester" THEN "ask_tester" ELSE "ask_serial")
      /\ Put[f] = Putting(f)
  BY DEF Identity, NextPlace, FirstPrompt, Put, Putting
<1>. QED
  BY <1>1 DEF Fill, Ask, Main

\* The answer for a field: main asks again, or takes a value in hand.
LEMMA AnsweredOf ==
  ASSUME NEW f \in Identity, Answered(f)
  PROVE  /\ at \in (IF f = "tester" THEN {"ask_tester", "reask_tester"} ELSE {"ask_serial", "reask_serial"})
         /\ Unqueried /\ ServerQuiet /\ UNCHANGED <<board, BoardInfo, file, args>>
         /\ \/ /\ at' = (IF f = "tester" THEN "reask_tester" ELSE "reask_serial")
               /\ prompt' = "sent" /\ UNCHANGED <<held, seen>>
            \/ /\ at' = Putting(f) /\ prompt' = "none"
               /\ \/ BoardInfo[f] # 0 /\ held' = BoardInfo[f] /\ UNCHANGED seen
                  \/ /\ held' = Operator
                     /\ \/ seen' = [seen EXCEPT !.overruled = @ \cup ({f} \cap seen.heard)]
                        \/ UNCHANGED seen /\ BoardInfo[f] = 0 /\ ~Untold(f)
<1>1. /\ f \in {"tester", "serial"}
      /\ FirstPrompt[f] = (IF f = "tester" THEN "ask_tester" ELSE "ask_serial")
      /\ SecondPrompt[f] = (IF f = "tester" THEN "reask_tester" ELSE "reask_serial")
      /\ Put[f] = Putting(f)
  BY DEF Identity, FirstPrompt, SecondPrompt, Put, Putting
<1>2. Unqueried /\ ServerQuiet /\ UNCHANGED <<board, BoardInfo, file, args>>
  BY DEF Answered
<1>3. PICK a \in {0, Operator} :
       \/ /\ Answers(FirstPrompt[f], a)
          /\ IF BoardInfo[f] # 0 THEN Enter(f, BoardInfo[f], FALSE) \/ AskAgain(SecondPrompt[f])
             ELSE IF a # 0 THEN Enter(f, a, Untold(f)) ELSE AskAgain(SecondPrompt[f])
       \/ /\ Answers(SecondPrompt[f], a)
          /\ IF a # 0 THEN Enter(f, a, TRUE) ELSE AskAgain(SecondPrompt[f])
  BY DEF Answered
<1>4. at \in {FirstPrompt[f], SecondPrompt[f]}
  BY <1>3 DEF Answers
<1>5. \/ AskAgain(SecondPrompt[f])
      \/ BoardInfo[f] # 0 /\ Enter(f, BoardInfo[f], FALSE)
      \/ BoardInfo[f] = 0 /\ Enter(f, Operator, Untold(f))
      \/ Enter(f, Operator, TRUE)
  BY <1>3
<1>6. CASE AskAgain(SecondPrompt[f])
  BY <1>1, <1>2, <1>4, <1>6 DEF AskAgain
<1>7. CASE BoardInfo[f] # 0 /\ Enter(f, BoardInfo[f], FALSE)
  BY <1>1, <1>2, <1>4, <1>7 DEF Enter
<1>8. CASE BoardInfo[f] = 0 /\ Enter(f, Operator, Untold(f))
  BY <1>1, <1>2, <1>4, <1>8 DEF Enter
<1>9. CASE Enter(f, Operator, TRUE)
  BY <1>1, <1>2, <1>4, <1>9 DEF Enter
<1>. QED
  BY <1>5, <1>6, <1>7, <1>8, <1>9

\* Main assigns a field.
LEMMA AssignedOf ==
  ASSUME NEW f \in Shared, Assign(f)
  PROVE  /\ Unqueried /\ ServerQuiet /\ UNCHANGED <<BoardInfo, file, args, prompt>>
         /\ board' = [board EXCEPT ![f] = held] /\ held' = 0
         /\ \/ f = "tester" /\ at = "put_tester" /\ at' = "serial"
            \/ f = "serial" /\ at = "put_serial" /\ at' = "rev"
            \/ f = "rev" /\ at = "put_rev" /\ at' = "settester"
            \/ f = "fg" /\ at = "put_fg" /\ at' = "fg"
         /\ seen' = [seen EXCEPT !.crossed = @ \cup Crossing(f)]
         /\ f # "rev" /\ server.pc = f /\ server.step \in {"assign", "tell"} => Crossing(f) = {f}
         /\ Crossing(f) \subseteq {f} \ {"rev"}
<1>1. f \in {"tester", "serial", "rev", "fg"}
  BY DEF Shared
<1>2. \/ f = "tester" /\ Put[f] = "put_tester" /\ NextPlace[f] = "serial"
      \/ f = "serial" /\ Put[f] = "put_serial" /\ NextPlace[f] = "rev"
      \/ f = "rev" /\ Put[f] = "put_rev" /\ NextPlace[f] = "settester"
      \/ f = "fg" /\ Put[f] = "put_fg" /\ NextPlace[f] = "fg"
  BY <1>1 DEF Put, NextPlace
<1>3. /\ f # "rev" /\ server.pc = f /\ server.step \in {"assign", "tell"} => Crossing(f) = {f}
      /\ Crossing(f) \subseteq {f} \ {"rev"}
  BY DEF Crossing
<1>. QED
  BY <1>2, <1>3 DEF Assign, Main

\* The server thread when it does nothing.
LEMMA ServerAtRest ==
  /\ Stranger \in [known : BOOLEAN, privileged : BOOLEAN] /\ Stranger \in User
  /\ NoMessage \in Message
  /\ Stopped \in Server
  /\ [Stopped EXCEPT !.pc = "idle"] \in Server
<1>1. Stranger \in [known : BOOLEAN, privileged : BOOLEAN] /\ Stranger \in User
  BY DEF Stranger, User
<1>2. NoMessage \in Message
  BY DEF NoMessage, Message, NotInDatabase, Client, Operator
<1>3. Stopped \in Server
  BY <1>1, <1>2 DEF Stopped, Server, Value, Client
<1>4. [Stopped EXCEPT !.pc = "idle"] \in Server
  BY <1>3 DEF Server
<1>. QED
  BY <1>1, <1>2, <1>3, <1>4

\* Steps of main that leave the board, BoardInfo, the file and the server thread alone, and
\* steps of the server thread that leave main and the records alone.
Talk ==
  \/ Show \/ GetProcessorSpeed \/ SpeedEntered \/ LookUp \/ LookedUp \/ WaitForBroadcast \/
     FillRevision \/ RevisionAnswered \/ NumberUnset \/ CheckNumber \/ NumberChecked \/
     RetryAnswered \/ NumberEntered \/ LookUpName
Serve ==
  \/ Broadcast \/ MalformedBroadcast \/ BroadcastEnds \/ LogIn \/ AskDatabase \/ DatabaseAnswers
     \/ Reply

QueryMoves ==
  \/ Unqueried \/ QueryLost
  \/ \E u \in {"main", "server"}, counts \in BOOLEAN : QueryBegins(u, counts)
  \/ \E u \in {"main", "server"}, r \in {"ok", "wrong", "zero", "failed"} : QueryGives(u, r)
Typed == /\ board \in Info /\ BoardInfo \in Info /\ file \in File /\ server \in Server /\ seen \in Seen
         /\ at \in Places /\ held \in Value /\ args \in BOOLEAN
         /\ prompt \in {"none", "sent", "shown", "closed"}
         /\ handleDefaultMessage \in {"notlocked", "true", "false"}
         /\ seen.started <= MaxSessions
         /\ server.pc \in Shared \/ server.step = "test"
SameRegion ==
  /\ at' \in Reading <=> at \in Reading
  /\ at' \in Making <=> at \in Making
  /\ at' \in Opening <=> at \in Opening
  /\ at' \in {"zero", "update"} <=> at \in {"zero", "update"}
  /\ at' = "done" <=> at = "done"
  /\ \A f \in Identity : (at' \in Filling(f) <=> at \in Filling(f)) /\ (at' \in Unset(f) <=> at \in Unset(f))
SameSeen ==
  /\ seen' \in Seen /\ seen'.started = seen.started
  /\ seen'.kept = seen.kept /\ seen'.dented = seen.dented
  /\ seen'.heard = seen.heard /\ seen'.overruled = seen.overruled
  /\ seen.crossed \subseteq seen'.crossed /\ seen'.crossed \subseteq seen.crossed \cup {"fg"}

\* What they have in common.
LEMMA Talks ==
  ASSUME Typed, Talk
  PROVE  /\ QueryMoves /\ UNCHANGED <<board, BoardInfo, file, args, server, handleDefaultMessage>>
         /\ at' \in Places /\ SameRegion
         /\ at' \notin {"store_mac", "put_serial", "put_tester", "store_serial", "store_tester",
                        "store_fg", "store_name"}
         /\ held' \in Value /\ prompt' \in {"none", "sent", "shown", "closed"}
         /\ at' = "put_rev" => held' = Operator
         /\ at' = "put_fg" => held' \in 0..NotInDatabase
         /\ SameSeen /\ seen'.login = seen.login
<1>. DEFINE Hands == /\ held' \in Value /\ prompt' \in {"none", "sent", "shown", "closed"}
                     /\ at' = "put_rev" => held' = Operator
                     /\ at' = "put_fg" => held' \in 0..NotInDatabase
            Goes == /\ at' \in Places /\ SameRegion
                    /\ at' \notin {"store_mac", "put_serial", "put_tester", "store_serial",
                                   "store_tester", "store_fg", "store_name"}
<1>1. CASE Show
  <2>1. QueryMoves /\ UNCHANGED <<board, BoardInfo, file, args, server, handleDefaultMessage>>
    BY <1>1 DEF Show, Asking, QueryMoves, ServerQuiet
  <2>2. Goes
    BY <1>1 DEF Show, Asking, SameRegion, Places, Reading, Making, Opening, OfTester, OfSerial,
       Filling, Unset
  <2>3. SameSeen /\ seen'.login = seen.login
    BY <1>1 DEF Show, Asking, SameSeen, Seen, Typed
  <2>4. Hands
    BY <1>1 DEF Show, Asking, Typed, Info, Value, Operator, Client, NotInDatabase
  <2>. QED
    BY <2>1, <2>2, <2>3, <2>4
<1>2. CASE GetProcessorSpeed
  <2>1. QueryMoves /\ UNCHANGED <<board, BoardInfo, file, args, server, handleDefaultMessage>>
    BY <1>2 DEF GetProcessorSpeed, Ask, Main, QueryMoves, ServerQuiet
  <2>2. Goes
    BY <1>2 DEF GetProcessorSpeed, Ask, Main, SameRegion, Places, Reading, Making, Opening,
       OfTester, OfSerial, Filling, Unset
  <2>3. SameSeen /\ seen'.login = seen.login
    BY <1>2 DEF GetProcessorSpeed, Ask, Main, SameSeen, Seen, Typed
  <2>4. Hands
    BY <1>2 DEF GetProcessorSpeed, Ask, Main, Typed, Info, Value, Operator, Client, NotInDatabase
  <2>. QED
    BY <2>1, <2>2, <2>3, <2>4
<1>3. CASE SpeedEntered
  <2>1. QueryMoves /\ UNCHANGED <<board, BoardInfo, file, args, server, handleDefaultMessage>>
    BY <1>3 DEF SpeedEntered, Answers, QueryMoves, ServerQuiet
  <2>2. Goes
    BY <1>3 DEF SpeedEntered, Answers, SameRegion, Places, Reading, Making, Opening, OfTester,
       OfSerial, Filling, Unset
  <2>3. SameSeen /\ seen'.login = seen.login
    BY <1>3 DEF SpeedEntered, Answers, SameSeen, Seen, Typed
  <2>4. Hands
    BY <1>3 DEF SpeedEntered, Answers, Typed, Info, Value, Operator, Client, NotInDatabase
  <2>. QED
    BY <2>1, <2>2, <2>3, <2>4
<1>4. CASE LookUp
  <2>1. QueryMoves /\ UNCHANGED <<board, BoardInfo, file, args, server, handleDefaultMessage>>
    BY <1>4 DEF LookUp, Query, boardVars, QueryMoves, ServerQuiet
  <2>2. Goes
    BY <1>4 DEF LookUp, Query, boardVars, SameRegion, Places, Reading, Making, Opening, OfTester,
       OfSerial, Filling, Unset
  <2>3. SameSeen /\ seen'.login = seen.login
    BY <1>4 DEF LookUp, Query, boardVars, SameSeen, Seen, Typed
  <2>4. Hands
    BY <1>4 DEF LookUp, Query, boardVars, Typed, Info, Value, Operator, Client, NotInDatabase
  <2>. QED
    BY <2>1, <2>2, <2>3, <2>4
<1>5. CASE LookedUp
  <2>1. QueryMoves /\ UNCHANGED <<board, BoardInfo, file, args, server, handleDefaultMessage>>
    BY <1>5 DEF LookedUp, Gives, QueryMoves, ServerQuiet
  <2>2. Goes
    BY <1>5 DEF LookedUp, Gives, SameRegion, Places, Reading, Making, Opening, OfTester, OfSerial,
       Filling, Unset
  <2>3. SameSeen /\ seen'.login = seen.login
    BY <1>5 DEF LookedUp, Gives, SameSeen, Seen, Typed
  <2>4. Hands
    BY <1>5 DEF LookedUp, Gives, Typed, Info, Value, Operator, Client, NotInDatabase
  <2>. QED
    BY <2>1, <2>2, <2>3, <2>4
<1>6. CASE WaitForBroadcast
  <2>1. QueryMoves /\ UNCHANGED <<board, BoardInfo, file, args, server, handleDefaultMessage>>
    BY <1>6 DEF WaitForBroadcast, Main, QueryMoves, ServerQuiet
  <2>2. Goes
    BY <1>6 DEF WaitForBroadcast, Main, SameRegion, Places, Reading, Making, Opening, OfTester,
       OfSerial, Filling, Unset
  <2>3. SameSeen /\ seen'.login = seen.login
    BY <1>6 DEF WaitForBroadcast, Main, SameSeen, Seen, Typed
  <2>4. Hands
    BY <1>6 DEF WaitForBroadcast, Main, Typed, Info, Value, Operator, Client, NotInDatabase
  <2>. QED
    BY <2>1, <2>2, <2>3, <2>4
<1>7. CASE FillRevision
  <2>1. QueryMoves /\ UNCHANGED <<board, BoardInfo, file, args, server, handleDefaultMessage>>
    BY <1>7 DEF FillRevision, Ask, Main, QueryMoves, ServerQuiet
  <2>2. Goes
    BY <1>7 DEF FillRevision, Ask, Main, SameRegion, Places, Reading, Making, Opening, OfTester,
       OfSerial, Filling, Unset
  <2>3. SameSeen /\ seen'.login = seen.login
    BY <1>7 DEF FillRevision, Ask, Main, SameSeen, Seen, Typed
  <2>4. Hands
    BY <1>7 DEF FillRevision, Ask, Main, Typed, Info, Value, Operator, Client, NotInDatabase
  <2>. QED
    BY <2>1, <2>2, <2>3, <2>4
<1>8. CASE RevisionAnswered
  <2>1. QueryMoves /\ UNCHANGED <<board, BoardInfo, file, args, server, handleDefaultMessage>>
    BY <1>8 DEF RevisionAnswered, Answers, AskAgain, Enter, Put, QueryMoves, ServerQuiet
  <2>2. Goes
    BY <1>8 DEF RevisionAnswered, Answers, AskAgain, Enter, Put, SameRegion, Places, Reading,
       Making, Opening, OfTester, OfSerial, Filling, Unset
  <2>3. SameSeen /\ seen'.login = seen.login
    BY <1>8 DEF RevisionAnswered, Answers, AskAgain, Enter, Put, SameSeen, Seen, Typed
  <2>4. Hands
    BY <1>8 DEF RevisionAnswered, Answers, AskAgain, Enter, Put, Typed, Info, Value, Operator,
       Client, NotInDatabase
  <2>. QED
    BY <2>1, <2>2, <2>3, <2>4
<1>9. CASE NumberUnset
  <2>1. QueryMoves /\ UNCHANGED <<board, BoardInfo, file, args, server, handleDefaultMessage>>
    BY <1>9 DEF NumberUnset, Ask, Main, QueryMoves, ServerQuiet
  <2>2. Goes
    BY <1>9 DEF NumberUnset, Ask, Main, SameRegion, Places, Reading, Making, Opening, OfTester,
       OfSerial, Filling, Unset
  <2>3. SameSeen /\ seen'.login = seen.login
    <3>1. UNCHANGED seen \/ seen' = [seen EXCEPT !.crossed = @ \cup {"fg"}]
      BY <1>9 DEF NumberUnset
    <3>. QED
      BY <3>1 DEF SameSeen, Seen, Typed, Shared
  <2>4. Hands
    BY <1>9 DEF NumberUnset, Ask, Main, Typed, Info, Value, Operator, Client, NotInDatabase
  <2>. QED
    BY <2>1, <2>2, <2>3, <2>4
<1>10. CASE CheckNumber
  <2>1. QueryMoves /\ UNCHANGED <<board, BoardInfo, file, args, server, handleDefaultMessage>>
    BY <1>10 DEF CheckNumber, QueryMoves, ServerQuiet
  <2>2. Goes
    BY <1>10 DEF CheckNumber, SameRegion, Places, Reading, Making, Opening, OfTester, OfSerial,
       Filling, Unset
  <2>3. SameSeen /\ seen'.login = seen.login
    BY <1>10 DEF CheckNumber, SameSeen, Seen, Typed
  <2>4. Hands
    BY <1>10 DEF CheckNumber, Typed, Info, Value, Operator, Client, NotInDatabase
  <2>. QED
    BY <2>1, <2>2, <2>3, <2>4
<1>11. CASE NumberChecked
  <2>1. QueryMoves /\ UNCHANGED <<board, BoardInfo, file, args, server, handleDefaultMessage>>
    BY <1>11 DEF NumberChecked, Ask, Main, QueryMoves, ServerQuiet
  <2>2. Goes
    BY <1>11 DEF NumberChecked, Ask, Main, SameRegion, Places, Reading, Making, Opening, OfTester,
       OfSerial, Filling, Unset
  <2>3. SameSeen /\ seen'.login = seen.login
    BY <1>11 DEF NumberChecked, Ask, Main, SameSeen, Seen, Typed
  <2>4. Hands
    BY <1>11 DEF NumberChecked, Ask, Main, Typed, Info, Value, Operator, Client, NotInDatabase
  <2>. QED
    BY <2>1, <2>2, <2>3, <2>4
<1>12. CASE RetryAnswered
  <2>1. QueryMoves /\ UNCHANGED <<board, BoardInfo, file, args, server, handleDefaultMessage>>
    BY <1>12 DEF RetryAnswered, Answers, QueryMoves, ServerQuiet
  <2>2. Goes
    BY <1>12 DEF RetryAnswered, Answers, SameRegion, Places, Reading, Making, Opening, OfTester,
       OfSerial, Filling, Unset
  <2>3. SameSeen /\ seen'.login = seen.login
    BY <1>12 DEF RetryAnswered, Answers, SameSeen, Seen, Typed
  <2>4. Hands
    BY <1>12 DEF RetryAnswered, Answers, Typed, Info, Value, Operator, Client, NotInDatabase
  <2>. QED
    BY <2>1, <2>2, <2>3, <2>4
<1>13. CASE NumberEntered
  <2>1. QueryMoves /\ UNCHANGED <<board, BoardInfo, file, args, server, handleDefaultMessage>>
    BY <1>13 DEF NumberEntered, Answers, AskAgain, Enter, Put, QueryMoves, ServerQuiet
  <2>2. Goes
    BY <1>13 DEF NumberEntered, Answers, AskAgain, Enter, Put, SameRegion, Places, Reading,
       Making, Opening, OfTester, OfSerial, Filling, Unset
  <2>3. SameSeen /\ seen'.login = seen.login
    BY <1>13 DEF NumberEntered, Answers, AskAgain, Enter, Put, SameSeen, Seen, Typed
  <2>4. Hands
    BY <1>13 DEF NumberEntered, Answers, AskAgain, Enter, Put, Typed, Info, Value, Operator,
       Client, NotInDatabase
  <2>. QED
    BY <2>1, <2>2, <2>3, <2>4
<1>14. CASE LookUpName
  <2>1. QueryMoves /\ UNCHANGED <<board, BoardInfo, file, args, server, handleDefaultMessage>>
    BY <1>14 DEF LookUpName, Query, boardVars, QueryMoves, ServerQuiet
  <2>2. Goes
    BY <1>14 DEF LookUpName, Query, boardVars, SameRegion, Places, Reading, Making, Opening,
       OfTester, OfSerial, Filling, Unset
  <2>3. SameSeen /\ seen'.login = seen.login
    BY <1>14 DEF LookUpName, Query, boardVars, SameSeen, Seen, Typed
  <2>4. Hands
    BY <1>14 DEF LookUpName, Query, boardVars, Typed, Info, Value, Operator, Client, NotInDatabase
  <2>. QED
    BY <2>1, <2>2, <2>3, <2>4
<1>. QED
  BY <1>1, <1>2, <1>3, <1>4, <1>5, <1>6, <1>7, <1>8, <1>9, <1>10, <1>11, <1>12, <1>13, <1>14 DEF
     Talk
LEMMA Serves ==
  ASSUME Typed, Serve
  PROVE  /\ QueryMoves /\ UNCHANGED <<at, board, BoardInfo, file, args, held, prompt>>
         /\ handleDefaultMessage' \in {"notlocked", "true", "false"}
         /\ server' \in Server /\ server.step = "test" /\ server'.step = "test"
         /\ SameSeen /\ seen'.crossed = seen.crossed /\ seen'.unanswered = seen.unanswered
<1>1. CASE Broadcast
  <2>1. /\ QueryMoves /\ UNCHANGED <<at, board, BoardInfo, file, args, held, prompt>>
        /\ handleDefaultMessage' \in {"notlocked", "true", "false"}
    BY <1>1 DEF Broadcast, ServerRuns, QueryMoves, ServerQuiet, Typed
  <2>2. server' \in Server /\ server.step = "test" /\ server'.step = "test"
    <3>1. PICK m \in Message : server' = [server EXCEPT !.pc = "serial", !.msg = m]
      BY <1>1, BroadcastAssumption DEF Broadcast, ServerRuns
    <3>2. server.pc = "idle"
      BY <1>1 DEF Broadcast
    <3>. QED
      BY <3>1, <3>2 DEF Typed, Server, Shared
  <2>3. SameSeen /\ seen'.crossed = seen.crossed /\ seen'.unanswered = seen.unanswered
    <3>1. UNCHANGED seen \/ seen' = [seen EXCEPT !.requests = @ + 1]
      BY <1>1 DEF Broadcast
    <3>. QED
      BY <3>1 DEF SameSeen, Seen, Typed
  <2>. QED
    BY <2>1, <2>2, <2>3
<1>2. CASE MalformedBroadcast
  <2>1. /\ QueryMoves /\ UNCHANGED <<at, board, BoardInfo, file, args, held, prompt>>
        /\ handleDefaultMessage' \in {"notlocked", "true", "false"}
    BY <1>2 DEF MalformedBroadcast, QueryMoves, ServerQuiet, Typed
  <2>2. server' \in Server /\ server.step = "test" /\ server'.step = "test"
    BY <1>2, ServerAtRest DEF MalformedBroadcast, ServerQuiet, Typed, Server, Shared, Stopped
  <2>3. SameSeen /\ seen'.crossed = seen.crossed /\ seen'.unanswered = seen.unanswered
    BY <1>2 DEF MalformedBroadcast, SameSeen, Typed
  <2>. QED
    BY <2>1, <2>2, <2>3
<1>3. CASE BroadcastEnds
  <2>1. /\ QueryMoves /\ UNCHANGED <<at, board, BoardInfo, file, args, held, prompt>>
        /\ handleDefaultMessage' \in {"notlocked", "true", "false"}
    BY <1>3 DEF BroadcastEnds, ServerRuns, QueryMoves, ServerQuiet, Typed
  <2>2. server' \in Server /\ server.step = "test" /\ server'.step = "test"
    BY <1>3, ServerAtRest DEF BroadcastEnds, ServerRuns, ServerQuiet, Typed, Server, Shared,
       Stopped
  <2>3. SameSeen /\ seen'.crossed = seen.crossed /\ seen'.unanswered = seen.unanswered
    BY <1>3 DEF BroadcastEnds, ServerRuns, SameSeen, Typed
  <2>. QED
    BY <2>1, <2>2, <2>3
<1>4. CASE LogIn
  <2>1. /\ QueryMoves /\ UNCHANGED <<at, board, BoardInfo, file, args, held, prompt>>
        /\ handleDefaultMessage' \in {"notlocked", "true", "false"}
    BY <1>4 DEF LogIn, ServerRuns, QueryMoves, ServerQuiet, Typed
  <2>2. server' \in Server /\ server.step = "test" /\ server'.step = "test"
    BY <1>4, ServerAtRest DEF LogIn, ServerRuns, ServerQuiet, Typed, Server, Shared, Stopped
  <2>3. SameSeen /\ seen'.crossed = seen.crossed /\ seen'.unanswered = seen.unanswered
    <3>1. UNCHANGED seen \/ seen' = [seen EXCEPT !.requests = @ + 1]
      BY <1>4 DEF LogIn
    <3>. QED
      BY <3>1 DEF SameSeen, Seen, Typed
  <2>. QED
    BY <2>1, <2>2, <2>3
<1>5. CASE AskDatabase
  <2>1. /\ QueryMoves /\ UNCHANGED <<at, board, BoardInfo, file, args, held, prompt>>
        /\ handleDefaultMessage' \in {"notlocked", "true", "false"}
    BY <1>5 DEF AskDatabase, boardVars, QueryMoves, ServerQuiet, Typed
  <2>2. server' \in Server /\ server.step = "test" /\ server'.step = "test"
    BY <1>5, ServerAtRest DEF AskDatabase, boardVars, ServerQuiet, Typed, Server, Shared, Stopped,
       Question
  <2>3. SameSeen /\ seen'.crossed = seen.crossed /\ seen'.unanswered = seen.unanswered
    BY <1>5 DEF AskDatabase, boardVars, SameSeen, Typed
  <2>. QED
    BY <2>1, <2>2, <2>3
<1>6. CASE DatabaseAnswers
  <2>1. /\ QueryMoves /\ UNCHANGED <<at, board, BoardInfo, file, args, held, prompt>>
        /\ handleDefaultMessage' \in {"notlocked", "true", "false"}
    BY <1>6 DEF DatabaseAnswers, ServerRuns, QueryMoves, ServerQuiet, Typed
  <2>2. server' \in Server /\ server.step = "test" /\ server'.step = "test"
    <3>1. PICK q \in {"known", "privileged"}, yes \in BOOLEAN, pc \in {"access", "reply"}, missed \in BOOLEAN :
              server' = [server EXCEPT !.pc = pc, !.found = [@ EXCEPT ![q] = yes], !.missed = missed]
      <4>1. server.pc \in {"password", "access"}
        BY <1>6 DEF DatabaseAnswers, Question
      <4>2. PICK r \in {"ok", "wrong", "zero", "failed"}, yes \in BOOLEAN :
              server' = [server EXCEPT !.pc = NextQuestion[server.pc],
                                       !.found = [@ EXCEPT ![Question[server.pc]] = yes],
                                       !.missed = @ \/ r # "ok"]
        BY <1>6 DEF DatabaseAnswers, ServerRuns
      <4>3. /\ Question[server.pc] \in {"known", "privileged"}
            /\ NextQuestion[server.pc] \in {"access", "reply"}
        BY <4>1 DEF Question, NextQuestion
      <4>4. (server.missed \/ r # "ok") \in BOOLEAN
        OBVIOUS
      <4>. QED
        BY <4>2, <4>3, <4>4
    <3>2. [server.found EXCEPT ![q] = yes] \in [known : BOOLEAN, privileged : BOOLEAN]
      BY DEF Typed, Server
    <3>3. server.pc \in {"password", "access"}
      BY <1>6 DEF DatabaseAnswers, Question
    <3>. QED
      BY <3>1, <3>2, <3>3 DEF Typed, Server, Shared
  <2>3. SameSeen /\ seen'.crossed = seen.crossed /\ seen'.unanswered = seen.unanswered
    BY <1>6 DEF DatabaseAnswers, ServerRuns, SameSeen, Typed
  <2>. QED
    BY <2>1, <2>2, <2>3
<1>7. CASE Reply
  <2>1. /\ QueryMoves /\ UNCHANGED <<at, board, BoardInfo, file, args, held, prompt>>
        /\ handleDefaultMessage' \in {"notlocked", "true", "false"}
    BY <1>7 DEF Reply, ServerRuns, QueryMoves, ServerQuiet, Typed
  <2>2. server' \in Server /\ server.step = "test" /\ server'.step = "test"
    BY <1>7, ServerAtRest DEF Reply, ServerRuns, ServerQuiet, Typed, Server, Shared, Stopped
  <2>3. SameSeen /\ seen'.crossed = seen.crossed /\ seen'.unanswered = seen.unanswered
    <3>1. PICK login \in BOOLEAN : seen' = [seen EXCEPT !.login = login]
      BY <1>7 DEF Reply
    <3>. QED
      BY <3>1 DEF SameSeen, Seen, Typed
  <2>. QED
    BY <2>1, <2>2, <2>3
<1>. QED
  BY <1>1, <1>2, <1>3, <1>4, <1>5, <1>6, <1>7 DEF Serve

\* Every variable keeps its type.
LEMMA TypesKept ==
  ASSUME AllTypes, [Next]_vars
  PROVE  AllTypes'
<1>. USE BoardAssumption
<1>. DEFINE Hands == {"store_mac", "put_serial", "put_tester", "store_serial", "store_tester", "put_rev",
                      "put_fg", "store_fg", "store_name"}
<1>0. QueryTypeOK /\ Typed
  BY DEF AllTypes, TypeOK, File, Typed
<1>q. ASSUME QueryMoves, Typed', HeldTyped'
      PROVE  AllTypes'
  <2>1. QueryTypeOK'
    BY <1>0, <1>q, QueryTyped DEF QueryMoves
  <2>. QED
    BY <1>q, <2>1 DEF AllTypes, TypeOK, File, Typed
<1>h. ASSUME at' \notin Hands \/ (at' = at /\ held' = held), server' = server \/ server'.step # "tell"
      PROVE  HeldTyped'
  BY <1>h DEF AllTypes, HeldTyped
<1>t. CASE Talk
  <2>1. HeldTyped'
    BY <1>0, <1>t, Talks DEF HeldTyped, AllTypes
  <2>2. Typed'
    BY <1>0, <1>t, Talks DEF Typed, SameSeen
  <2>. QED
    BY <1>0, <1>t, <1>q, <2>1, <2>2, Talks
<1>s. CASE Serve
  <2>1. HeldTyped'
    BY <1>0, <1>h, <1>s, Serves
  <2>2. Typed'
    BY <1>0, <1>s, Serves DEF Typed, SameSeen
  <2>. QED
    BY <1>0, <1>s, <1>q, <2>1, <2>2, Serves
<1>1. CASE PowerOn
  <2>1. QueryMoves /\ (server' = server \/ server'.step # "tell")
    BY <1>0, <1>1 DEF PowerOn, QueryLost, Main, QueryMoves, ServerQuiet, Stopped
  <2>2. board' \in Info /\ BoardInfo' \in Info /\ file' \in File
    BY <1>0, <1>1 DEF PowerOn, QueryLost, Main, Typed, Info, NoInfo, File, Operator, Client,
       InDatabase, NotInDatabase
  <2>3. /\ at' \in Places /\ held' \in Value /\ args' \in BOOLEAN
        /\ prompt' \in {"none", "sent", "shown", "closed"}
        /\ handleDefaultMessage' \in {"notlocked", "true", "false"}
        /\ at' \notin Hands
    BY <1>0, <1>1 DEF PowerOn, QueryLost, Main, Typed, Value, Client, ServerQuiet, Places,
       Reading, Making, Opening, OfTester, OfSerial
  <2>4. server' \in Server /\ (server'.pc \in Shared \/ server'.step = "test")
    BY <1>0, <1>1, ServerAtRest DEF PowerOn, QueryLost, Main, Typed, ServerQuiet, Stopped
  <2>5. seen' \in Seen /\ seen'.started <= MaxSessions
    <3>1. /\ seen.started < MaxSessions
          /\ seen' = [seen EXCEPT !.started = @ + 1, !.heard = {}, !.overruled = {}, !.crossed = {}]
      BY <1>1 DEF PowerOn
    <3>2. seen.started + 1 \in Nat /\ seen.started + 1 <= MaxSessions
      BY <1>0, <3>1 DEF Typed, Seen
    <3>3. seen'.started = seen.started + 1 /\ seen' \in Seen
      BY <1>0, <3>1, <3>2 DEF Typed, Seen
    <3>. QED
      BY <3>2, <3>3
  <2>6. Typed' /\ HeldTyped'
    BY <1>h, <2>1, <2>2, <2>3, <2>4, <2>5 DEF Typed
  <2>. QED
    BY <1>q, <2>1, <2>6
<1>2. CASE PowerOff
  <2>1. QueryMoves /\ (server' = server \/ server'.step # "tell")
    BY <1>0, <1>2 DEF PowerOff, QueryLost, Main, QueryMoves, ServerQuiet, Stopped
  <2>2. board' \in Info /\ BoardInfo' \in Info /\ file' \in File
    BY <1>0, <1>2 DEF PowerOff, QueryLost, Main, Typed, Info, NoInfo, File, Operator, Client,
       InDatabase, NotInDatabase
  <2>3. /\ at' \in Places /\ held' \in Value /\ args' \in BOOLEAN
        /\ prompt' \in {"none", "sent", "shown", "closed"}
        /\ handleDefaultMessage' \in {"notlocked", "true", "false"}
        /\ at' \notin Hands
    <3>1. FALSE \in BOOLEAN /\ 0 \in Value
      BY DEF Value, Client
    <3>. QED
      BY <3>1, <1>2 DEF PowerOff, Main, Places, Reading, Making, Opening, OfTester, OfSerial
  <2>4. server' \in Server /\ (server'.pc \in Shared \/ server'.step = "test")
    BY <1>0, <1>2, ServerAtRest DEF PowerOff, QueryLost, Main, Typed, ServerQuiet, Stopped
  <2>5. seen' \in Seen /\ seen'.started <= MaxSessions
    BY <1>0, <1>2 DEF PowerOff, QueryLost, Main, Typed, Seen
  <2>6. Typed' /\ HeldTyped'
    BY <1>h, <2>1, <2>2, <2>3, <2>4, <2>5 DEF Typed
  <2>. QED
    BY <1>q, <2>1, <2>6
<1>3. CASE ReadBoardInfoFile
  <2>1. QueryMoves /\ (server' = server \/ server'.step # "tell")
    BY <1>0, <1>3 DEF ReadBoardInfoFile, Updated, MayAsk, QueryMoves, ServerQuiet, Stopped
  <2>2. board' \in Info /\ BoardInfo' \in Info /\ file' \in File
    BY <1>0, <1>3 DEF ReadBoardInfoFile, Updated, MayAsk, Typed, Info, NoInfo, File, Operator,
       Client, InDatabase, NotInDatabase
  <2>3. /\ at' \in Places /\ held' \in Value /\ args' \in BOOLEAN
        /\ prompt' \in {"none", "sent", "shown", "closed"}
        /\ handleDefaultMessage' \in {"notlocked", "true", "false"}
        /\ at' \notin Hands
    BY <1>0, <1>3 DEF ReadBoardInfoFile, Updated, MayAsk, Typed, Value, Client, ServerQuiet,
       Places, Reading, Making, Opening, OfTester, OfSerial
  <2>4. server' \in Server /\ (server'.pc \in Shared \/ server'.step = "test")
    BY <1>0, <1>3, ServerAtRest DEF ReadBoardInfoFile, Updated, MayAsk, Typed, ServerQuiet
  <2>5. seen' \in Seen /\ seen'.started <= MaxSessions
    BY <1>0, <1>3 DEF ReadBoardInfoFile, Updated, MayAsk, Typed, Seen
  <2>6. Typed' /\ HeldTyped'
    BY <1>h, <2>1, <2>2, <2>3, <2>4, <2>5 DEF Typed
  <2>. QED
    BY <1>q, <2>1, <2>6
<1>4. CASE InitBoardInfoFile
  <2>1. QueryMoves /\ (server' = server \/ server'.step # "tell")
    BY <1>0, <1>4 DEF InitBoardInfoFile, Truncate, FillWithZeros, MayAsk, Empty, Full, Main,
       QueryMoves, ServerQuiet, Stopped
  <2>2. board' \in Info /\ BoardInfo' \in Info /\ file' \in File
    <3>1. UNCHANGED <<board, BoardInfo>> /\ file' \in {file, Empty, Full(NoInfo)}
      BY <1>4 DEF InitBoardInfoFile, Truncate, FillWithZeros
    <3>2. NoInfo \in Info /\ Empty \in File
      BY DEF NoInfo, Empty, Info, File, Client, Operator, NotInDatabase
    <3>3. NoInfo \in Info
      BY <3>2 DEF Typed
    <3>4. Full(NoInfo) \in File
      <4>1. Full(NoInfo).kind = "full" /\ Full(NoInfo).info \in Info
        BY <3>3, FullOf
      <4>. QED
        BY <4>1 DEF Full, File
    <3>. QED
      BY <1>0, <3>1, <3>4, <3>2 DEF Typed
  <2>3. /\ at' \in Places /\ held' \in Value /\ args' \in BOOLEAN
        /\ prompt' \in {"none", "sent", "shown", "closed"}
        /\ handleDefaultMessage' \in {"notlocked", "true", "false"}
        /\ at' \notin Hands
    BY <1>0, <1>4 DEF InitBoardInfoFile, Truncate, FillWithZeros, MayAsk, Empty, Full, Main,
       Typed, Value, Client, ServerQuiet, Places, Reading, Making, Opening, OfTester, OfSerial
  <2>4. server' \in Server /\ (server'.pc \in Shared \/ server'.step = "test")
    BY <1>0, <1>4, ServerAtRest DEF InitBoardInfoFile, Truncate, FillWithZeros, MayAsk, Empty,
       Full, Main, Typed, ServerQuiet
  <2>5. seen' \in Seen /\ seen'.started <= MaxSessions
    BY <1>0, <1>4 DEF InitBoardInfoFile, Truncate, FillWithZeros, MayAsk, Empty, Full, Main,
       Typed, Seen
  <2>6. Typed' /\ HeldTyped'
    BY <1>h, <2>1, <2>2, <2>3, <2>4, <2>5 DEF Typed
  <2>. QED
    BY <1>q, <2>1, <2>6
<1>5. CASE BootMacEntered
  <2>1. QueryMoves /\ (server' = server \/ server'.step # "tell")
    BY <1>0, <1>5 DEF BootMacEntered, Answers, QueryMoves, ServerQuiet, Stopped
  <2>2. board' \in Info /\ BoardInfo' \in Info /\ file' \in File
    <3>1. PICK mac \in 0..MaxSessions : board' = [board EXCEPT !.mac = mac]
      BY <1>0, <1>5 DEF BootMacEntered, Typed, Seen
    <3>. QED
      BY <1>0, <3>1, <1>5 DEF BootMacEntered, Typed, Info
  <2>3. /\ at' \in Places /\ held' \in Value /\ args' \in BOOLEAN
        /\ prompt' \in {"none", "sent", "shown", "closed"}
        /\ handleDefaultMessage' \in {"notlocked", "true", "false"}
        /\ at' \notin Hands
    BY <1>0, <1>5 DEF BootMacEntered, Answers, Typed, Value, Client, ServerQuiet, Places, Reading,
       Making, Opening, OfTester, OfSerial
  <2>4. server' \in Server /\ (server'.pc \in Shared \/ server'.step = "test")
    BY <1>0, <1>5, ServerAtRest DEF BootMacEntered, Answers, Typed, ServerQuiet
  <2>5. seen' \in Seen /\ seen'.started <= MaxSessions
    BY <1>0, <1>5 DEF BootMacEntered, Answers, Typed, Seen
  <2>6. Typed' /\ HeldTyped'
    BY <1>h, <2>1, <2>2, <2>3, <2>4, <2>5 DEF Typed
  <2>. QED
    BY <1>q, <2>1, <2>6
<1>6. CASE NameLookedUp
  <2>1. QueryMoves /\ (server' = server \/ server'.step # "tell")
    BY <1>0, <1>6 DEF NameLookedUp, Gives, Ask, Main, QueryMoves, ServerQuiet, Stopped
  <2>2. board' \in Info /\ BoardInfo' \in Info /\ file' \in File
    BY <1>0, <1>6 DEF NameLookedUp, Gives, Ask, Main, Typed, Info, NoInfo, File, Operator, Client,
       InDatabase, NotInDatabase
  <2>3. /\ at' \in Places /\ held' \in Value /\ args' \in BOOLEAN
        /\ prompt' \in {"none", "sent", "shown", "closed"}
        /\ handleDefaultMessage' \in {"notlocked", "true", "false"}
        /\ at' \notin Hands
    BY <1>0, <1>6 DEF NameLookedUp, Gives, Ask, Main, Typed, Value, Client, ServerQuiet, Places,
       Reading, Making, Opening, OfTester, OfSerial
  <2>4. server' \in Server /\ (server'.pc \in Shared \/ server'.step = "test")
    BY <1>0, <1>6, ServerAtRest DEF NameLookedUp, Gives, Ask, Main, Typed, ServerQuiet
  <2>5. seen' \in Seen /\ seen'.started <= MaxSessions
    BY <1>0, <1>6 DEF NameLookedUp, Gives, Ask, Main, Typed, Seen
  <2>6. Typed' /\ HeldTyped'
    BY <1>h, <2>1, <2>2, <2>3, <2>4, <2>5 DEF Typed
  <2>. QED
    BY <1>q, <2>1, <2>6
<1>7. CASE NameEntered
  <2>1. QueryMoves /\ (server' = server \/ server'.step # "tell")
    BY <1>0, <1>7 DEF NameEntered, Answers, QueryMoves, ServerQuiet, Stopped
  <2>2. board' \in Info /\ BoardInfo' \in Info /\ file' \in File
    BY <1>0, <1>7 DEF NameEntered, Answers, Typed, Info, NoInfo, File, Operator, Client,
       InDatabase, NotInDatabase
  <2>3. /\ at' \in Places /\ held' \in Value /\ args' \in BOOLEAN
        /\ prompt' \in {"none", "sent", "shown", "closed"}
        /\ handleDefaultMessage' \in {"notlocked", "true", "false"}
        /\ at' \notin Hands
    BY <1>0, <1>7 DEF NameEntered, Answers, Typed, Value, Client, ServerQuiet, Places, Reading,
       Making, Opening, OfTester, OfSerial
  <2>4. server' \in Server /\ (server'.pc \in Shared \/ server'.step = "test")
    BY <1>0, <1>7, ServerAtRest DEF NameEntered, Answers, Typed, ServerQuiet
  <2>5. seen' \in Seen /\ seen'.started <= MaxSessions
    BY <1>0, <1>7 DEF NameEntered, Answers, Typed, Seen
  <2>6. Typed' /\ HeldTyped'
    BY <1>h, <2>1, <2>2, <2>3, <2>4, <2>5 DEF Typed
  <2>. QED
    BY <1>q, <2>1, <2>6
<1>8. CASE UpdateBoardInfoFile
  <2>1. QueryMoves /\ (server' = server \/ server'.step # "tell")
    BY <1>0, <1>8 DEF UpdateBoardInfoFile, FileTakes, Full, Main, QueryMoves, ServerQuiet, Stopped
  <2>2. board' \in Info /\ BoardInfo' \in Info /\ file' \in File
    <3>1. UNCHANGED <<board, BoardInfo>> /\ file' \in {file, Full(BoardInfo)}
      BY <1>8 DEF UpdateBoardInfoFile, FileTakes
    <3>3. BoardInfo \in Info
      BY <1>0 DEF Typed
    <3>4. Full(BoardInfo) \in File
      <4>1. Full(BoardInfo).kind = "full" /\ Full(BoardInfo).info \in Info
        BY <3>3, FullOf
      <4>. QED
        BY <4>1 DEF Full, File
    <3>. QED
      BY <1>0, <3>1, <3>4 DEF Typed
  <2>3. /\ at' \in Places /\ held' \in Value /\ args' \in BOOLEAN
        /\ prompt' \in {"none", "sent", "shown", "closed"}
        /\ handleDefaultMessage' \in {"notlocked", "true", "false"}
        /\ at' \notin Hands
    BY <1>0, <1>8 DEF UpdateBoardInfoFile, FileTakes, Full, Main, Typed, Value, Client,
       ServerQuiet, Places, Reading, Making, Opening, OfTester, OfSerial
  <2>4. server' \in Server /\ (server'.pc \in Shared \/ server'.step = "test")
    BY <1>0, <1>8, ServerAtRest DEF UpdateBoardInfoFile, FileTakes, Full, Main, Typed, ServerQuiet
  <2>5. seen' \in Seen /\ seen'.started <= MaxSessions
    <3>1. board.mac \in 0..MaxSessions /\ (file' # Full(BoardInfo)) \in BOOLEAN
      BY <1>0 DEF Typed, Info
    <3>2. PICK d \in BOOLEAN : seen' = [seen EXCEPT !.kept = board.mac, !.dented = d]
      BY <1>8, <3>1 DEF UpdateBoardInfoFile
    <3>. QED
      BY <1>0, <3>1, <3>2 DEF Typed, Seen
  <2>6. Typed' /\ HeldTyped'
    BY <1>h, <2>1, <2>2, <2>3, <2>4, <2>5 DEF Typed
  <2>. QED
    BY <1>q, <2>1, <2>6
<1>9. CASE CallSetter
  <2>1. QueryMoves /\ UNCHANGED <<board, args, prompt, seen, server, handleDefaultMessage>>
    BY <1>9, SetterOf DEF ServerQuiet, QueryMoves
  <2>2. CASE /\ UNCHANGED <<BoardInfo, file>>
             /\ \/ at' = "store_mac" /\ held' = board["mac"]
                \/ at' = "store_tester" /\ held' = board["tester"]
                \/ at' = "store_rev" /\ held' = board["rev"]
                \/ at' = "store_serial" /\ held' = board["serial"]
                \/ at' = "store_fg" /\ held' = board["fg"]
                \/ at' = "store_name" /\ held' = board["name"]
    <3>1. HeldTyped'
      BY <1>0, <2>1, <2>2 DEF Typed, AllTypes, HeldTyped, Info
    <3>2. held' \in Value
      BY <1>0, <2>2 DEF Typed, Info, Value, Client, Operator, NotInDatabase
    <3>3. at' \in Places
      BY <2>2 DEF Places, Opening
    <3>. QED
      BY <1>0, <1>q, <2>1, <2>2, <3>1, <3>2, <3>3 DEF Typed
  <2>3. CASE /\ held' = 0
             /\ \/ at = "store_mac" /\ at' = "wait" /\ Set("mac", held)
                \/ at = "store_tester" /\ at' = "setrev" /\ Set("tester", held)
                \/ at = "store_rev" /\ at' = "setserial" /\ Set("rev", held)
                \/ at = "store_serial" /\ at' = "setfg" /\ Set("serial", held)
                \/ at = "store_fg" /\ at' = "fg" /\ Set("fg", held)
                \/ at = "store_name" /\ at' = "truncate" /\ Set("name", held)
    <3>1. PICK f \in Fields : Set(f, held) /\ Fits(f, held)
      BY <2>3 DEF Fields, Fits, AllTypes, HeldTyped
    <3>2. BoardInfo' \in Info /\ file' \in File
      BY <1>0, <3>1, SetRight DEF Typed
    <3>3. at' \in Places /\ at' \notin Hands /\ held' \in Value
      BY <2>3 DEF Places, OfTester, Value, Client
    <3>. QED
      BY <1>0, <1>h, <1>q, <2>1, <3>2, <3>3 DEF Typed
  <2>. QED
    BY <1>9, <2>2, <2>3, SetterOf
<1>10. ASSUME NEW f \in Identity, Fill(f)
       PROVE  AllTypes'
  <2>1. /\ QueryMoves /\ UNCHANGED <<board, BoardInfo, file, args, seen, server, handleDefaultMessage>>
        /\ at' \in {"serial", "rev", "ask_tester", "ask_serial", "put_tester", "put_serial"}
        /\ at' \in {"put_tester", "put_serial"} => held' = Argument
        /\ held' \in {held, Argument} /\ prompt' \in {prompt, "sent"}
    BY <1>10, FilledOf DEF ServerQuiet, QueryMoves, Putting
  <2>2. HeldTyped'
    BY <2>1 DEF AllTypes, HeldTyped, Argument, Client
  <2>3. Typed'
    BY <1>0, <2>1 DEF Typed, Places, OfTester, OfSerial, Value, Argument, Client
  <2>. QED
    BY <1>q, <2>1, <2>2, <2>3
<1>11. ASSUME NEW f \in Identity, Answered(f)
       PROVE  AllTypes'
  <2>1. /\ QueryMoves /\ UNCHANGED <<board, BoardInfo, file, args, server, handleDefaultMessage>>
        /\ at' \in {"reask_tester", "reask_serial", "put_tester", "put_serial"}
        /\ at' \in {"put_tester", "put_serial"} => held' \in {BoardInfo[f], Operator}
        /\ held' \in {held, BoardInfo[f], Operator} /\ prompt' \in {"none", "sent"}
        /\ UNCHANGED seen \/ seen' = [seen EXCEPT !.overruled = @ \cup ({f} \cap seen.heard)]
    BY <1>11, AnsweredOf DEF ServerQuiet, QueryMoves, Putting
  <2>2. BoardInfo[f] \in 0..Client /\ Operator \in 0..Client
    BY <1>0 DEF Typed, Info, Identity, Operator, Client
  <2>3. HeldTyped'
    BY <2>1, <2>2 DEF AllTypes, HeldTyped
  <2>4. seen' \in Seen /\ seen'.started <= MaxSessions
    BY <1>0, <2>1 DEF Typed, Seen
  <2>5. held' \in Value
    BY <1>0, <2>1, <2>2 DEF Typed, Value
  <2>6. Typed'
    BY <1>0, <2>1, <2>4, <2>5 DEF Typed, Places, OfTester, OfSerial
  <2>. QED
    BY <1>q, <2>1, <2>3, <2>6
<1>12. ASSUME NEW f \in Shared, Assign(f)
       PROVE  AllTypes'
  <2>1. /\ QueryMoves /\ UNCHANGED <<BoardInfo, file, args, prompt, server, handleDefaultMessage>>
        /\ board' = [board EXCEPT ![f] = held] /\ held' = 0
        /\ at' \in {"serial", "rev", "settester", "fg"}
    BY <1>12, AssignedOf DEF ServerQuiet, QueryMoves
  <2>2. /\ f \in {"serial", "tester"} => held \in 0..Client
        /\ f = "rev" => held \in {0, Operator}
        /\ f = "fg" => held \in 0..NotInDatabase
    BY <1>12, AssignedOf DEF AllTypes, HeldTyped
  <2>3. board' \in Info
    BY <1>0, <2>1, <2>2 DEF Typed, Info, Shared
  <2>4. seen' \in Seen /\ seen'.started <= MaxSessions
    <3>1. seen' = [seen EXCEPT !.crossed = @ \cup Crossing(f)] /\ Crossing(f) \subseteq Shared \ {"rev"}
      BY <1>12, AssignedOf
    <3>. QED
      BY <1>0, <3>1 DEF Typed, Seen
  <2>5. Typed'
    BY <1>0, <2>1, <2>3, <2>4 DEF Typed, Places, OfSerial, Value, Client
  <2>. QED
    BY <1>h, <1>q, <2>1, <2>5
<1>13. ASSUME NEW f \in Shared, TakeOver(f)
       PROVE  AllTypes'
  <2>1. /\ QueryMoves /\ UNCHANGED <<at, args, held, BoardInfo, file, prompt, handleDefaultMessage>>
        /\ server' \in Server /\ server'.step # "tell"
        /\ server'.pc \in Shared \/ server'.step = "test"
        /\ UNCHANGED board \/ board' = [board EXCEPT ![f] = server.msg[f]]
    BY <1>0, <1>13, TakenOf DEF QueryMoves, Typed, Shared
  <2>2. board' \in Info
    BY <1>0, <2>1 DEF Typed, Info, Server, Message, Shared, Operator, Client, NotInDatabase
  <2>3. seen' \in Seen /\ seen'.started <= MaxSessions
    <3>1. \/ UNCHANGED seen
          \/ seen' = [seen EXCEPT !.heard = @ \cup ({f} \cap Identity),
                        !.overruled = IF at = Put[f] THEN @ \cup ({f} \cap Identity) ELSE @]
      BY <1>0, <1>13, TakenOf DEF Typed
    <3>2. seen.heard \cup ({f} \cap Identity) \subseteq Identity /\ seen.overruled \cup ({f} \cap Identity) \subseteq Identity
      BY <1>0 DEF Typed, Seen
    <3>3. PICK heard \in SUBSET Identity, overruled \in SUBSET Identity :
            UNCHANGED seen \/ seen' = [seen EXCEPT !.heard = heard, !.overruled = overruled]
      <4>1. CASE at = Put[f]
        BY <3>1, <3>2, <4>1
      <4>2. CASE at # Put[f]
        <5>1. seen.overruled \subseteq Identity
          BY <1>0 DEF Typed, Seen
        <5>. QED
          BY <3>1, <3>2, <4>2, <5>1
      <4>. QED
        BY <4>1, <4>2
    <3>. QED
      BY <1>0, <3>3 DEF Typed, Seen
  <2>4. Typed'
    BY <1>0, <2>1, <2>2, <2>3 DEF Typed
  <2>. QED
    BY <1>h, <1>q, <2>1, <2>4
<1>14. ASSUME NEW f \in Shared, Tell(f)
       PROVE  AllTypes'
  <2>1. /\ QueryMoves /\ UNCHANGED <<at, args, held, board, handleDefaultMessage>>
        /\ server' \in Server
    BY <1>0, <1>14, ToldOf DEF QueryMoves, Typed
  <2>2. CASE server.step = "read"
    <3>1. /\ UNCHANGED <<BoardInfo, file, prompt, seen>>
          /\ server'.pc = f /\ server'.step = "tell" /\ server'.held = board[f]
      BY <1>0, <1>14, <2>2, ToldOf DEF Typed
    <3>2. HeldTyped'
      BY <1>0, <2>1, <3>1 DEF AllTypes, HeldTyped, Typed, Info, Identity
    <3>3. Typed'
      BY <1>0, <2>1, <3>1 DEF Typed
    <3>. QED
      BY <1>q, <2>1, <3>2, <3>3
  <2>3. CASE server.step # "read"
    <3>1. /\ server.pc = f /\ server.step = "tell" /\ Set(f, server.held) /\ notifyUserToCloseMessageBox
          /\ server'.step = "test"
          /\ seen' = [seen EXCEPT !.dented = @ \/ (file'.info.mac # file.info.mac /\ seen.kept # 0)]
      BY <1>0, <1>14, <2>3, ToldOf DEF Typed
    <3>2. f \in Fields /\ Fits(f, server.held)
      BY <3>1 DEF AllTypes, HeldTyped, Fits, Fields, Shared, Identity
    <3>3. BoardInfo' \in Info /\ file' \in File
      BY <1>0, <3>1, <3>2, SetRight DEF Typed
    <3>4. seen' \in Seen /\ seen'.started <= MaxSessions
      BY <1>0, <3>1 DEF Typed, Seen
    <3>5. prompt' \in {"none", "sent", "shown", "closed"}
      BY <1>0, <3>1 DEF notifyUserToCloseMessageBox, Typed
    <3>6. Typed'
      BY <1>0, <2>1, <3>1, <3>3, <3>4, <3>5 DEF Typed
    <3>. QED
      BY <1>h, <1>q, <2>1, <3>1, <3>6
  <2>. QED
    BY <2>2, <2>3
<1>15. CASE UNCHANGED vars
  BY <1>0, <1>15 DEF vars, boardVars, queryVars, AllTypes, TypeOK, QueryTypeOK, HeldTyped
<1>. QED
  BY <1>t, <1>s, <1>1, <1>2, <1>3, <1>4, <1>5, <1>6, <1>7, <1>8, <1>9, <1>10, <1>11, <1>12,
     <1>13, <1>14, <1>15 DEF Next, Talk, Serve

\* A step that leaves a field alone, and does not pass by its settling or its setter.
Busy(f) == server.pc = f /\ server.step # "test"
Passes(f) ==
  /\ board'[f] = board[f] /\ BoardInfo'[f] = BoardInfo[f]
  /\ f \in seen'.heard <=> f \in seen.heard
  /\ f \in seen.overruled => f \in seen'.overruled
  /\ f \in seen'.crossed <=> f \in seen.crossed
  /\ server' = server \/ (~Busy(f) /\ ~Busy(f)')
  /\ at' \in Filling(f) <=> at \in Filling(f)
  /\ at' \in Unset(f) <=> at \in Unset(f)
  /\ at' \in {Putting(f), Storing(f)} => at' = at /\ held' = held
\* Such a step keeps the field right.
LEMMA PassesBy ==
  ASSUME NEW f, FieldRight(f), Passes(f)
  PROVE  FieldRight(f)'
<1>1. CASE server' = server
  BY <1>1 DEF FieldRight, Unfilled, InHand, Filled, Stored, Passes, Serving, Untold, Storing,
     Putting
<1>2. CASE ~Busy(f) /\ ~Busy(f)'
  BY <1>2 DEF FieldRight, Unfilled, InHand, Filled, Stored, Passes, Serving, Untold, Storing,
     Putting, Busy
<1>. QED
  BY <1>1, <1>2 DEF Passes

\* Main and the server treat a field right.
LEMMA FieldKept ==
  ASSUME AllTypes, NEW f \in Identity, FieldRight(f), [Next]_vars
  PROVE  FieldRight(f)'
<1>0. Typed /\ f \in Fields /\ f \in {"serial", "tester"}
  BY DEF AllTypes, TypeOK, File, Typed, Fields, Identity
<1>a. ASSUME at' \in {"off", "speed"}, board'[f] = 0, BoardInfo'[f] = 0, seen'.heard = {}, seen'.crossed = {},
             server'.pc \in {"off", "idle"}
      PROVE  FieldRight(f)'
  <2>1. at' \in Filling(f) /\ at' \in Unset(f) /\ at' # Putting(f) /\ at' # Storing(f)
    BY <1>a DEF Filling, Unset, Opening, Reading, Putting, Storing
  <2>2. server'.pc # f
    BY <1>0, <1>a
  <2>. QED
    BY <1>a, <2>1, <2>2 DEF FieldRight, Unfilled, InHand, Filled, Stored, Serving, Untold,
       Putting, Storing
<1>t. CASE Talk
  <2>. Passes(f)
    BY <1>0, <1>t, Talks DEF Passes, SameRegion, SameSeen, Putting, Storing
  <2>. QED
    BY PassesBy
<1>s. CASE Serve
  <2>. Passes(f)
    BY <1>0, <1>s, Serves DEF Passes, SameSeen, Busy, Filling, Unset
  <2>. QED
    BY PassesBy
<1>1. CASE PowerOn
  BY <1>0, <1>a, <1>1 DEF PowerOn, Main, NoInfo, Typed, Seen, Stopped
<1>2. CASE PowerOff
  BY <1>0, <1>a, <1>2 DEF PowerOff, Main, NoInfo, Typed, Seen, Stopped
<1>3. CASE ReadBoardInfoFile
  <2>. Passes(f)
    BY <1>0, <1>3 DEF Passes, ReadBoardInfoFile, Updated, MayAsk, ServerQuiet, Typed, Info, Seen,
       Filling, Unset, Opening, Reading, Making, OfTester, OfSerial, Putting, Storing
  <2>. QED
    BY PassesBy
<1>4. CASE InitBoardInfoFile
  <2>. Passes(f)
    BY <1>0, <1>4 DEF Passes, InitBoardInfoFile, Truncate, FillWithZeros, MayAsk, Main,
       ServerQuiet, Typed, Info, Seen, Filling, Unset, Opening, Reading, Making, OfTester,
       OfSerial, Putting, Storing
  <2>. QED
    BY PassesBy
<1>5. CASE BootMacEntered
  <2>. Passes(f)
    BY <1>0, <1>5 DEF Passes, BootMacEntered, Answers, ServerQuiet, Typed, Info, Seen, Filling,
       Unset, Opening, Reading, Making, OfTester, OfSerial, Putting, Storing
  <2>. QED
    BY PassesBy
<1>6. CASE NameLookedUp
  <2>. Passes(f)
    BY <1>0, <1>6 DEF Passes, NameLookedUp, Gives, Ask, Main, ServerQuiet, Typed, Info, Seen,
       Filling, Unset, Opening, Reading, Making, OfTester, OfSerial, Putting, Storing
  <2>. QED
    BY PassesBy
<1>7. CASE NameEntered
  <2>. Passes(f)
    BY <1>0, <1>7 DEF Passes, NameEntered, Answers, ServerQuiet, Typed, Info, Seen, Filling,
       Unset, Opening, Reading, Making, OfTester, OfSerial, Putting, Storing
  <2>. QED
    BY PassesBy
<1>8. CASE UpdateBoardInfoFile
  <2>. Passes(f)
    BY <1>0, <1>8 DEF Passes, UpdateBoardInfoFile, Main, ServerQuiet, Typed, Info, Seen, Filling,
       Unset, Opening, Reading, Making, OfTester, OfSerial, Putting, Storing
  <2>. QED
    BY PassesBy
<1>9. CASE CallSetter
  <2>0. UNCHANGED <<board, seen, server>>
    BY <1>9, SetterOf DEF ServerQuiet
  <2>1. CASE at = (IF f = "serial" THEN "setserial" ELSE "settester")
    <3>1. at' = Storing(f) /\ held' = board[f] /\ UNCHANGED BoardInfo
      BY <1>0, <1>9, <2>1, SetterOf DEF Storing
    <3>2. at \notin Filling(f) /\ at' \notin Filling(f) /\ at' \in Unset(f) /\ at' # Putting(f)
      BY <1>0, <2>1, <3>1 DEF Storing, Putting, Filling, Unset, Opening, Reading, Making,
         OfTester, OfSerial
    <3>. QED
      BY <2>0, <3>1, <3>2 DEF FieldRight, Unfilled, InHand, Filled, Stored, Serving, Untold
  <2>2. CASE at = Storing(f)
    <3>1. Set(f, held) /\ at' = (IF f = "serial" THEN "setfg" ELSE "setrev")
      BY <1>0, <1>9, <2>2, SetterOf DEF Storing
    <3>2. at \notin Filling(f) /\ at' \notin Filling(f) /\ at' # Putting(f) /\ at' # Storing(f)
      BY <1>0, <2>2, <3>1 DEF Storing, Putting, Filling, Opening, Reading, Making, OfTester,
         OfSerial
    <3>3. Fits(f, held)
      BY <1>0, <2>2 DEF AllTypes, HeldTyped, Storing, Fits
    <3>4. held # 0 => BoardInfo'[f] = held
      BY <1>0, <3>1, <3>3, SetRight DEF Typed
    <3>. QED
      BY <2>0, <2>2, <3>2, <3>4 DEF FieldRight, Unfilled, InHand, Filled, Stored, Serving, Untold,
         Putting, Storing
  <2>3. CASE at \notin {Storing(f), IF f = "serial" THEN "setserial" ELSE "settester"}
    <3>1. BoardInfo'[f] = BoardInfo[f]
      <4>1. CASE UNCHANGED BoardInfo
        BY <4>1
      <4>2. CASE ~UNCHANGED BoardInfo
        <5>1. PICK g \in Fields \ {f} : Set(g, held) /\ Fits(g, held)
          BY <1>0, <1>9, <2>3, <4>2, SetterOf DEF Fields, Fits, AllTypes, HeldTyped, Storing
        <5>. QED
          BY <1>0, <5>1, SetRight DEF Typed
      <4>. QED
        BY <4>1, <4>2
    <3>2. /\ at' \in Filling(f) <=> at \in Filling(f)
          /\ at' \in Unset(f) <=> at \in Unset(f)
          /\ at' \notin {Putting(f), Storing(f)}
      BY <1>0, <1>9, <2>3, SetterOf DEF Filling, Unset, Opening, Reading, Making, OfTester,
         OfSerial, Putting, Storing
    <3>. QED
      BY <2>0, <3>1, <3>2, PassesBy DEF Passes
  <2>. QED
    BY <2>1, <2>2, <2>3
<1>10. ASSUME NEW g \in Identity, Fill(g)
       PROVE  FieldRight(f)'
  <2>1. /\ at = g /\ UNCHANGED <<board, BoardInfo, seen, server>>
        /\ \/ at' = (IF g = "tester" THEN "serial" ELSE "rev") /\ board[g] # 0
           \/ at' = Putting(g) /\ board[g] = 0 /\ held' = Argument
           \/ at' = (IF g = "tester" THEN "ask_tester" ELSE "ask_serial")
    BY <1>10, FilledOf DEF ServerQuiet
  <2>2. CASE g # f
    BY <1>0, <2>1, <2>2, PassesBy DEF Passes, Identity, Filling, Unset, Opening, Reading, Making,
       OfTester, OfSerial, Putting, Storing
  <2>3. CASE g = f /\ at' = (IF f = "tester" THEN "ask_tester" ELSE "ask_serial")
    BY <1>0, <2>1, <2>3, PassesBy DEF Passes, Filling, Unset, Opening, Reading, Making, OfTester,
       OfSerial, Putting, Storing
  <2>4. CASE g = f /\ at' = (IF f = "tester" THEN "serial" ELSE "rev")
    <3>1. at \in Filling(f) /\ at' \notin Filling(f) /\ at' \in Unset(f) /\ at' # Putting(f) /\ at' # Storing(f)
      BY <1>0, <2>1, <2>4 DEF Filling, Unset, Opening, Reading, Making, OfTester, OfSerial,
         Putting, Storing
    <3>2. board[f] # 0
      BY <1>0, <2>1, <2>4 DEF Putting
    <3>. QED
      BY <2>1, <3>1, <3>2 DEF FieldRight, Unfilled, InHand, Filled, Stored, Serving, Untold,
         Putting, Storing
  <2>5. CASE g = f /\ at' = Putting(f)
    <3>1. at \in Filling(f) /\ at' \in Filling(f) /\ at' \in Unset(f) /\ at' # Storing(f)
      BY <1>0, <2>1, <2>5 DEF Filling, Unset, Opening, Reading, Making, OfTester, OfSerial,
         Putting, Storing
    <3>2. board[f] = 0 /\ held' = Argument
      BY <1>0, <2>1, <2>5 DEF Putting
    <3>. QED
      BY <2>1, <3>1, <3>2 DEF FieldRight, Unfilled, InHand, Filled, Stored, Serving, Untold,
         Putting, Storing, Argument
  <2>. QED
    BY <2>1, <2>2, <2>3, <2>4, <2>5
<1>11. ASSUME NEW g \in Identity, Answered(g)
       PROVE  FieldRight(f)'
  <2>1. /\ at \in (IF g = "tester" THEN {"ask_tester", "reask_tester"} ELSE {"ask_serial", "reask_serial"})
        /\ UNCHANGED <<board, BoardInfo, server>>
        /\ \/ at' = (IF g = "tester" THEN "reask_tester" ELSE "reask_serial") /\ UNCHANGED seen
           \/ /\ at' = Putting(g)
              /\ \/ BoardInfo[g] # 0 /\ held' = BoardInfo[g] /\ UNCHANGED seen
                 \/ /\ held' = Operator
                    /\ \/ seen' = [seen EXCEPT !.overruled = @ \cup ({g} \cap seen.heard)]
                       \/ UNCHANGED seen /\ BoardInfo[g] = 0 /\ ~Untold(g)
    BY <1>11, AnsweredOf DEF ServerQuiet
  <2>2. CASE g # f
    <3>1. /\ f \in seen'.heard <=> f \in seen.heard
          /\ f \in seen.overruled => f \in seen'.overruled
          /\ f \in seen'.crossed <=> f \in seen.crossed
      BY <1>0, <2>1 DEF Typed, Seen
    <3>2. /\ at' \in Filling(f) <=> at \in Filling(f)
          /\ at' \in Unset(f) <=> at \in Unset(f)
          /\ at' \notin {Putting(f), Storing(f)}
      BY <1>0, <2>1, <2>2 DEF Identity, Filling, Unset, Opening, Reading, Making, OfTester,
         OfSerial, Putting, Storing
    <3>. QED
      BY <2>1, <3>1, <3>2, PassesBy DEF Passes
  <2>3. CASE g = f /\ at' = (IF f = "tester" THEN "reask_tester" ELSE "reask_serial")
    <3>1. UNCHANGED seen
      BY <1>0, <2>1, <2>3 DEF Putting
    <3>. QED
      BY <1>0, <2>1, <2>3, <3>1, PassesBy DEF Passes, Filling, Unset, Opening, Reading, Making,
         OfTester,
         OfSerial, Putting, Storing
  <2>4. CASE g = f /\ at' = Putting(f)
    <3>1. at \in Filling(f) /\ at' \in Filling(f) /\ at' \in Unset(f) /\ at' # Storing(f)
      BY <1>0, <2>1, <2>4 DEF Filling, Unset, Opening, Reading, Making, OfTester, OfSerial,
         Putting, Storing
    <3>2. /\ seen'.heard = seen.heard /\ seen'.crossed = seen.crossed
          /\ \/ BoardInfo[f] # 0 /\ held' = BoardInfo[f]
             \/ held' = Operator /\ (f \in seen.heard => f \in seen'.overruled)
             \/ held' = Operator /\ BoardInfo[f] = 0 /\ ~Untold(f)
      <4>1. CASE UNCHANGED seen
        BY <1>0, <2>1, <2>4, <4>1 DEF Putting, Typed, Seen
      <4>2. CASE seen' = [seen EXCEPT !.overruled = @ \cup ({f} \cap seen.heard)]
        BY <1>0, <2>1, <2>4, <4>2 DEF Putting, Typed, Seen
      <4>. QED
        BY <1>0, <2>1, <2>4, <4>1, <4>2 DEF Putting
    <3>. QED
      BY <2>1, <3>1, <3>2 DEF FieldRight, Unfilled, InHand, Filled, Stored, Serving, Untold,
         Putting,
         Storing, Operator, Client
  <2>. QED
    BY <2>1, <2>2, <2>3, <2>4
<1>12. ASSUME NEW g \in Shared, Assign(g)
       PROVE  FieldRight(f)'
  <2>1. /\ UNCHANGED <<BoardInfo, server>> /\ board' = [board EXCEPT ![g] = held]
        /\ \/ g = "tester" /\ at = "put_tester" /\ at' = "serial"
           \/ g = "serial" /\ at = "put_serial" /\ at' = "rev"
           \/ g = "rev" /\ at = "put_rev" /\ at' = "settester"
           \/ g = "fg" /\ at = "put_fg" /\ at' = "fg"
        /\ seen' = [seen EXCEPT !.crossed = @ \cup Crossing(g)]
        /\ g # "rev" /\ server.pc = g /\ server.step \in {"assign", "tell"} => Crossing(g) = {g}
        /\ Crossing(g) \subseteq {g} \ {"rev"}
    BY <1>12, AssignedOf DEF ServerQuiet
  <2>2. /\ seen'.heard = seen.heard /\ seen'.overruled = seen.overruled
        /\ seen'.crossed = seen.crossed \cup Crossing(g)
    BY <1>0, <2>1 DEF Typed, Seen
  <2>3. CASE g # f
    <3>1. board'[f] = board[f] /\ (f \in seen'.crossed <=> f \in seen.crossed)
      BY <1>0, <2>1, <2>2, <2>3 DEF Typed, Info
    <3>2. /\ at' \in Filling(f) <=> at \in Filling(f)
          /\ at' \in Unset(f) <=> at \in Unset(f)
          /\ at' \notin {Putting(f), Storing(f)}
      BY <1>0, <2>1, <2>3 DEF Filling, Unset, Opening, Reading, Making, OfTester, OfSerial,
         Putting, Storing
    <3>. QED
      BY <2>1, <2>2, <3>1, <3>2, PassesBy DEF Passes
  <2>4. CASE g = f
    <3>1. board'[f] = held
      BY <1>0, <2>1, <2>4 DEF Typed, Info
    <3>2. /\ at = Putting(f) /\ at \in Filling(f)
          /\ at' \notin Filling(f) /\ at' \in Unset(f) /\ at' # Putting(f) /\ at' # Storing(f)
      BY <1>0, <2>1, <2>4 DEF Filling, Unset, Opening, Reading, Making, OfTester, OfSerial,
         Putting, Storing
    <3>3. f \notin seen'.crossed => ~Serving(f, "assign") /\ ~Serving(f, "tell")
      BY <1>0, <2>1, <2>2, <2>4 DEF Serving
    <3>. QED
      BY <2>1, <2>2, <3>1, <3>2, <3>3 DEF FieldRight, Unfilled, InHand, Filled, Stored, Serving,
         Untold
  <2>. QED
    BY <2>3, <2>4
<1>13. ASSUME NEW g \in Shared, TakeOver(g)
       PROVE  FieldRight(f)'
  <2>1. /\ server.pc = g /\ UNCHANGED <<at, held, BoardInfo>>
        /\ \/ /\ server.step = "test" /\ UNCHANGED <<board, seen>>
              /\ \/ board[g] = 0 /\ server'.pc = g /\ server'.step = "assign"
                 \/ server'.pc # g /\ server'.step = "test"
           \/ /\ server.step = "assign" /\ board' = [board EXCEPT ![g] = server.msg[g]]
              /\ server.msg[g] = 0 /\ UNCHANGED seen /\ server'.pc # g /\ server'.step = "test"
           \/ /\ server.step = "assign" /\ board' = [board EXCEPT ![g] = server.msg[g]]
              /\ server.msg[g] # 0 /\ server'.pc = g /\ server'.step = "read"
              /\ seen' = [seen EXCEPT !.heard = @ \cup ({g} \cap Identity),
                    !.overruled = IF at = Put[g] THEN @ \cup ({g} \cap Identity) ELSE @]
    BY <1>0, <1>13, TakenOf DEF Typed
  <2>2. CASE g # f
    <3>1. board'[f] = board[f]
      BY <1>0, <2>1, <2>2 DEF Typed, Info
    <3>2. /\ f \in seen'.heard <=> f \in seen.heard
          /\ f \in seen.overruled => f \in seen'.overruled
          /\ f \in seen'.crossed <=> f \in seen.crossed
      <4>1. CASE UNCHANGED seen
        BY <4>1
      <4>2. CASE ~UNCHANGED seen
        <5>1. PICK overruled \in {seen.overruled, seen.overruled \cup ({g} \cap Identity)} :
                seen' = [seen EXCEPT !.heard = @ \cup ({g} \cap Identity), !.overruled = overruled]
          BY <2>1, <4>2
        <5>. QED
          BY <1>0, <2>2, <5>1 DEF Typed, Seen
      <4>. QED
        BY <4>1, <4>2
    <3>3. ~Busy(f) /\ ~Busy(f)'
      BY <2>1, <2>2 DEF Busy
    <3>. QED
      BY <2>1, <3>1, <3>2, <3>3, PassesBy DEF Passes, Filling, Unset, Putting, Storing
  <2>3. CASE g = f /\ server.step = "test"
    BY <2>1, <2>3 DEF FieldRight, Unfilled, InHand, Filled, Stored, Serving, Untold, Filling,
       Unset,
       Putting, Storing
  <2>4. CASE g = f /\ server.step = "assign"
    <3>1. board'[f] = server.msg[f] /\ server.msg[f] \in {0, Client}
      BY <1>0, <2>1, <2>4 DEF Typed, Info, Server, Message
    <3>2. f \notin seen.heard
      BY <2>1, <2>4 DEF FieldRight, Serving
    <3>3. CASE server.msg[f] = 0
      BY <2>1, <2>4, <3>1, <3>2, <3>3 DEF FieldRight, Unfilled, InHand, Filled, Stored, Serving,
         Untold,
         Filling, Unset, Putting, Storing
    <3>4. CASE server.msg[f] # 0
      <4>1. {f} \cap Identity = {f} /\ Put[f] = Putting(f)
        <5>1. Put["tester"] = "put_tester" /\ Put["serial"] = "put_serial"
          BY DEF Put
        <5>. QED
          BY <1>0, <5>1 DEF Putting
      <4>2. seen' = [seen EXCEPT !.heard = @ \cup {f}, !.overruled = IF at = Putting(f) THEN @ \cup {f} ELSE @]
        BY <2>1, <2>4, <3>4, <4>1
      <4>3. /\ f \in seen'.heard /\ seen'.crossed = seen.crossed
            /\ at = Putting(f) => f \in seen'.overruled
        BY <1>0, <4>2 DEF Typed, Seen
      <4>4. /\ UNCHANGED <<at, held, BoardInfo>> /\ server.pc = f /\ server.step = "assign"
            /\ server'.pc = f /\ server'.step = "read" /\ board'[f] = Client
        BY <2>1, <2>4, <3>1, <3>4
      <4>5. Storing(f) \notin Filling(f) /\ Filling(f) \subseteq Unset(f)
        BY <1>0 DEF Storing, Filling, Unset, Opening, Reading, Making, OfTester, OfSerial
      <4>6. Filling(f)' = Filling(f) /\ Unset(f)' = Unset(f) /\ Putting(f)' = Putting(f) /\ Storing(f)' = Storing(f)
        BY DEF Filling, Unset, Putting, Storing
      <4>7. f \in seen.crossed \/ at \in Filling(f)
        BY <4>4 DEF FieldRight, Filled, Serving
      <4>. QED
        BY <3>2, <4>3, <4>4, <4>5, <4>6, <4>7 DEF FieldRight, Unfilled, InHand, Filled, Stored,
           Serving,
           Untold, Client
    <3>. QED
      BY <3>3, <3>4
  <2>. QED
    BY <2>1, <2>2, <2>3, <2>4
<1>14. ASSUME NEW g \in Shared, Tell(g)
       PROVE  FieldRight(f)'
  <2>1. /\ server.pc = g /\ UNCHANGED <<at, held, board>>
        /\ \/ /\ server.step = "read" /\ UNCHANGED <<BoardInfo, seen>>
              /\ server'.pc = g /\ server'.step = "tell" /\ server'.held = board[g]
           \/ /\ server.step = "tell" /\ Set(g, server.held)
              /\ server'.pc # g /\ server'.step = "test"
              /\ seen' = [seen EXCEPT !.dented =
                   @ \/ (file'.info.mac # file.info.mac /\ seen.kept # 0)]
    BY <1>0, <1>14, ToldOf DEF Typed
  <2>2. /\ seen'.heard = seen.heard /\ seen'.overruled = seen.overruled /\ seen'.crossed = seen.crossed
    BY <1>0, <2>1 DEF Typed, Seen
  <2>3. server.step = "tell" => g \in Fields /\ Fits(g, server.held)
    BY <2>1 DEF AllTypes, HeldTyped, Fits, Fields, Shared, Identity
  <2>4. CASE g # f
    <3>1. BoardInfo'[f] = BoardInfo[f]
      BY <1>0, <2>1, <2>3, <2>4, SetRight DEF Typed
    <3>2. ~Busy(f) /\ ~Busy(f)'
      BY <2>1, <2>4 DEF Busy
    <3>. QED
      BY <2>1, <2>2, <3>1, <3>2, PassesBy DEF Passes, Filling, Unset, Putting, Storing
  <2>5. CASE g = f /\ server.step = "read"
    BY <2>1, <2>5 DEF FieldRight, Unfilled, InHand, Filled, Stored, Serving, Untold, Filling,
       Unset,
       Putting, Storing
  <2>6. CASE g = f /\ server.step = "tell"
    <3>1. server.held # 0 => BoardInfo'[f] = server.held
      BY <1>0, <2>1, <2>3, <2>6, SetRight DEF Typed
    <3>2. /\ UNCHANGED <<at, held, board>> /\ server.pc = f /\ server'.pc # f
      BY <2>1, <2>6
    <3>. QED
      BY <2>2, <2>6, <3>1, <3>2 DEF FieldRight, Unfilled, InHand, Filled, Stored, Serving, Untold,
         Filling, Unset, Putting, Storing
  <2>. QED
    BY <2>1, <2>4, <2>5, <2>6
<1>15. CASE UNCHANGED vars
  BY <1>15, PassesBy DEF Passes, vars, boardVars, Filling, Unset, Putting, Storing
<1>. QED
  BY <1>t, <1>s, <1>1, <1>2, <1>3, <1>4, <1>5, <1>6, <1>7, <1>8, <1>9, <1>10, <1>11, <1>12,
     <1>13, <1>14, <1>15 DEF Next, Talk, Serve

\* The MAC and the file.
MacRight == MacSet /\ FileTold /\ MacOutlives

\* A step that leaves the MAC and the file alone.
Rests ==
  /\ board'.mac = board.mac /\ UNCHANGED <<BoardInfo, file>>
  /\ seen'.kept = seen.kept /\ seen'.dented = seen.dented /\ seen.crossed \subseteq seen'.crossed
  /\ at' \in Opening <=> at \in Opening
  /\ at' \in Reading <=> at \in Reading
  /\ at' \in Making <=> at \in Making
  /\ at' \in {"zero", "update"} <=> at \in {"zero", "update"}
  /\ at' = "done" <=> at = "done"
  /\ at' = "store_mac" => at' = at /\ held' = held
\* Such a step keeps them right.
LEMMA RestsRight ==
  ASSUME MacRight, Rests
  PROVE  MacRight'
<1>1. MacSet' /\ MacOutlives'
  BY DEF MacRight, MacSet, MacOutlives, Rests
<1>2. FileTold'
  BY DEF MacRight, FileTold, Rests
<1>. QED
  BY <1>1, <1>2 DEF MacRight

\* Main and the server treat the MAC and the file right.
LEMMA MacRightKept ==
  ASSUME AllTypes, MacRight, FieldRight("serial"), FieldRight("tester"), [Next]_vars
  PROVE  MacRight'
<1>0. Typed
  BY DEF AllTypes, TypeOK, File, Typed
<1>. USE DEF MacRight
<1>t. CASE Talk
  <2>. Rests
    BY <1>0, <1>t, Talks DEF Rests, SameRegion, SameSeen
  <2>. QED
    BY RestsRight
<1>s. CASE Serve
  <2>. Rests
    BY <1>0, <1>s, Serves DEF Rests, SameSeen
  <2>. QED
    BY RestsRight
<1>1. CASE PowerOn
  <2>1. UNCHANGED file /\ at = "off" /\ at' = "speed" /\ seen'.kept = seen.kept /\ seen'.dented = seen.dented
    BY <1>0, <1>1 DEF PowerOn, Main, Typed, Seen
  <2>. QED
    BY <2>1 DEF MacSet, FileTold, MacOutlives, Opening, Reading, Making
<1>2. CASE PowerOff
  <2>1. /\ UNCHANGED file /\ at' = "off" /\ seen'.kept = seen.kept
        /\ ~seen'.dented => ~seen.dented /\ at \notin {"zero", "update"}
    BY <1>0, <1>2 DEF PowerOff, Main, Typed, Seen
  <2>. QED
    BY <2>1 DEF MacSet, FileTold, MacOutlives, Opening, Reading, Making
<1>3. CASE ReadBoardInfoFile
  <2>1. at = "read" /\ UNCHANGED <<file, seen>>
    BY <1>3 DEF ReadBoardInfoFile
  <2>2. CASE file.kind = "full"
    <3>1. board'.mac = file.info.mac /\ BoardInfo'.mac = file.info.mac /\ at' = "setmac"
      BY <1>0, <1>3, <2>2 DEF ReadBoardInfoFile, Updated, Typed, Info
    <3>. QED
      BY <2>1, <2>2, <3>1 DEF MacSet, FileTold, MacOutlives, Opening, Reading, Making
  <2>3. CASE file.kind # "full"
    <3>1. at' \in {"setmac", "ask_mac", "create"}
      BY <1>3, <2>3 DEF ReadBoardInfoFile, MayAsk
    <3>2. ~(seen.kept # 0 /\ ~seen.dented)
      BY <2>1, <2>3 DEF MacOutlives
    <3>. QED
      BY <2>1, <3>1, <3>2 DEF MacSet, FileTold, MacOutlives, Opening, Making
  <2>. QED
    BY <2>2, <2>3
<1>4. CASE InitBoardInfoFile
  <2>1. UNCHANGED <<board, BoardInfo, seen>>
    BY <1>4 DEF InitBoardInfoFile
  <2>2. CASE at \in Making
    <3>1. at' \in {"created", "setmac", "ask_mac"}
      BY <1>4, <2>2 DEF InitBoardInfoFile, Truncate, FillWithZeros, MayAsk, Main, Making
    <3>. QED
      BY <2>1, <2>2, <3>1 DEF MacSet, FileTold, MacOutlives, Opening, Making
  <2>3. CASE at \notin Making
    <3>1. at \in {"truncate", "zero"} /\ at' \in {"zero", "update"}
      BY <1>4, <2>3 DEF InitBoardInfoFile, Truncate, FillWithZeros, Main, Making
    <3>. QED
      BY <2>1, <3>1 DEF MacSet, FileTold, MacOutlives, Opening, Reading, Making
  <2>. QED
    BY <2>2, <2>3
<1>5. CASE BootMacEntered
  <2>1. at = "ask_mac" /\ at' = "setmac" /\ UNCHANGED <<BoardInfo, file, seen>>
    BY <1>5 DEF BootMacEntered, Answers
  <2>. QED
    BY <2>1 DEF MacSet, FileTold, MacOutlives, Opening, Making
<1>6. CASE NameLookedUp
  <2>. Rests
    BY <1>0, <1>6 DEF Rests, NameLookedUp, Gives, Ask, ServerQuiet, Main, Typed, Info, Opening,
       Reading, Making
  <2>. QED
    BY RestsRight
<1>7. CASE NameEntered
  <2>. Rests
    BY <1>0, <1>7 DEF Rests, NameEntered, Answers, ServerQuiet, Main, Typed, Info, Opening,
       Reading, Making
  <2>. QED
    BY RestsRight
<1>8. CASE UpdateBoardInfoFile
  <2>1. /\ at = "update" /\ at' = "done" /\ UNCHANGED <<board, BoardInfo>>
        /\ seen'.kept = board.mac /\ seen'.dented = (file' # Full(BoardInfo))
    BY <1>0, <1>8 DEF UpdateBoardInfoFile, Main, Typed, Seen
  <2>2. /\ Full(BoardInfo).kind = "full"
        /\ \A f \in {"mac", "serial", "tester"} : Full(BoardInfo).info[f] = BoardInfo[f]
    BY <1>0, FullOf DEF Typed
  <2>3. ~seen'.dented => file' = Full(BoardInfo)
    BY <2>1
  <2>4. BoardInfo.mac = board.mac
    BY <2>1 DEF MacSet, Opening, Reading, Making
  <2>. QED
    BY <2>1, <2>2, <2>3, <2>4 DEF MacSet, FileTold, MacOutlives, Opening, Reading, Making
<1>9. CASE CallSetter
  <2>0. UNCHANGED <<board, seen>>
    BY <1>9, SetterOf
  <2>1. /\ at \notin Reading \cup Making \cup {"zero", "update", "done"}
        /\ at' \notin Reading \cup Making \cup {"zero", "update", "done"}
        /\ at' \in Opening <=> at = "setmac"
        /\ at \in Opening => at \in {"setmac", "store_mac"}
        /\ at' = "store_mac" => held' = board.mac
    BY <1>9, SetterOf DEF Reading, Making, Opening
  <2>2. CASE UNCHANGED <<BoardInfo, file>> /\ at # "store_mac"
    BY <2>0, <2>1, <2>2 DEF MacSet, FileTold, MacOutlives
  <2>3. CASE ~(UNCHANGED <<BoardInfo, file>> /\ at # "store_mac")
    <3>1. PICK f \in Fields : Set(f, held) /\ Fits(f, held) /\ (f = "mac" <=> at = "store_mac") /\ at # "setmac"
      BY <1>9, <2>3, SetterOf DEF Fields, Fits, AllTypes, HeldTyped
    <3>2. /\ BoardInfo' \in Info
          /\ f # "mac" => BoardInfo'.mac = BoardInfo.mac
          /\ f = "mac" => BoardInfo'.mac = held
          /\ file' = file \/ file' = Full(BoardInfo')
      <4>1. "mac" \in Fields
        BY DEF Fields
      <4>. QED
        BY <1>0, <3>1, <4>1, SetRight DEF Typed
    <3>3. BoardInfo'.mac = board.mac
      BY <2>1, <3>1, <3>2 DEF MacSet
    <3>4. Full(BoardInfo').kind = "full" /\ Full(BoardInfo').info.mac = BoardInfo'.mac
      BY <3>2, FullOf
    <3>5. file' = file \/ (file'.kind = "full" /\ file'.info.mac = board.mac)
      BY <3>2, <3>3, <3>4
    <3>6. MacOutlives'
      BY <2>0, <2>1, <3>3, <3>5 DEF MacOutlives
    <3>. QED
      BY <2>0, <2>1, <3>1, <3>3, <3>6 DEF MacSet, FileTold
  <2>. QED
    BY <2>2, <2>3
<1>10. ASSUME NEW f \in Identity, Fill(f)
       PROVE  MacRight'
  <2>1. /\ at = f /\ UNCHANGED <<board, BoardInfo, file, seen>>
        /\ at' \in {"serial", "rev", "ask_tester", "ask_serial", "put_tester", "put_serial"}
    BY <1>10, FilledOf DEF Putting
  <2>. QED
    BY <2>1, RestsRight DEF Rests, Identity, Opening, Reading, Making
<1>11. ASSUME NEW f \in Identity, Answered(f)
       PROVE  MacRight'
  <2>1. /\ at \in {"ask_tester", "reask_tester", "ask_serial", "reask_serial"}
        /\ at' \in {"reask_tester", "reask_serial", "put_tester", "put_serial"}
        /\ UNCHANGED <<board, BoardInfo, file>>
        /\ UNCHANGED seen \/ seen' = [seen EXCEPT !.overruled = @ \cup ({f} \cap seen.heard)]
    BY <1>11, AnsweredOf DEF Putting
  <2>2. seen'.kept = seen.kept /\ seen'.dented = seen.dented /\ seen'.crossed = seen.crossed
    BY <1>0, <2>1 DEF Typed, Seen
  <2>. QED
    BY <2>1, <2>2, RestsRight DEF Rests, Opening, Reading, Making
<1>12. ASSUME NEW f \in Shared, Assign(f)
       PROVE  MacRight'
  <2>1. /\ at \in {"put_tester", "put_serial", "put_rev", "put_fg"}
        /\ at' \in {"serial", "rev", "settester", "fg"}
        /\ UNCHANGED <<BoardInfo, file>> /\ board' = [board EXCEPT ![f] = held]
        /\ seen' = [seen EXCEPT !.crossed = @ \cup Crossing(f)]
    BY <1>12, AssignedOf
  <2>2. /\ seen'.kept = seen.kept /\ seen'.dented = seen.dented /\ seen.crossed \subseteq seen'.crossed
        /\ board'.mac = board.mac
    BY <1>0, <2>1 DEF Typed, Seen, Info, Shared
  <2>. QED
    BY <2>1, <2>2, RestsRight DEF Rests, Opening, Reading, Making
<1>13. ASSUME NEW f \in Shared, TakeOver(f)
       PROVE  MacRight'
  <2>1. /\ UNCHANGED <<at, held, BoardInfo, file>>
        /\ UNCHANGED board \/ board' = [board EXCEPT ![f] = server.msg[f]]
        /\ \/ UNCHANGED seen
           \/ seen' = [seen EXCEPT !.heard = @ \cup ({f} \cap Identity),
                         !.overruled = IF at = Put[f] THEN @ \cup ({f} \cap Identity) ELSE @]
    BY <1>0, <1>13, TakenOf DEF Typed
  <2>2. seen'.kept = seen.kept /\ seen'.dented = seen.dented /\ seen'.crossed = seen.crossed
    BY <1>0, <2>1 DEF Typed, Seen
  <2>3. board'.mac = board.mac
    BY <1>0, <2>1 DEF Typed, Info, Shared
  <2>. QED
    BY <2>1, <2>2, <2>3, RestsRight DEF Rests
<1>14. ASSUME NEW f \in Shared, Tell(f)
       PROVE  MacRight'
  <2>1. /\ server.pc = f /\ UNCHANGED <<at, held, board>>
        /\ \/ server.step = "read" /\ UNCHANGED <<BoardInfo, file, seen>>
           \/ /\ server.step = "tell" /\ Set(f, server.held)
              /\ seen' = [seen EXCEPT !.dented =
                   @ \/ (file'.info.mac # file.info.mac /\ seen.kept # 0)]
    BY <1>0, <1>14, ToldOf DEF Typed
  <2>2. CASE server.step = "read"
    BY <2>1, <2>2, RestsRight DEF Rests
  <2>3. CASE server.step = "tell"
    <3>1. /\ seen'.kept = seen.kept /\ seen'.crossed = seen.crossed
          /\ seen'.dented = (seen.dented \/ (file'.info.mac # file.info.mac /\ seen.kept # 0))
      BY <1>0, <2>1, <2>3 DEF Typed, Seen
    <3>2. f \in Fields /\ Fits(f, server.held) /\ f # "mac"
      BY <2>1, <2>3 DEF AllTypes, HeldTyped, Fits, Fields, Shared, Identity
    <3>3. /\ BoardInfo' \in Info
          /\ \A g \in Fields : g # f => BoardInfo'[g] = BoardInfo[g]
          /\ f = "serial" \/ (f = "tester" /\ server.held # 0) => BoardInfo'[f] = server.held
          /\ file' = file \/ file' = Full(BoardInfo')
      BY <1>0, <2>1, <2>3, <3>2, SetRight DEF Typed
    <3>4. /\ Full(BoardInfo').kind = "full"
          /\ \A g \in {"mac", "serial", "tester"} : Full(BoardInfo').info[g] = BoardInfo'[g]
      BY <3>3, FullOf
    <3>5. BoardInfo'.mac = BoardInfo.mac
      BY <3>2, <3>3 DEF Fields
    <3>6. ASSUME at = "done", NEW g \in {"mac", "serial", "tester"} \ seen.crossed
          PROVE  BoardInfo'[g] = BoardInfo[g]
      <4>1. CASE g # f
        BY <3>3, <3>6, <4>1 DEF Fields
      <4>2. CASE g = f
        <5>1. FieldRight(f) /\ f \in {"serial", "tester"}
          BY <3>2, <3>6, <4>2
        <5>2. at \notin Filling(f) /\ at \notin Unset(f)
          BY <3>6, <5>1 DEF Filling, Unset, Opening, Reading, Making, OfTester, OfSerial
        <5>3. board[f] # 0 /\ server.held = board[f] /\ BoardInfo[f] = board[f]
          BY <2>1, <2>3, <3>6, <4>2, <5>1, <5>2 DEF FieldRight, Filled, Stored, Serving
        <5>. QED
          BY <3>3, <4>2, <5>1, <5>3
      <4>. QED
        BY <4>1, <4>2
    <3>7. FileTold'
      <4>1. file' = file \/ \A g \in {"mac", "serial", "tester"} : file'.info[g] = BoardInfo'[g]
        BY <3>3, <3>4
      <4>. QED
        BY <2>1, <3>1, <3>6, <4>1 DEF FileTold
    <3>8. file' = file \/ (file'.kind = "full" /\ file'.info.mac = BoardInfo.mac)
      BY <3>3, <3>4, <3>5
    <3>9. MacOutlives'
      BY <2>1, <3>1, <3>5, <3>8 DEF MacOutlives
    <3>. QED
      BY <2>1, <3>5, <3>7, <3>9 DEF MacSet
  <2>. QED
    BY <2>1, <2>2, <2>3
<1>15. CASE UNCHANGED vars
  BY <1>15, RestsRight DEF Rests, vars, boardVars
<1>. QED
  BY <1>t, <1>s, <1>1, <1>2, <1>3, <1>4, <1>5, <1>6, <1>7, <1>8, <1>9, <1>10, <1>11, <1>12,
     <1>13, <1>14, <1>15 DEF Next, Talk, Serve

\* They are enough for the records.
LEMMA RecordsImplied ==
  ASSUME RecordsIInv
  PROVE  RecordsInv
<1>1. TypeOK
  BY DEF RecordsIInv, AllTypes
<1>2. RecordsAgree
  <2>. SUFFICES ASSUME at = "done", NEW f \in {"mac", "serial", "tester"} \ seen.crossed
                PROVE  /\ board[f] = BoardInfo[f] /\ (~seen.dented => board[f] = file.info[f])
                       /\ f # "mac" => board[f] # 0
    BY DEF RecordsAgree
  <2>1. at \notin Opening /\ (~seen.dented => file.info[f] = BoardInfo[f])
    BY DEF RecordsIInv, FileTold, Opening, Reading, Making
  <2>2. CASE f = "mac"
    BY <2>1, <2>2 DEF RecordsIInv, MacSet
  <2>3. CASE f # "mac"
    <3>1. at \notin Filling(f) /\ at \notin Unset(f) /\ FieldRight(f)
      BY <2>3 DEF RecordsIInv, Filling, Unset, Opening, Reading, Making, OfTester, OfSerial
    <3>. QED
      BY <2>1, <3>1 DEF FieldRight, Filled, Stored
  <2>. QED
    BY <2>2, <2>3
<1>3. ClientHonoured
  <2>1. ASSUME at = "done", NEW f \in {"serial", "tester"}, f \in seen.heard \ seen.overruled
        PROVE  board[f] = Client
    <3>1. at \notin Filling(f) /\ FieldRight(f)
      BY <2>1 DEF RecordsIInv, Filling, Opening, Reading, Making, OfTester, OfSerial
    <3>. QED
      BY <2>1, <3>1 DEF FieldRight, Filled
  <2>2. seen.heard \subseteq {"serial", "tester"}
    BY <1>1 DEF TypeOK, Seen, Identity
  <2>. QED
    BY <2>1, <2>2 DEF ClientHonoured
<1>4. MacKept
  BY DEF RecordsIInv, MacOutlives, MacKept, Reading
<1>. QED
  BY <1>1, <1>2, <1>3, <1>4 DEF RecordsInv

\* All of it holds at the start.
LEMMA RecordsInit == Init => RecordsIInv
<1>. SUFFICES ASSUME Init PROVE RecordsIInv
  OBVIOUS
<1>. USE BoardAssumption
<1>1. QueryTypeOK
  BY DEF Init, QueryInit, QueryTypeOK, NoQuery
<1>2. board \in Info /\ BoardInfo \in Info /\ file \in [kind : {"absent", "empty", "full"}, info : Info]
  BY DEF Init, Info, NoInfo, Absent, Operator, Client, Argument, InDatabase, NotInDatabase
<1>3. server \in Server /\ server.step = "test" /\ server.pc = "off"
  BY ServerAtRest DEF Init, Stopped
<1>4. seen \in Seen /\ seen.started <= MaxSessions /\ seen.kept = 0 /\ seen.heard = {} /\ seen.crossed = {}
  BY DEF Init, Seen
<1>5. at \in Reading /\ at \in Opening /\ at \in Places /\ at \notin {"zero", "update", "done"}
  BY DEF Init, Places, Opening, Reading, Making
<1>6. TypeOK
  <2>1. 0 \in Value
    BY DEF Value, Client
  <2>. QED
    BY <1>1, <1>2, <1>3, <1>4, <2>1 DEF Init, TypeOK
<1>7. MacSet /\ FileTold /\ MacOutlives
  BY <1>4, <1>5 DEF Init, MacSet, FileTold, MacOutlives
<1>8. HeldTyped
  BY <1>3 DEF Init, HeldTyped
<1>9. ASSUME NEW f \in {"serial", "tester"}
      PROVE  FieldRight(f)
  <2>1. board[f] = 0 /\ BoardInfo[f] = 0 /\ at \in Filling(f) /\ at \in Unset(f) /\ at # Putting(f) /\ at # Storing(f)
    BY <1>5, <1>9 DEF Init, NoInfo, Filling, Unset, Putting, Storing
  <2>. QED
    BY <1>3, <1>4, <2>1 DEF FieldRight, Unfilled, InHand, Filled, Stored, Serving, Untold
<1>. QED
  BY <1>3, <1>4, <1>5, <1>6, <1>7, <1>8, <1>9 DEF RecordsIInv, AllTypes

\* They are invariants.
THEOREM RecordsInvariant == Spec => []RecordsIInv
<1>1. RecordsIInv /\ [Next]_vars => RecordsIInv'
  <2>. SUFFICES ASSUME RecordsIInv, [Next]_vars PROVE RecordsIInv'
    OBVIOUS
  <2>1. AllTypes'
    BY TypesKept DEF RecordsIInv
  <2>2. FieldRight("serial")' /\ FieldRight("tester")'
    BY FieldKept DEF RecordsIInv, Identity
  <2>3. MacRight'
    BY MacRightKept DEF RecordsIInv, MacRight
  <2>. QED
    BY <2>1, <2>2, <2>3 DEF RecordsIInv, MacRight
<1>. QED
  BY <1>1, RecordsInit, PTL DEF Spec

\* Whatever clients broadcast while main asks the operator, between which steps of main the
\* server tests, assigns and tells a field, and whenever the machine goes down: when testing
\* begins the board and BoardInfo agree, and the file if it could be made anew, in every
\* field whose assignments did not cross; they hold what a client said unless main had asked
\* again or had looked before; and the file gives the MAC to the next session.
THEOREM RecordsRight == Spec => []RecordsInv
  BY RecordsInvariant, RecordsImplied, PTL

-------------------------------------------------------------------------------
\* What a query does to the others.
LEMMA BeginsOne ==
  ASSUME QueryTypeOK, NEW u \in {"main", "server"}, NEW counts \in BOOLEAN, QueryBegins(u, counts)
  PROVE  /\ query'[u].pc = "running" /\ query'[u].counts = counts
         /\ \A w \in {"main", "server"} : w # u => query'[w] = query[w]
         /\ trouble.overlapped => trouble'.overlapped
<1>1. u \in Users /\ Users = {"main", "server"}
  BY BoardAssumption
<1>2. query' = [query EXCEPT ![u] = [NoQuery EXCEPT !.pc = "running", !.counts = counts]]
  BY DEF QueryBegins
<1>3. query'[u] = [NoQuery EXCEPT !.pc = "running", !.counts = counts]
  BY <1>1, <1>2 DEF QueryTypeOK
<1>4. query'[u].pc = "running" /\ query'[u].counts = counts
  BY <1>3 DEF NoQuery
<1>5. \A w \in {"main", "server"} : w # u => query'[w] = query[w]
  BY <1>1, <1>2 DEF QueryTypeOK
<1>6. trouble.overlapped => trouble'.overlapped
  BY DEF QueryBegins, QueryTypeOK
<1>. QED
  BY <1>4, <1>5, <1>6

\* What the result of a query does to the others, and may be.
LEMMA GivesOne ==
  ASSUME QueryTypeOK, NEW u \in {"main", "server"}, NEW r, QueryGives(u, r)
  PROVE  /\ query[u].pc = "running" /\ query'[u].pc = "idle"
         /\ \A w \in {"main", "server"} : w # u => query'[w] = query[w]
         /\ trouble' = trouble
         /\ ~trouble.overlapped => r # "wrong" /\ (r = "zero" => ~query[u].counts)
<1>1. u \in Users /\ Users = {"main", "server"}
  BY BoardAssumption
<1>2. Running(u) /\ May(u, r, TRUE) /\ query' = [query EXCEPT ![u] = NoQuery] /\ trouble' = trouble
  BY DEF QueryGives
<1>3. ~trouble.overlapped => r # "wrong" /\ (r = "zero" => ~query[u].counts)
  BY <1>2 DEF May
<1>. QED
  BY <1>1, <1>2, <1>3 DEF QueryTypeOK, Running, NoQuery

\* The places after a number was found, and after one was refused.
Named == {"name", "ask_name", "setname", "store_name", "truncate", "zero", "update", "done"}
Refused == {"ask_retry", "failed"}
FgRight ==
  ~trouble.overlapped /\ "fg" \notin seen.crossed =>
    /\ at \in Named => board.fg = InDatabase
    /\ at \in Refused => board.fg = NotInDatabase \/ seen.unanswered

\* A step that judges nothing: no query of main runs after it, or main stays where it is;
\* nothing is found out about a user; the number stays, or none is judged to be right or
\* wrong, unless assignments crossed; the server does not find a number missing that is there.
NumberStays == board'.fg = board.fg \/ board.fg = 0 \/ "fg" \in seen'.crossed
MainStays == at' = at /\ held' = held /\ query'["main"] = query["main"] /\ NumberStays
FgStays ==
  /\ NumberStays
  /\ at' \in Named => at \in Named
  /\ at' \in Refused => at \in Refused
  /\ seen'.unanswered = seen.unanswered
UserStays ==
  \/ server'.pc \notin {"access", "reply"}
  \/ /\ server'.pc = server.pc /\ server'.user = server.user
     /\ server'.found = server.found /\ server'.missed = server.missed
Calm ==
  /\ query'["main"].pc # "running" \/ MainStays
  /\ trouble.overlapped => trouble'.overlapped
  /\ "fg" \in seen.crossed => "fg" \in seen'.crossed
  /\ UserStays
  /\ at' \notin Named \cup Refused \/ "fg" \in seen'.crossed \/ FgStays
  /\ Serving("fg", "assign")' =>
       \/ board'.fg = 0 \/ "fg" \in seen'.crossed
       \/ Serving("fg", "assign") /\ board'.fg = board.fg
  /\ seen'.login = seen.login

Judging == MainAsks /\ FgKept /\ UserKnown /\ FgRight /\ LoginHonest
\* Such a step keeps what was judged.
LEMMA CalmJudging ==
  ASSUME Judging, Calm
  PROVE  Judging'
<1>1. MainAsks'
  BY DEF Judging, Calm, MainAsks, MainStays, NumberStays, Running
<1>2. UserKnown'
  <2>. SUFFICES ASSUME ~trouble'.overlapped, server'.pc \in {"access", "reply"}
                PROVE  FoundOut("known")' /\ (server'.pc = "reply" => FoundOut("privileged")')
    BY DEF UserKnown
  <2>1. /\ server'.pc = server.pc /\ server'.user = server.user
        /\ server'.found = server.found /\ server'.missed = server.missed
        /\ ~trouble.overlapped
    BY DEF Calm, UserStays
  <2>. QED
    BY <2>1 DEF Judging, UserKnown, FoundOut
<1>3. FgRight'
  BY DEF Judging, Calm, FgRight, FgStays, NumberStays, InDatabase, NotInDatabase
<1>4. FgKept'
  BY DEF Judging, Calm, FgKept
<1>5. LoginHonest'
  BY DEF Judging, Calm, LoginHonest
<1>. QED
  BY <1>1, <1>2, <1>3, <1>4, <1>5 DEF Judging

\* Numbers and users are judged right.
LEMMA JudgingKept ==
  ASSUME AllTypes, Judging, [Next]_vars
  PROVE  Judging'
<1>0. QueryTypeOK /\ Typed
  BY DEF AllTypes, TypeOK, File, Typed
<1>m. query["main"].pc = "running" => at \in {"lookup", "fg", "name"}
  BY DEF Judging, MainAsks, Running
\* Steps of main that run no query, and leave the number and the server alone.
<1>a. ASSUME Unqueried, UNCHANGED server, board'.fg = board.fg, at \notin {"lookup", "fg", "name"},
             "fg" \in seen.crossed => "fg" \in seen'.crossed, seen'.login = seen.login,
             \/ at' \notin Named \cup Refused \/ "fg" \in seen'.crossed
             \/ /\ at' \in Named => at \in Named
                /\ at' \in Refused => at \in Refused
                /\ seen'.unanswered = seen.unanswered
      PROVE  Judging'
  BY <1>a, <1>m, CalmJudging DEF Calm, NumberStays, UserStays, FgStays, Serving, Unqueried,
     queryVars
\* Steps of the server that run no query and leave the number alone.
<1>b. ASSUME Unqueried, UNCHANGED <<at, held, board>>, server'.pc \notin {"access", "reply"},
             server'.step # "assign", seen'.crossed = seen.crossed, seen'.login = seen.login,
             seen'.unanswered = seen.unanswered
      PROVE  Judging'
  BY <1>b, CalmJudging DEF Calm, MainStays, NumberStays, UserStays, FgStays, Serving, Unqueried,
     queryVars
<1>1. CASE PowerOn
  <2>1. /\ at' = "speed" /\ query' = [u \in Users |-> NoQuery]
        /\ server'.pc = "idle" /\ seen'.login = seen.login
    BY <1>0, <1>1 DEF PowerOn, Main, QueryLost, Stopped, Typed, Seen
  <2>2. query'["main"].pc # "running"
    BY <2>1, BoardAssumption DEF NoQuery
  <2>. QED
    BY <2>1, <2>2 DEF Judging, MainAsks, FgKept, Serving, Running, UserKnown, FgRight,
       LoginHonest,
       Named, Refused
<1>2. CASE PowerOff
  <2>1. /\ at' = "off" /\ query' = [u \in Users |-> NoQuery]
        /\ server'.pc = "off" /\ seen'.login
    BY <1>0, <1>2 DEF PowerOff, Main, QueryLost, Stopped, Typed, Seen
  <2>2. query'["main"].pc # "running"
    BY <2>1, BoardAssumption DEF NoQuery
  <2>. QED
    BY <2>1, <2>2 DEF Judging, MainAsks, FgKept, Serving, Running, UserKnown, FgRight,
       LoginHonest,
       Named, Refused
<1>3. CASE Show
  <2>1. /\ UNCHANGED <<server, board>> /\ seen'.login = seen.login
        /\ "fg" \in seen.crossed => "fg" \in seen'.crossed
    BY <1>0, <1>3, Talks DEF Talk, SameSeen
  <2>2. /\ Unqueried /\ at \notin {"lookup", "fg", "name"}
        /\ at' = at /\ UNCHANGED seen
    BY <1>3 DEF Show, Asking, Named, Refused
  <2>. QED
    BY <1>a, <2>1, <2>2
<1>4. CASE GetProcessorSpeed
  <2>1. /\ UNCHANGED <<server, board>> /\ seen'.login = seen.login
        /\ "fg" \in seen.crossed => "fg" \in seen'.crossed
    BY <1>0, <1>4, Talks DEF Talk, SameSeen
  <2>2. /\ Unqueried /\ at \notin {"lookup", "fg", "name"}
        /\ at' \notin Named \cup Refused
    BY <1>4 DEF GetProcessorSpeed, Ask, Main, Named, Refused
  <2>. QED
    BY <1>a, <2>1, <2>2
<1>5. CASE SpeedEntered
  <2>1. /\ UNCHANGED <<server, board>> /\ seen'.login = seen.login
        /\ "fg" \in seen.crossed => "fg" \in seen'.crossed
    BY <1>0, <1>5, Talks DEF Talk, SameSeen
  <2>2. /\ Unqueried /\ at \notin {"lookup", "fg", "name"}
        /\ at' \notin Named \cup Refused
    BY <1>5 DEF SpeedEntered, Answers, Named, Refused
  <2>. QED
    BY <1>a, <2>1, <2>2
<1>6. CASE WaitForBroadcast
  <2>1. /\ UNCHANGED <<server, board>> /\ seen'.login = seen.login
        /\ "fg" \in seen.crossed => "fg" \in seen'.crossed
    BY <1>0, <1>6, Talks DEF Talk, SameSeen
  <2>2. /\ Unqueried /\ at \notin {"lookup", "fg", "name"}
        /\ at' \notin Named \cup Refused
    BY <1>6 DEF WaitForBroadcast, Main, Named, Refused
  <2>. QED
    BY <1>a, <2>1, <2>2
<1>7. CASE FillRevision
  <2>1. /\ UNCHANGED <<server, board>> /\ seen'.login = seen.login
        /\ "fg" \in seen.crossed => "fg" \in seen'.crossed
    BY <1>0, <1>7, Talks DEF Talk, SameSeen
  <2>2. /\ Unqueried /\ at \notin {"lookup", "fg", "name"}
        /\ at' \notin Named \cup Refused
    BY <1>7 DEF FillRevision, Ask, Main, Named, Refused
  <2>. QED
    BY <1>a, <2>1, <2>2
<1>8. CASE RevisionAnswered
  <2>1. /\ UNCHANGED <<server, board>> /\ seen'.login = seen.login
        /\ "fg" \in seen.crossed => "fg" \in seen'.crossed
    BY <1>0, <1>8, Talks DEF Talk, SameSeen
  <2>2. /\ Unqueried /\ at \notin {"lookup", "fg", "name"}
        /\ at' \notin Named \cup Refused
    BY <1>8 DEF RevisionAnswered, Answers, AskAgain, Enter, Put, Named, Refused
  <2>. QED
    BY <1>a, <2>1, <2>2
<1>9. CASE NumberEntered
  <2>1. /\ UNCHANGED <<server, board>> /\ seen'.login = seen.login
        /\ "fg" \in seen.crossed => "fg" \in seen'.crossed
    BY <1>0, <1>9, Talks DEF Talk, SameSeen
  <2>2. /\ Unqueried /\ at \notin {"lookup", "fg", "name"}
        /\ at' \notin Named \cup Refused
    BY <1>9 DEF NumberEntered, Answers, AskAgain, Enter, Put, Named, Refused
  <2>. QED
    BY <1>a, <2>1, <2>2
<1>10. CASE LookUp
  <2>1. at = "lookup" /\ QueryBegins("main", FALSE) /\ UNCHANGED boardVars
    BY <1>10 DEF LookUp, Query
  <2>2. trouble.overlapped => trouble'.overlapped
    BY <1>0, <2>1, BeginsOne
  <2>3. MainAsks'
    BY <2>1 DEF MainAsks, boardVars
  <2>4. UserKnown' /\ FgRight' /\ LoginHonest' /\ FgKept'
    BY <2>1, <2>2 DEF Judging, UserKnown, FoundOut, FgRight, LoginHonest, FgKept, Serving,
       boardVars
  <2>. QED
    BY <2>3, <2>4 DEF Judging
<1>11. CASE LookUpName
  <2>1. at = "name" /\ QueryBegins("main", FALSE) /\ UNCHANGED boardVars
    BY <1>11 DEF LookUpName, Query
  <2>2. trouble.overlapped => trouble'.overlapped
    BY <1>0, <2>1, BeginsOne
  <2>3. MainAsks'
    BY <2>1 DEF MainAsks, boardVars
  <2>4. UserKnown' /\ FgRight' /\ LoginHonest' /\ FgKept'
    BY <2>1, <2>2 DEF Judging, UserKnown, FoundOut, FgRight, LoginHonest, FgKept, Serving,
       boardVars
  <2>. QED
    BY <2>3, <2>4 DEF Judging
<1>12. CASE LookedUp
  <2>1. PICK r : QueryGives("main", r)
    BY <1>12 DEF LookedUp, Gives
  <2>2. query'["main"].pc = "idle" /\ trouble' = trouble
    BY <1>0, <2>1, GivesOne
  <2>3. /\ UNCHANGED <<server, seen>> /\ board'.fg = board.fg
        /\ at' \in Named => at \in Named
        /\ at' \notin Refused
    BY <1>0, <1>12 DEF LookedUp, Gives, Ask, Main, ServerQuiet, Typed, Info, Named, Refused
  <2>. QED
    BY <2>2, <2>3, CalmJudging DEF Calm, NumberStays, UserStays, FgStays, Serving
<1>13. CASE NameLookedUp
  <2>1. PICK r : QueryGives("main", r)
    BY <1>13 DEF NameLookedUp, Gives
  <2>2. query'["main"].pc = "idle" /\ trouble' = trouble
    BY <1>0, <2>1, GivesOne
  <2>3. /\ UNCHANGED <<server, seen>> /\ board'.fg = board.fg
        /\ at' \in Named => at \in Named
        /\ at' \notin Refused
    BY <1>0, <1>13 DEF NameLookedUp, Gives, Ask, Main, ServerQuiet, Typed, Info, Named, Refused
  <2>. QED
    BY <2>2, <2>3, CalmJudging DEF Calm, NumberStays, UserStays, FgStays, Serving
<1>14. CASE CheckNumber
  <2>1. /\ at = "fg" /\ QueryBegins("main", TRUE) /\ board.fg # 0 /\ held' = board.fg
        /\ UNCHANGED <<at, board, seen, server>>
    BY <1>14 DEF CheckNumber, ServerQuiet
  <2>2. query'["main"].counts = TRUE /\ (trouble.overlapped => trouble'.overlapped)
    BY <1>0, <2>1, BeginsOne
  <2>3. MainAsks'
    BY <2>1, <2>2 DEF MainAsks
  <2>4. UserKnown' /\ FgRight' /\ LoginHonest' /\ FgKept'
    BY <2>1, <2>2 DEF Judging, UserKnown, FoundOut, FgRight, LoginHonest, FgKept, Serving
  <2>. QED
    BY <2>3, <2>4 DEF Judging
<1>15. CASE NumberChecked
  <2>1. PICK r \in {"ok", "wrong", "zero", "failed"} :
          /\ QueryGives("main", r)
          /\ \/ Valid(r) /\ at' = "name" /\ UNCHANGED seen
             \/ /\ Invalid(r) /\ at' = "ask_retry"
                /\ seen' = [seen EXCEPT !.unanswered = r = "failed"]
    BY <1>15 DEF NumberChecked, Ask, Main
  <2>2. at = "fg" /\ UNCHANGED <<server, board>>
    BY <1>15 DEF NumberChecked, ServerQuiet
  <2>3. /\ query["main"].pc = "running" /\ query'["main"].pc = "idle" /\ trouble' = trouble
        /\ ~trouble.overlapped => r # "wrong" /\ (r = "zero" => ~query["main"].counts)
    BY <1>0, <2>1, GivesOne
  <2>4. query["main"].counts /\ held # 0 /\ ("fg" \notin seen.crossed => board.fg = held)
    BY <2>2, <2>3 DEF Judging, MainAsks, Running
  <2>5. /\ seen'.login = seen.login /\ seen'.crossed = seen.crossed
        /\ at' = "ask_retry" /\ r = "failed" => seen'.unanswered
    BY <1>0, <2>1 DEF Typed, Seen
  <2>6. "fg" \notin seen.crossed => board.fg \in {InDatabase, NotInDatabase}
    BY <1>0, <2>4 DEF Typed, Info, InDatabase, NotInDatabase
  <2>7. FgRight'
    BY <2>1, <2>2, <2>3, <2>4, <2>5, <2>6 DEF FgRight, Valid, Invalid, Named, Refused
  <2>8. MainAsks' /\ UserKnown' /\ LoginHonest' /\ FgKept'
    BY <2>2, <2>3, <2>5 DEF Judging, MainAsks, Running, UserKnown, FoundOut, LoginHonest, FgKept,
       Serving
  <2>. QED
    BY <2>7, <2>8 DEF Judging
<1>16. CASE RetryAnswered
  <2>1. /\ at = "ask_retry" /\ at' \in {"ask_fg", "failed"} /\ Unqueried /\ UNCHANGED <<server, board>>
        /\ seen'.login = seen.login /\ seen'.crossed = seen.crossed
        /\ at' = "failed" => seen'.unanswered = seen.unanswered
    BY <1>0, <1>16 DEF RetryAnswered, Answers, ServerQuiet, Typed, Seen
  <2>. QED
    BY <1>a, <2>1 DEF Named, Refused
<1>17. CASE NumberUnset
  <2>1. /\ Unqueried /\ UNCHANGED <<server, board>> /\ query["main"].pc # "running"
        /\ \/ at' \in {"unset", "ask_fg"} /\ UNCHANGED seen
           \/ seen' = [seen EXCEPT !.crossed = @ \cup {"fg"}]
    <3>1. /\ Unqueried /\ UNCHANGED <<server, board>> /\ at \in {"fg", "unset"}
          /\ at = "fg" => query["main"].pc = "idle"
          /\ \/ at' \in {"unset", "ask_fg"} /\ UNCHANGED seen
             \/ seen' = [seen EXCEPT !.crossed = @ \cup {"fg"}]
      BY <1>17 DEF NumberUnset, Main, Ask, ServerQuiet
    <3>. QED
      BY <1>m, <3>1
  <2>2. seen'.login = seen.login /\ ("fg" \in seen.crossed => "fg" \in seen'.crossed)
    BY <1>0, <2>1 DEF Typed, Seen
  <2>3. at' \notin Named \cup Refused \/ "fg" \in seen'.crossed
    BY <1>0, <2>1 DEF Typed, Seen, Named, Refused
  <2>. QED
    BY <2>1, <2>2, <2>3, CalmJudging DEF Calm, UserStays, Serving, Unqueried, queryVars
<1>18. CASE ReadBoardInfoFile
  <2>1. /\ Unqueried /\ UNCHANGED server /\ board'.fg = board.fg /\ at \notin {"lookup", "fg", "name"}
        /\ seen'.crossed = seen.crossed /\ seen'.login = seen.login /\ seen'.unanswered = seen.unanswered
        /\ at' \in Named => at \in Named
        /\ at' \notin Refused
    BY <1>0, <1>18 DEF ReadBoardInfoFile, MayAsk, ServerQuiet, Typed, Info, Seen, Named, Refused
  <2>. QED
    BY <1>a, <2>1
<1>19. CASE InitBoardInfoFile
  <2>1. /\ Unqueried /\ UNCHANGED server /\ board'.fg = board.fg /\ at \notin {"lookup", "fg", "name"}
        /\ seen'.crossed = seen.crossed /\ seen'.login = seen.login /\ seen'.unanswered = seen.unanswered
        /\ at' \in Named => at \in Named
        /\ at' \notin Refused
    BY <1>0, <1>19 DEF InitBoardInfoFile, Truncate, FillWithZeros, MayAsk, Main, ServerQuiet,
       Typed, Info, Seen, Named, Refused
  <2>. QED
    BY <1>a, <2>1
<1>20. CASE BootMacEntered
  <2>1. /\ Unqueried /\ UNCHANGED server /\ board'.fg = board.fg /\ at \notin {"lookup", "fg", "name"}
        /\ seen'.crossed = seen.crossed /\ seen'.login = seen.login /\ seen'.unanswered = seen.unanswered
        /\ at' \in Named => at \in Named
        /\ at' \notin Refused
    BY <1>0, <1>20 DEF BootMacEntered, Answers, ServerQuiet, Typed, Info, Seen, Named, Refused
  <2>. QED
    BY <1>a, <2>1
<1>21. CASE NameEntered
  <2>1. /\ Unqueried /\ UNCHANGED server /\ board'.fg = board.fg /\ at \notin {"lookup", "fg", "name"}
        /\ seen'.crossed = seen.crossed /\ seen'.login = seen.login /\ seen'.unanswered = seen.unanswered
        /\ at' \in Named => at \in Named
        /\ at' \notin Refused
    BY <1>0, <1>21 DEF NameEntered, Answers, ServerQuiet, Typed, Info, Seen, Named, Refused
  <2>. QED
    BY <1>a, <2>1
<1>22. CASE UpdateBoardInfoFile
  <2>1. /\ Unqueried /\ UNCHANGED server /\ board'.fg = board.fg /\ at \notin {"lookup", "fg", "name"}
        /\ seen'.crossed = seen.crossed /\ seen'.login = seen.login /\ seen'.unanswered = seen.unanswered
        /\ at' \in Named => at \in Named
        /\ at' \notin Refused
    BY <1>0, <1>22 DEF UpdateBoardInfoFile, Main, ServerQuiet, Typed, Info, Seen, Named, Refused
  <2>. QED
    BY <1>a, <2>1
<1>23. CASE CallSetter
  <2>1. /\ Unqueried /\ UNCHANGED <<board, seen, server>> /\ at \notin {"lookup", "fg", "name"}
        /\ at' \in Named => at \in Named
        /\ at' \notin Refused
    BY <1>23, SetterOf DEF ServerQuiet, Named, Refused
  <2>. QED
    BY <1>a, <2>1
<1>24. ASSUME NEW f \in Identity, Fill(f)
        PROVE  Judging'
  <2>1. /\ Unqueried /\ UNCHANGED <<board, server>> /\ at \notin {"lookup", "fg", "name"}
        /\ at' \notin Named \cup Refused
        /\ UNCHANGED seen \/ seen' = [seen EXCEPT !.overruled = @ \cup ({f} \cap seen.heard)]
    BY <1>24, FilledOf DEF Identity, ServerQuiet, Putting, Named, Refused
  <2>2. seen'.crossed = seen.crossed /\ seen'.login = seen.login
    BY <1>0, <2>1 DEF Typed, Seen
  <2>. QED
    BY <1>a, <2>1, <2>2
<1>25. ASSUME NEW f \in Identity, Answered(f)
        PROVE  Judging'
  <2>1. /\ Unqueried /\ UNCHANGED <<board, server>> /\ at \notin {"lookup", "fg", "name"}
        /\ at' \notin Named \cup Refused
        /\ UNCHANGED seen \/ seen' = [seen EXCEPT !.overruled = @ \cup ({f} \cap seen.heard)]
    BY <1>25, AnsweredOf DEF Identity, ServerQuiet, Putting, Named, Refused
  <2>2. seen'.crossed = seen.crossed /\ seen'.login = seen.login
    BY <1>0, <2>1 DEF Typed, Seen
  <2>. QED
    BY <1>a, <2>1, <2>2
<1>26. ASSUME NEW f \in Shared, Assign(f)
        PROVE  Judging'
  <2>1. /\ Unqueried /\ UNCHANGED server /\ board' = [board EXCEPT ![f] = held]
        /\ at \in {"put_tester", "put_serial", "put_rev", "put_fg"}
        /\ at' \in {"serial", "rev", "settester", "fg"}
        /\ seen' = [seen EXCEPT !.crossed = @ \cup Crossing(f)]
        /\ f = "fg" /\ Serving("fg", "assign") => Crossing(f) = {"fg"}
    BY <1>26, AssignedOf DEF ServerQuiet, Serving
  <2>2. seen'.crossed = seen.crossed \cup Crossing(f) /\ seen'.login = seen.login
    BY <1>0, <2>1 DEF Typed, Seen
  <2>3. f # "fg" => board'.fg = board.fg
    BY <1>0, <2>1 DEF Typed, Info
  <2>4. Serving("fg", "assign")' => \/ "fg" \in seen'.crossed
                                    \/ Serving("fg", "assign") /\ board'.fg = board.fg
    BY <2>1, <2>2, <2>3 DEF Serving
  <2>. QED
    BY <1>m, <2>1, <2>2, <2>4, CalmJudging DEF Calm, UserStays, Unqueried, queryVars, Named,
       Refused
<1>27. ASSUME NEW f \in Shared, TakeOver(f)
        PROVE  Judging'
  <2>1. /\ Unqueried /\ UNCHANGED <<at, held>> /\ server.pc = f
        /\ server'.pc \notin {"access", "reply"}
        /\ \/ /\ server.step = "assign" /\ board' = [board EXCEPT ![f] = server.msg[f]]
              /\ server'.step # "assign"
           \/ UNCHANGED board /\ (server'.step = "assign" => server'.pc = f /\ board[f] = 0)
        /\ \/ UNCHANGED seen
           \/ seen' = [seen EXCEPT !.heard = @ \cup ({f} \cap Identity),
                         !.overruled = IF at = Put[f] THEN @ \cup ({f} \cap Identity) ELSE @]
    BY <1>0, <1>27, TakenOf DEF Typed
  <2>2. seen'.crossed = seen.crossed /\ seen'.login = seen.login /\ seen'.unanswered = seen.unanswered
    BY <1>0, <2>1 DEF Typed, Seen
  <2>3. NumberStays
    <3>1. CASE f = "fg" /\ server.step = "assign"
      BY <2>1, <2>2, <3>1 DEF Judging, FgKept, Serving, NumberStays
    <3>2. CASE f # "fg" \/ UNCHANGED board
      BY <1>0, <2>1, <3>2 DEF Typed, Info, NumberStays
    <3>. QED
      BY <2>1, <3>1, <3>2
  <2>4. Serving("fg", "assign")' => board'.fg = 0
    BY <2>1 DEF Serving
  <2>. QED
    BY <2>1, <2>2, <2>3, <2>4, CalmJudging DEF Calm, MainStays, UserStays, FgStays, Unqueried,
       queryVars
<1>28. ASSUME NEW f \in Shared, Tell(f)
        PROVE  Judging'
  <2>1. /\ Unqueried /\ UNCHANGED <<at, held, board>>
        /\ server'.pc \notin {"access", "reply"} /\ server'.step # "assign"
        /\ \/ UNCHANGED seen
           \/ seen' = [seen EXCEPT !.dented = @ \/ (file'.info.mac # file.info.mac /\ seen.kept # 0)]
    BY <1>0, <1>28, ToldOf DEF Typed
  <2>2. seen'.crossed = seen.crossed /\ seen'.login = seen.login /\ seen'.unanswered = seen.unanswered
    BY <1>0, <2>1 DEF Typed, Seen
  <2>. QED
    BY <1>b, <2>1, <2>2
<1>29. CASE Broadcast
  <2>1. /\ UNCHANGED <<at, held, board>> /\ server'.step # "assign" /\ seen'.crossed = seen.crossed
        /\ seen'.unanswered = seen.unanswered
    BY <1>0, <1>29, Serves DEF Serve
  <2>2. Unqueried /\ server'.pc \in {"idle", "serial", "password"}
    BY <1>0, <1>29 DEF Broadcast, ServerRuns, Typed, Server
  <2>3. seen'.login = seen.login
    BY <1>0, <1>29 DEF Broadcast, Typed, Seen
  <2>. QED
    BY <1>b, <2>1, <2>2, <2>3
<1>30. CASE MalformedBroadcast
  <2>1. /\ UNCHANGED <<at, held, board>> /\ server'.step # "assign" /\ seen'.crossed = seen.crossed
        /\ seen'.unanswered = seen.unanswered
    BY <1>0, <1>30, Serves DEF Serve
  <2>2. Unqueried /\ server'.pc \in {"idle", "serial", "password"}
    BY <1>0, <1>30 DEF MalformedBroadcast, Typed, Server
  <2>3. seen'.login = seen.login
    BY <1>0, <1>30 DEF MalformedBroadcast, Typed, Seen
  <2>. QED
    BY <1>b, <2>1, <2>2, <2>3
<1>31. CASE BroadcastEnds
  <2>1. /\ UNCHANGED <<at, held, board>> /\ server'.step # "assign" /\ seen'.crossed = seen.crossed
        /\ seen'.unanswered = seen.unanswered
    BY <1>0, <1>31, Serves DEF Serve
  <2>2. Unqueried /\ server'.pc \in {"idle", "serial", "password"}
    BY <1>0, <1>31 DEF BroadcastEnds, ServerRuns, Typed, Server
  <2>3. seen'.login = seen.login
    BY <1>0, <1>31 DEF BroadcastEnds, Typed, Seen
  <2>. QED
    BY <1>b, <2>1, <2>2, <2>3
<1>32. CASE LogIn
  <2>1. /\ UNCHANGED <<at, held, board>> /\ server'.step # "assign" /\ seen'.crossed = seen.crossed
        /\ seen'.unanswered = seen.unanswered
    BY <1>0, <1>32, Serves DEF Serve
  <2>2. Unqueried /\ server'.pc \in {"idle", "serial", "password"}
    BY <1>0, <1>32 DEF LogIn, ServerRuns, Typed, Server
  <2>3. seen'.login = seen.login
    BY <1>0, <1>32 DEF LogIn, Typed, Seen
  <2>. QED
    BY <1>b, <2>1, <2>2, <2>3
<1>33. CASE AskDatabase
  <2>1. UNCHANGED boardVars /\ \E counts \in BOOLEAN : QueryBegins("server", counts)
    BY <1>33 DEF AskDatabase
  <2>2. query'["main"] = query["main"] /\ (trouble.overlapped => trouble'.overlapped)
    BY <1>0, <2>1, BeginsOne
  <2>. QED
    BY <2>1, <2>2, CalmJudging DEF Calm, MainStays, NumberStays, UserStays, FgStays, Serving,
       boardVars
<1>34. CASE DatabaseAnswers
  <2>1. server.pc \in {"password", "access"} /\ UNCHANGED <<at, board, seen>>
    BY <1>34 DEF DatabaseAnswers, Question, ServerRuns
  <2>2. PICK r \in {"ok", "wrong", "zero", "failed"}, yes \in BOOLEAN :
          /\ QueryGives("server", r)
          /\ CASE r = "ok" -> yes = server.user[Question[server.pc]]
               [] r = "wrong" -> TRUE
               [] OTHER -> ~yes
          /\ server' = [server EXCEPT !.pc = NextQuestion[server.pc],
                                      !.found = [@ EXCEPT ![Question[server.pc]] = yes],
                                      !.missed = @ \/ r # "ok"]
    BY <1>34 DEF DatabaseAnswers, ServerRuns
  <2>3. /\ query'["main"] = query["main"] /\ trouble' = trouble
        /\ ~trouble.overlapped => r # "wrong"
    BY <1>0, <2>2, GivesOne
  <2>4. MainAsks' /\ FgRight' /\ LoginHonest' /\ FgKept'
    <3>1. held' = held /\ server'.step # "assign"
      BY <1>0, <1>34, Serves DEF Serve
    <3>. QED
      BY <2>1, <2>3, <3>1 DEF Judging, MainAsks, Running, FgRight, LoginHonest, FgKept, Serving
  <2>5. PICK q \in {"known", "privileged"} :
          /\ q = Question[server.pc]
          /\ server.pc = "password" => q = "known" /\ NextQuestion[server.pc] = "access"
          /\ server.pc = "access" => q = "privileged" /\ NextQuestion[server.pc] = "reply"
    BY <2>1 DEF Question, NextQuestion
  <2>6. /\ server'.pc = NextQuestion[server.pc] /\ server'.user = server.user
        /\ server'.missed = (server.missed \/ r # "ok")
        /\ server'.found = [server.found EXCEPT ![q] = yes]
    BY <1>0, <2>2, <2>5 DEF Typed, Server
  <2>7. server'.found[q] = yes /\ \A p \in {"known", "privileged"} : p # q => server'.found[p] = server.found[p]
    BY <1>0, <2>6 DEF Typed, Server
  <2>8. ~trouble.overlapped => FoundOut(q)'
    <3>1. ~trouble.overlapped => (yes => server.user[q]) /\ (r = "ok" => yes = server.user[q])
      BY <2>2, <2>3, <2>5
    <3>. QED
      BY <2>6, <2>7, <3>1 DEF FoundOut
  <2>9. UserKnown'
    <3>1. CASE server.pc = "password"
      BY <2>3, <2>5, <2>6, <2>8, <3>1 DEF UserKnown
    <3>2. CASE server.pc = "access"
      <4>1. ~trouble.overlapped => FoundOut("known")'
        BY <2>5, <2>6, <2>7, <3>2 DEF Judging, UserKnown, FoundOut
      <4>. QED
        BY <2>3, <2>5, <2>8, <3>2, <4>1 DEF UserKnown
    <3>. QED
      BY <2>1, <3>1, <3>2
  <2>. QED
    BY <2>4, <2>9 DEF Judging
<1>35. CASE Reply
  <2>1. /\ server.pc = "reply" /\ UNCHANGED <<at, board, query, trouble>>
        /\ server'.pc = "idle" /\ seen'.unanswered = seen.unanswered /\ held' = held
        /\ seen'.crossed = seen.crossed
        /\ seen'.login = (\/ trouble.overlapped
                          \/ Granted = (server.user.known /\ server.user.privileged)
                          \/ server.missed /\ ~Granted)
    BY <1>0, <1>35 DEF Reply, ServerRuns, Stopped, Unqueried, queryVars, Typed, Seen
  <2>2. server.user \in [known : BOOLEAN, privileged : BOOLEAN] /\ server.found \in [known : BOOLEAN, privileged : BOOLEAN]
    BY <1>0 DEF Typed, Server, User
  <2>3. seen'.login
    <3>1. ~trouble.overlapped => FoundOut("known") /\ FoundOut("privileged")
      BY <2>1 DEF Judging, UserKnown
    <3>2. CASE server.missed
      BY <2>1, <2>2, <3>1, <3>2, Zenon DEF FoundOut, Granted
    <3>3. CASE ~server.missed
      BY <2>1, <2>2, <3>1, <3>3, Zenon DEF FoundOut, Granted
    <3>. QED
      BY <3>2, <3>3
  <2>4. MainAsks' /\ FgRight' /\ UserKnown' /\ FgKept'
    BY <2>1 DEF Judging, MainAsks, Running, FgRight, UserKnown, FgKept, Serving
  <2>. QED
    BY <2>3, <2>4 DEF Judging, LoginHonest
<1>36. CASE UNCHANGED vars
  <2>. Calm
    BY <1>36 DEF Calm, MainStays, NumberStays, UserStays, FgStays, Serving, vars, boardVars,
       queryVars
  <2>. QED
    BY CalmJudging
<1>. QED
  BY <1>1, <1>2, <1>3, <1>4, <1>5, <1>6, <1>7, <1>8, <1>9, <1>10, <1>11, <1>12, <1>13, <1>14,
     <1>15, <1>16, <1>17, <1>18, <1>19, <1>20, <1>21, <1>22, <1>23, <1>24, <1>25, <1>26, <1>27,
     <1>28, <1>29, <1>30, <1>31, <1>32, <1>33, <1>34, <1>35, <1>36 DEF Next

\* It holds at the start.
LEMMA JudgingInit ==
  ASSUME Init
  PROVE  Judging
<1>1. query["main"].pc = "idle"
  BY BoardAssumption DEF Init, QueryInit, NoQuery
<1>. QED
  BY <1>1 DEF Init, Stopped, Judging, MainAsks, FgKept, Serving, Running, UserKnown, FgRight,
     LoginHonest, Named, Refused

\* As long as the queries of the two threads do not overlap: testing goes on only with a
\* number that is in the database and one is refused only when it is not there or a call of
\* the driver failed, unless main went on with a number that came from a client between its
\* two looks, or assigned one that the server was about to assign as well; and a client is
\* let in if and only if both queries find him.
THEOREM NumbersAndLoginsJudged == Spec => []JudgedRight
<1>1. RecordsIInv /\ Judging /\ [Next]_vars => Judging'
  BY JudgingKept DEF RecordsIInv
<1>2. Judging => JudgedRight
  BY DEF Judging, FgRight, JudgedRight, FgJudgedRight, Named, Refused
<1>3. Init => Judging
  BY JudgingInit
<1>. QED
  BY <1>1, <1>2, <1>3, RecordsInvariant, PTL DEF Spec

-----------------------------------------------------------------------------------
(* The database connection under the queries of the setup. *)

Pending(u) == call[u].pc \notin {"idle", "back"}

\* No handle is allocated; or the connection is open, on the handles the globals name.
Closed == ~db.status /\ odbc.env = {} /\ odbc.dbc = {} /\ odbc.open = {}
Opened == db.status /\ odbc.env = {db.env} /\ odbc.dbc = {db.dbc} /\ odbc.open = {db.dbc}
NoStatement == odbc.stmt = {}

\* Alone: queries did not overlap, and a statement that was executed holds the rows of the
\* one query that runs.
Alone ==
  /\ \A u, w \in Callers : Pending(u) /\ Pending(w) => u = w
  /\ \A u \in Callers : call[u].pc \in {"count", "fetch"} => \A x \in Current : x.holds = u

\* What the query of u holds at each of its steps.
Holds(u) ==
  /\ call[u].pc = "begin" => NoStatement /\ (Closed \/ Opened)
  /\ call[u].pc = "env" => NoStatement /\ Closed
  /\ call[u].pc = "dbc" =>
       /\ NoStatement /\ ~db.status /\ db.env = u
       /\ odbc.env = {u} /\ odbc.dbc = {} /\ odbc.open = {}
  /\ call[u].pc = "open" =>
       /\ NoStatement /\ ~db.status /\ db.env = u /\ db.dbc = u
       /\ odbc.env = {u} /\ odbc.dbc = {u} /\ odbc.open = {}
  /\ call[u].pc = "stmt" => NoStatement /\ Opened
  /\ call[u].pc = "exec" =>
       /\ Opened /\ db.stmt = u
       /\ odbc.stmt = {[by |-> u, on |-> db.dbc, holds |-> Nobody]}
  /\ call[u].pc \in {"count", "fetch"} =>
       /\ Opened /\ db.stmt = u
       /\ odbc.stmt = {[by |-> u, on |-> db.dbc, holds |-> u]}
  /\ call[u].pc = "disconnect" =>
       /\ Opened /\ call[u].fault
       /\ \A x \in odbc.stmt : x.on = db.dbc
  /\ call[u].pc = "free" =>
       /\ NoStatement /\ db.status /\ call[u].fault
       /\ odbc.env = {db.env} /\ odbc.dbc = {db.dbc} /\ odbc.open = {}

\* Sound: moreover no disconnection was cut short.
Sound ==
  /\ (\A u \in Callers : ~Pending(u)) => NoStatement /\ (Closed \/ Opened)
  /\ \A u \in Callers : Holds(u)

\* The inductive invariant.
ConnectionIInv ==
  /\ ConnectionTypeOK
  /\ ~past.overlapped => Alone
  /\ ~past.overlapped /\ ~past.halfClosed => Sound

-----------------------------------------------------------------------------------
Points == {"begin", "env", "dbc", "open", "stmt", "exec", "count", "fetch", "disconnect",
           "free", "back"}
Results == {"none", "ok", "wrong", "zero", "failed"}

\* The query of u is at pc after the step, with this fault and result, and the others are
\* where they were.
Goes(u, pc, fault, result) ==
  /\ call' \in [Callers -> Call]
  /\ call'[u].pc = pc /\ call'[u].counts = call[u].counts
  /\ call'[u].fault = fault /\ call'[u].result = result
  /\ \A w \in Callers \ {u} : call'[w] = call[w]

\* The helpers that move a query on.
LEMMA ToGoes ==
  ASSUME ConnectionTypeOK, NEW u \in Callers, NEW next \in Points, To(u, next)
  PROVE  Goes(u, next, call[u].fault, call[u].result)
<1>1. call[u] \in Call
  BY DEF ConnectionTypeOK
<1>2. [call[u] EXCEPT !.pc = next] \in Call
  BY <1>1 DEF Call, Points
<1>3. call' = [call EXCEPT ![u] = [call[u] EXCEPT !.pc = next]]
  BY DEF To
<1>4. call' \in [Callers -> Call]
  BY <1>2, <1>3 DEF ConnectionTypeOK
<1>5. call'[u] = [call[u] EXCEPT !.pc = next]
  BY <1>3 DEF ConnectionTypeOK
<1>6. QED
  BY <1>1, <1>3, <1>4, <1>5 DEF Goes, Call, ConnectionTypeOK

LEMMA BackGoes ==
  ASSUME ConnectionTypeOK, NEW u \in Callers, NEW r \in Results,
         Back(u, r)
  PROVE  Goes(u, "back", call[u].fault, r)
<1> DEFINE c == [call[u] EXCEPT !.pc = "back", !.result = r]
<1>1. call[u] \in Call
  BY DEF ConnectionTypeOK
<1>2. c \in Call
  BY <1>1 DEF Call, Points, Results
<1>3. call' = [call EXCEPT ![u] = c]
  BY DEF Back
<1>4. call' \in [Callers -> Call] /\ call'[u] = c
  BY <1>2, <1>3 DEF ConnectionTypeOK
<1>5. QED
  BY <1>1, <1>3, <1>4 DEF Goes, Call, ConnectionTypeOK

LEMMA FailsToGoes ==
  ASSUME ConnectionTypeOK, NEW u \in Callers, NEW misused \in BOOLEAN, NEW next \in Points,
         FailsTo(u, misused, next)
  PROVE  Goes(u, next, (call[u].fault \/ ~misused), call[u].result)
<1> DEFINE c == [call[u] EXCEPT !.pc = next, !.fault = call[u].fault \/ ~misused]
<1>1. call[u] \in Call
  BY DEF ConnectionTypeOK
<1>2. c \in Call
  BY <1>1 DEF Call, Points, Results
<1>3. call' = [call EXCEPT ![u] = c]
  BY DEF FailsTo
<1>4. call' \in [Callers -> Call] /\ call'[u] = c
  BY <1>2, <1>3 DEF ConnectionTypeOK
<1>5. QED
  BY <1>1, <1>3, <1>4 DEF Goes, Call, ConnectionTypeOK

LEMMA FailsBackGoes ==
  ASSUME ConnectionTypeOK, NEW u \in Callers, NEW misused \in BOOLEAN,
         FailsBack(u, misused)
  PROVE  Goes(u, "back", (call[u].fault \/ ~misused), "failed")
<1> DEFINE c == [call[u] EXCEPT !.pc = "back", !.fault = call[u].fault \/ ~misused,
                                   !.result = "failed"]
<1>1. call[u] \in Call
  BY DEF ConnectionTypeOK
<1>2. c \in Call
  BY <1>1 DEF Call, Points, Results
<1>3. call' = [call EXCEPT ![u] = c]
  BY DEF FailsBack
<1>4. call' \in [Callers -> Call] /\ call'[u] = c
  BY <1>2, <1>3 DEF ConnectionTypeOK
<1>5. QED
  BY <1>1, <1>3, <1>4 DEF Goes, Call, ConnectionTypeOK

PastTypeOK == past \in [fails : 0..MaxDbFails, overlapped : BOOLEAN, halfClosed : BOOLEAN]

\* A call of the driver that succeeds or fails leaves the history as it is, but for the count.
LEMMA PastKept ==
  ASSUME PastTypeOK, NEW misused \in BOOLEAN, Succeeds(misused) \/ Fails(misused)
  PROVE  PastTypeOK' /\ past'.overlapped = past.overlapped /\ past'.halfClosed = past.halfClosed
<1>1. CASE Succeeds(misused)
  BY <1>1 DEF Succeeds, PastTypeOK
<1>2. CASE Fails(misused)
  BY <1>2, DatabaseAssumption DEF Fails, PastTypeOK
<1>3. QED
  BY <1>1, <1>2

DbTypeOK == db \in [status : BOOLEAN, env : Owner, dbc : Owner, stmt : Owner]
OdbcTypeOK ==
  /\ odbc \in [env : SUBSET Callers, dbc : SUBSET Callers, open : SUBSET Callers,
               stmt : SUBSET Statement]
  /\ odbc.open \subseteq odbc.dbc
\* The types, by variable.
LEMMA Types ==
  ConnectionTypeOK <=> DbTypeOK /\ OdbcTypeOK /\ PastTypeOK /\ call \in [Callers -> Call]
  BY DEF ConnectionTypeOK, DbTypeOK, OdbcTypeOK, PastTypeOK

LEMMA TypesNext ==
  ConnectionTypeOK' <=> DbTypeOK' /\ OdbcTypeOK' /\ PastTypeOK' /\ call' \in [Callers -> Call]
  BY DEF ConnectionTypeOK, DbTypeOK, OdbcTypeOK, PastTypeOK

-----------------------------------------------------------------------------------
\* What a step of the query of u keeps for the other queries.
Kept(u) ==
  /\ \A w \in Callers \ {u} : call'[w] = call[w]
  /\ call'[u].counts = call[u].counts
  /\ past'.overlapped = past.overlapped
  /\ past.halfClosed => past'.halfClosed

OwnRows(u) == call[u].pc \in {"count", "fetch"} => \A x \in Current : x.holds = u
Fit(u) == Holds(u) /\ (~Pending(u) => NoStatement /\ (Closed \/ Opened))

\* What comes of the query of u: it goes on, or gives what QueryReturns allows.
Comes(u) ==
  /\ call'[u].fault \in {call[u].fault, TRUE}
  /\ \/ Pending(u)' /\ call'[u].result = call[u].result /\ past'.halfClosed = past.halfClosed
     \/ /\ call'[u].pc = "back" /\ call'[u].result \in {"ok", "wrong", "zero", "failed"}
        /\ ~past.overlapped =>
             /\ call'[u].result # "wrong"
             /\ call'[u].result = "zero" => ~call[u].counts
             /\ call'[u].result = "failed" => call'[u].fault \/ past.halfClosed
             /\ past'.halfClosed # past.halfClosed => call'[u].fault

\* All that is shown of a step of the query of u.
StepRight(u) ==
  /\ ConnectionTypeOK' /\ Pending(u) /\ Kept(u)
  /\ OwnRows(u) => OwnRows(u)'
  /\ Fit(u) /\ ~past'.halfClosed => Fit(u)'
  /\ (~past.overlapped => OwnRows(u)) /\ (~past.overlapped /\ ~past.halfClosed => Fit(u))
       => Comes(u)

\* Each step of a query is right.
LEMMA LookAtStatusRight ==
  ASSUME ConnectionTypeOK, NEW u \in Callers, LookAtStatus(u)
  PROVE  StepRight(u)
<1> DEFINE next == IF db.status THEN "stmt" ELSE "env"
<1>1. Goes(u, next, call[u].fault, call[u].result)
  BY ToGoes DEF LookAtStatus, Points
<1>2. ConnectionTypeOK' /\ Kept(u)
  BY <1>1, Types, TypesNext DEF LookAtStatus, Goes, Kept, DbTypeOK, OdbcTypeOK, PastTypeOK
<1>3. Pending(u) /\ Comes(u)
  BY <1>1 DEF LookAtStatus, At, Goes, Comes, Pending
<1>4. OwnRows(u)'
  BY <1>1 DEF Goes, OwnRows
<1>5. Fit(u) => Fit(u)'
  BY <1>1 DEF LookAtStatus, At, Goes, Fit, Holds, Pending, NoStatement, Closed, Opened
<1>6. QED
  BY <1>2, <1>3, <1>4, <1>5 DEF StepRight

LEMMA AllocEnvironmentRight ==
  ASSUME ConnectionTypeOK, NEW u \in Callers, AllocEnvironment(u)
  PROVE  StepRight(u)
<1> USE DEF AllocEnvironment
<1>1. CASE db.status /\ To(u, "stmt") /\ UNCHANGED <<db, odbc, past>>
  <2>1. Goes(u, "stmt", call[u].fault, call[u].result)
    BY <1>1, ToGoes DEF Points
  <2>2. ConnectionTypeOK' /\ Kept(u)
    BY <1>1, <2>1, Types, TypesNext DEF Goes, Kept, DbTypeOK, OdbcTypeOK, PastTypeOK
  <2>3. Pending(u) /\ Comes(u) /\ OwnRows(u)'
    BY <1>1, <2>1 DEF At, Goes, Comes, Pending, OwnRows
  <2>4. Fit(u) => Fit(u)'
    BY <1>1 DEF At, Fit, Holds, Closed
  <2>5. QED
    BY <2>2, <2>3, <2>4 DEF StepRight
<1>2. CASE ~db.status /\ Succeeds(FALSE) /\ To(u, "dbc")
           /\ db' = [db EXCEPT !.env = u] /\ odbc' = [odbc EXCEPT !.env = @ \cup {u}]
  <2>1. Goes(u, "dbc", call[u].fault, call[u].result) /\ past' = past
    BY <1>2, ToGoes DEF Points, Succeeds
  <2>2. DbTypeOK' /\ OdbcTypeOK'
    BY <1>2, Types DEF DbTypeOK, OdbcTypeOK, Owner
  <2>3. ConnectionTypeOK' /\ Kept(u)
    BY <2>1, <2>2, Types, TypesNext DEF Goes, Kept, PastTypeOK
  <2>4. Pending(u) /\ Comes(u) /\ OwnRows(u)'
    BY <1>2, <2>1 DEF At, Goes, Comes, Pending, OwnRows
  <2>5. db'.env = u /\ db'.status = db.status /\ odbc'.env = odbc.env \cup {u}
        /\ odbc'.dbc = odbc.dbc /\ odbc'.open = odbc.open /\ odbc'.stmt = odbc.stmt
    BY <1>2, Types DEF DbTypeOK, OdbcTypeOK
  <2>6. Fit(u) => Fit(u)'
    BY <1>2, <2>1, <2>5 DEF At, Goes, Fit, Holds, Pending, NoStatement, Closed
  <2>7. QED
    BY <2>3, <2>4, <2>6 DEF StepRight
<1>3. CASE ~db.status /\ FailsBack(u, FALSE) /\ UNCHANGED <<db, odbc>>
  <2>1. Goes(u, "back", TRUE, "failed")
    BY <1>3, FailsBackGoes
  <2>2. PastTypeOK' /\ past'.overlapped = past.overlapped /\ past'.halfClosed = past.halfClosed
    BY <1>3, PastKept, Types DEF FailsBack
  <2>3. ConnectionTypeOK' /\ Kept(u)
    BY <1>3, <2>1, <2>2, Types, TypesNext DEF Goes, Kept, DbTypeOK, OdbcTypeOK
  <2>4. Pending(u) /\ Comes(u) /\ OwnRows(u)'
    BY <1>3, <2>1, <2>2 DEF At, Goes, Comes, Pending, OwnRows
  <2>5. Fit(u) => Fit(u)'
    BY <1>3, <2>1 DEF At, Goes, Fit, Holds, Pending, NoStatement, Closed
  <2>6. QED
    BY <2>3, <2>4, <2>5 DEF StepRight
<1>4. QED
  BY <1>1, <1>2, <1>3

LEMMA AllocConnectionRight ==
  ASSUME ConnectionTypeOK, NEW u \in Callers, AllocConnection(u)
  PROVE  StepRight(u)
<1> USE DEF AllocConnection
<1> DEFINE misused == db.env \notin odbc.env
<1>1. CASE /\ Succeeds(misused) /\ To(u, "open")
           /\ db' = [db EXCEPT !.dbc = u]
           /\ odbc' = [odbc EXCEPT !.dbc = @ \cup {u}, !.open = @ \ {u}]
  <2>1. Goes(u, "open", call[u].fault, call[u].result)
    BY <1>1, ToGoes DEF Points, Results
  <2>2. PastTypeOK' /\ past'.overlapped = past.overlapped /\ past'.halfClosed = past.halfClosed
    BY <1>1, PastKept, Types
  <2>3. DbTypeOK' /\ OdbcTypeOK'
        /\ db'.env = db.env /\ db'.status = db.status /\ db'.dbc = u
        /\ odbc'.env = odbc.env /\ odbc'.dbc = odbc.dbc \cup {u}
        /\ odbc'.open = odbc.open \ {u} /\ odbc'.stmt = odbc.stmt
    BY <1>1, Types DEF DbTypeOK, OdbcTypeOK, Owner
  <2>4. ConnectionTypeOK' /\ Kept(u)
    BY <2>1, <2>2, <2>3, TypesNext DEF Goes, Kept
  <2>5. Pending(u) /\ (OwnRows(u) => OwnRows(u)')
    BY <1>1, <2>1, <2>3 DEF At, Goes, Pending, OwnRows
  <2>6. Fit(u) => Fit(u)'
    BY <1>1, <2>1, <2>3 DEF At, Goes, Fit, Holds, Pending, NoStatement, Closed, Opened
  <2>7. (~past.overlapped /\ ~past.halfClosed => Fit(u)) => Comes(u)
    BY <1>1, <2>1, <2>2 DEF At, Goes, Comes, Pending, Fit, Holds, Opened
  <2>8. QED
    BY <2>4, <2>5, <2>6, <2>7 DEF StepRight
<1>2. CASE /\ FailsBack(u, misused) /\ db' = db
           /\ odbc' = [odbc EXCEPT !.env = @ \ {db.env}]
  <2>1. Goes(u, "back", (call[u].fault \/ ~misused), "failed")
    BY <1>2, FailsBackGoes DEF Points, Results
  <2>2. PastTypeOK' /\ past'.overlapped = past.overlapped /\ past'.halfClosed = past.halfClosed
    BY <1>2, PastKept, Types DEF FailsBack
  <2>3. DbTypeOK' /\ OdbcTypeOK'
        /\ odbc'.env = odbc.env \ {db.env} /\ odbc'.dbc = odbc.dbc
        /\ odbc'.open = odbc.open /\ odbc'.stmt = odbc.stmt
    BY <1>2, Types DEF DbTypeOK, OdbcTypeOK, Owner
  <2>4. ConnectionTypeOK' /\ Kept(u)
    BY <2>1, <2>2, <2>3, TypesNext DEF Goes, Kept
  <2>5. Pending(u) /\ (OwnRows(u) => OwnRows(u)')
    BY <1>2, <2>1, <2>3 DEF At, Goes, Pending, OwnRows
  <2>6. Fit(u) => Fit(u)'
    BY <1>2, <2>1, <2>3 DEF At, Goes, Fit, Holds, Pending, NoStatement, Closed, Opened
  <2>7. (~past.overlapped /\ ~past.halfClosed => Fit(u)) => Comes(u)
    <3>1. Fit(u) => ~misused
      BY <1>2 DEF At, Fit, Holds, Opened
    <3>2. call[u].fault \in BOOLEAN
      BY Types DEF Call
    <3>3. QED
      BY <1>2, <2>1, <2>2, <3>1, <3>2 DEF At, Goes, Comes, Pending
  <2>8. QED
    BY <2>4, <2>5, <2>6, <2>7 DEF StepRight
<1>3. QED
  BY <1>1, <1>2

LEMMA ConnectRight ==
  ASSUME ConnectionTypeOK, NEW u \in Callers, Connect(u)
  PROVE  StepRight(u)
<1> USE DEF Connect
<1> DEFINE misused == db.dbc \notin odbc.dbc \/ db.dbc \in odbc.open
<1>1. CASE /\ Succeeds(misused) /\ To(u, "stmt")
           /\ odbc' = [odbc EXCEPT !.open = @ \cup {db.dbc}]
           /\ db' = [db EXCEPT !.status = TRUE]
  <2>1. Goes(u, "stmt", call[u].fault, call[u].result)
    BY <1>1, ToGoes DEF Points, Results
  <2>2. PastTypeOK' /\ past'.overlapped = past.overlapped /\ past'.halfClosed = past.halfClosed
    BY <1>1, PastKept, Types
  <2>3. DbTypeOK' /\ OdbcTypeOK'
        /\ db'.env = db.env /\ db'.status /\ db'.dbc = db.dbc
        /\ odbc'.env = odbc.env /\ odbc'.dbc = odbc.dbc
        /\ odbc'.open = odbc.open \cup {db.dbc} /\ odbc'.stmt = odbc.stmt
    BY <1>1, Types DEF DbTypeOK, OdbcTypeOK, Owner, Succeeds
  <2>4. ConnectionTypeOK' /\ Kept(u)
    BY <2>1, <2>2, <2>3, TypesNext DEF Goes, Kept
  <2>5. Pending(u) /\ (OwnRows(u) => OwnRows(u)')
    BY <1>1, <2>1, <2>3 DEF At, Goes, Pending, OwnRows
  <2>6. Fit(u) => Fit(u)'
    BY <1>1, <2>1, <2>3 DEF At, Goes, Fit, Holds, Pending, NoStatement, Closed, Opened
  <2>7. (~past.overlapped /\ ~past.halfClosed => Fit(u)) => Comes(u)
    BY <1>1, <2>1, <2>2 DEF At, Goes, Comes, Pending, Fit, Holds, Opened
  <2>8. QED
    BY <2>4, <2>5, <2>6, <2>7 DEF StepRight
<1>2. CASE /\ FailsBack(u, misused) /\ db' = db
           /\ odbc' = [odbc EXCEPT !.dbc = @ \ ({db.dbc} \ odbc.open), !.env = @ \ {db.env}]
  <2>1. Goes(u, "back", (call[u].fault \/ ~misused), "failed")
    BY <1>2, FailsBackGoes DEF Points, Results
  <2>2. PastTypeOK' /\ past'.overlapped = past.overlapped /\ past'.halfClosed = past.halfClosed
    BY <1>2, PastKept, Types DEF FailsBack
  <2>3. DbTypeOK' /\ OdbcTypeOK'
        /\ odbc'.env = odbc.env \ {db.env} /\ odbc'.dbc = odbc.dbc \ ({db.dbc} \ odbc.open)
        /\ odbc'.open = odbc.open /\ odbc'.stmt = odbc.stmt
    BY <1>2, Types DEF DbTypeOK, OdbcTypeOK, Owner
  <2>4. ConnectionTypeOK' /\ Kept(u)
    BY <2>1, <2>2, <2>3, TypesNext DEF Goes, Kept
  <2>5. Pending(u) /\ (OwnRows(u) => OwnRows(u)')
    BY <1>2, <2>1, <2>3 DEF At, Goes, Pending, OwnRows
  <2>6. Fit(u) => Fit(u)'
    BY <1>2, <2>1, <2>3 DEF At, Goes, Fit, Holds, Pending, NoStatement, Closed, Opened
  <2>7. (~past.overlapped /\ ~past.halfClosed => Fit(u)) => Comes(u)
    <3>1. Fit(u) => ~misused
      BY <1>2 DEF At, Fit, Holds, Opened
    <3>2. call[u].fault \in BOOLEAN
      BY Types DEF Call
    <3>3. QED
      BY <1>2, <2>1, <2>2, <3>1, <3>2 DEF At, Goes, Comes, Pending
  <2>8. QED
    BY <2>4, <2>5, <2>6, <2>7 DEF StepRight
<1>3. QED
  BY <1>1, <1>2

LEMMA AllocStatementRight ==
  ASSUME ConnectionTypeOK, NEW u \in Callers, AllocStatement(u)
  PROVE  StepRight(u)
<1> USE DEF AllocStatement
<1> DEFINE misused == db.dbc \notin odbc.open
<1>1. CASE /\ Succeeds(misused) /\ To(u, "exec")
           /\ db' = [db EXCEPT !.stmt = u]
           /\ odbc' = [odbc EXCEPT !.stmt =
                {x \in @ : x.by # u} \cup {[by |-> u, on |-> db.dbc, holds |-> Nobody]}]
  <2>1. Goes(u, "exec", call[u].fault, call[u].result)
    BY <1>1, ToGoes DEF Points, Results
  <2>2. PastTypeOK' /\ past'.overlapped = past.overlapped /\ past'.halfClosed = past.halfClosed
    BY <1>1, PastKept, Types
  <2>3. DbTypeOK' /\ OdbcTypeOK'
        /\ db'.env = db.env /\ db'.status = db.status /\ db'.dbc = db.dbc /\ db'.stmt = u
        /\ odbc'.env = odbc.env /\ odbc'.dbc = odbc.dbc /\ odbc'.open = odbc.open
        /\ odbc'.stmt = {x \in odbc.stmt : x.by # u}
                         \cup {[by |-> u, on |-> db.dbc, holds |-> Nobody]}
    BY <1>1, Types DEF DbTypeOK, OdbcTypeOK, Owner, Succeeds, Statement
  <2>4. ConnectionTypeOK' /\ Kept(u)
    BY <2>1, <2>2, <2>3, TypesNext DEF Goes, Kept
  <2>5. Pending(u) /\ (OwnRows(u) => OwnRows(u)')
    BY <1>1, <2>1, <2>3 DEF At, Goes, Pending, OwnRows
  <2>6. Fit(u) => Fit(u)'
    BY <1>1, <2>1, <2>3 DEF At, Goes, Fit, Holds, Pending, NoStatement, Closed, Opened
  <2>7. (~past.overlapped /\ ~past.halfClosed => Fit(u)) => Comes(u)
    BY <1>1, <2>1, <2>2 DEF At, Goes, Comes, Pending, Fit, Holds, Opened
  <2>8. QED
    BY <2>4, <2>5, <2>6, <2>7 DEF StepRight
<1>2. CASE FailsTo(u, misused, "disconnect") /\ db' = db /\ odbc' = odbc
  <2>1. Goes(u, "disconnect", (call[u].fault \/ ~misused), call[u].result)
    BY <1>2, FailsToGoes DEF Points, Results
  <2>2. PastTypeOK' /\ past'.overlapped = past.overlapped /\ past'.halfClosed = past.halfClosed
    BY <1>2, PastKept, Types DEF FailsTo
  <2>3. DbTypeOK' /\ OdbcTypeOK'
    BY <1>2, Types DEF DbTypeOK, OdbcTypeOK, Owner
  <2>4. ConnectionTypeOK' /\ Kept(u)
    BY <2>1, <2>2, <2>3, TypesNext DEF Goes, Kept
  <2>5. Pending(u) /\ (OwnRows(u) => OwnRows(u)')
    BY <1>2, <2>1, <2>3 DEF At, Goes, Pending, OwnRows
  <2>6. Fit(u) => Fit(u)'
    BY <1>2, <2>1, <2>3 DEF At, Goes, Fit, Holds, Pending, NoStatement, Closed, Opened
  <2>7. (~past.overlapped /\ ~past.halfClosed => Fit(u)) => Comes(u)
    <3>1. Fit(u) => ~misused
      BY <1>2 DEF At, Fit, Holds, Opened
    <3>2. call[u].fault \in BOOLEAN
      BY Types DEF Call
    <3>3. QED
      BY <1>2, <2>1, <2>2, <3>1, <3>2 DEF At, Goes, Comes, Pending
  <2>8. QED
    BY <2>4, <2>5, <2>6, <2>7 DEF StepRight
<1>3. QED
  BY <1>1, <1>2

LEMMA ExecDirectRight ==
  ASSUME ConnectionTypeOK, NEW u \in Callers, ExecDirect(u)
  PROVE  StepRight(u)
<1> USE DEF ExecDirect
<1> DEFINE misused == \A x \in Current : x.holds # Nobody
<1>1. CASE /\ Succeeds(misused) /\ To(u, "count") /\ db' = db
           /\ odbc' = [odbc EXCEPT !.stmt =
                (@ \ Current) \cup {[x EXCEPT !.holds = u] : x \in Current}]
  <2>1. Goes(u, "count", call[u].fault, call[u].result)
    BY <1>1, ToGoes DEF Points, Results
  <2>2. PastTypeOK' /\ past'.overlapped = past.overlapped /\ past'.halfClosed = past.halfClosed
    BY <1>1, PastKept, Types
  <2>3. DbTypeOK' /\ OdbcTypeOK'
        /\ odbc'.env = odbc.env /\ odbc'.dbc = odbc.dbc /\ odbc'.open = odbc.open
        /\ odbc'.stmt = (odbc.stmt \ Current) \cup {[x EXCEPT !.holds = u] : x \in Current}
    BY <1>1, Types DEF DbTypeOK, OdbcTypeOK, Owner, Statement, Current
  <2>4. ConnectionTypeOK' /\ Kept(u)
    BY <2>1, <2>2, <2>3, TypesNext DEF Goes, Kept
  <2>5. Pending(u) /\ (OwnRows(u) => OwnRows(u)')
    <3>1. \A x \in Current' : x.holds = u
      <4>1. SUFFICES ASSUME NEW x \in odbc'.stmt, x.by = db.stmt
                     PROVE  x.holds = u
        BY <1>1 DEF Current
      <4>2. x \notin odbc.stmt \ Current
        BY <4>1 DEF Current
      <4>3. PICK y \in Current : x = [y EXCEPT !.holds = u]
        BY <2>3, <4>1, <4>2
      <4>4. y \in Statement
        BY <4>3, Types DEF Current, OdbcTypeOK
      <4>5. QED
        BY <4>3, <4>4 DEF Statement
    <3>2. QED
      BY <1>1, <2>1, <3>1 DEF At, Goes, Pending, OwnRows
  <2>6. Fit(u) => Fit(u)'
    <3>1. SUFFICES ASSUME Fit(u) PROVE Fit(u)'
      OBVIOUS
    <3> DEFINE r == [by |-> u, on |-> db.dbc, holds |-> Nobody]
    <3>2. Opened /\ db.stmt = u /\ odbc.stmt = {r}
      BY <1>1, <3>1 DEF At, Fit, Holds
    <3>3. Current = {r}
      BY <3>2 DEF Current
    <3>4. [r EXCEPT !.holds = u] = [by |-> u, on |-> db.dbc, holds |-> u]
      OBVIOUS
    <3>5. odbc'.stmt = {[by |-> u, on |-> db.dbc, holds |-> u]}
      BY <2>3, <3>2, <3>3, <3>4
    <3>6. QED
      BY <1>1, <2>1, <2>3, <3>2, <3>5 DEF Goes, Fit, Holds, Pending, Opened
  <2>7. (~past.overlapped /\ ~past.halfClosed => Fit(u)) => Comes(u)
    BY <1>1, <2>1, <2>2 DEF At, Goes, Comes, Pending, Fit, Holds, Opened
  <2>8. QED
    BY <2>4, <2>5, <2>6, <2>7 DEF StepRight
<1>2. CASE FailsTo(u, misused, "disconnect") /\ db' = db /\ odbc' = odbc
  <2>1. Goes(u, "disconnect", (call[u].fault \/ ~misused), call[u].result)
    BY <1>2, FailsToGoes DEF Points, Results
  <2>2. PastTypeOK' /\ past'.overlapped = past.overlapped /\ past'.halfClosed = past.halfClosed
    BY <1>2, PastKept, Types DEF FailsTo
  <2>3. DbTypeOK' /\ OdbcTypeOK'
    BY <1>2, Types DEF DbTypeOK, OdbcTypeOK, Owner
  <2>4. ConnectionTypeOK' /\ Kept(u)
    BY <2>1, <2>2, <2>3, TypesNext DEF Goes, Kept
  <2>5. Pending(u) /\ (OwnRows(u) => OwnRows(u)')
    BY <1>2, <2>1, <2>3 DEF At, Goes, Pending, OwnRows
  <2>6. Fit(u) => ~misused
    <3>1. SUFFICES ASSUME Fit(u) PROVE ~misused
      OBVIOUS
    <3> DEFINE r == [by |-> u, on |-> db.dbc, holds |-> Nobody]
    <3>2. db.stmt = u /\ odbc.stmt = {r}
      BY <1>2, <3>1 DEF At, Fit, Holds
    <3>3. r \in Current /\ r.holds = Nobody
      BY <3>2 DEF Current
    <3>4. QED
      BY <3>3, DatabaseAssumption DEF Nobody
  <2>7. Fit(u) => Fit(u)'
    <3>1. SUFFICES ASSUME Fit(u) PROVE Fit(u)'
      OBVIOUS
    <3>2. call'[u].pc = "disconnect" /\ call'[u].fault
      BY <2>1, <2>6, <3>1 DEF Goes
    <3>3. Opened' /\ \A x \in odbc'.stmt : x.on = db'.dbc
      BY <1>2, <3>1 DEF At, Fit, Holds, Opened
    <3>4. QED
      BY <3>2, <3>3 DEF Fit, Holds, Pending
  <2>8. (~past.overlapped /\ ~past.halfClosed => Fit(u)) => Comes(u)
    <3>1. call[u].fault \in BOOLEAN
      BY Types DEF Call
    <3>2. QED
      BY <1>2, <2>1, <2>2, <2>6, <3>1 DEF At, Goes, Comes, Pending
  <2>9. QED
    BY <2>4, <2>5, <2>7, <2>8 DEF StepRight
<1>3. QED
  BY <1>1, <1>2

LEMMA CountRowsRight ==
  ASSUME ConnectionTypeOK, NEW u \in Callers, CountRows(u)
  PROVE  StepRight(u)
<1> USE DEF CountRows
<1>1. CASE Succeeds(Unusable) /\ To(u, "fetch") /\ db' = db /\ odbc' = odbc
  <2> Unusable \in BOOLEAN
    BY DEF Unusable
  <2>1. Goes(u, "fetch", call[u].fault, call[u].result)
    BY <1>1, ToGoes DEF Points, Results
  <2>2. PastTypeOK' /\ past'.overlapped = past.overlapped /\ past'.halfClosed = past.halfClosed
    BY <1>1, PastKept, Types
  <2>3. DbTypeOK' /\ OdbcTypeOK'
    BY <1>1, Types DEF DbTypeOK, OdbcTypeOK, Owner
  <2>4. ConnectionTypeOK' /\ Kept(u)
    BY <2>1, <2>2, <2>3, TypesNext DEF Goes, Kept
  <2>5. Pending(u) /\ (OwnRows(u) => OwnRows(u)')
    BY <1>1, <2>1, <2>3 DEF At, Goes, Pending, OwnRows, Current
  <2>6. Fit(u) => Fit(u)'
    BY <1>1, <2>1, <2>3 DEF At, Goes, Fit, Holds, Pending, NoStatement, Closed, Opened
  <2>7. (~past.overlapped /\ ~past.halfClosed => Fit(u)) => Comes(u)
    BY <1>1, <2>1, <2>2 DEF At, Goes, Comes, Pending, Fit, Holds, Opened
  <2>8. QED
    BY <2>4, <2>5, <2>6, <2>7 DEF StepRight
<1>2. CASE /\ Succeeds(Unusable) /\ (call[u].counts => \A x \in Current : x.holds # u)
           /\ FreeStatement /\ Back(u, "zero") /\ db' = db
  <2> Unusable \in BOOLEAN
    BY DEF Unusable
  <2>1. Goes(u, "back", call[u].fault, "zero")
    BY <1>2, BackGoes DEF Points, Results
  <2>2. PastTypeOK' /\ past'.overlapped = past.overlapped /\ past'.halfClosed = past.halfClosed
    BY <1>2, PastKept, Types
  <2>3. DbTypeOK' /\ OdbcTypeOK'
        /\ odbc'.env = odbc.env /\ odbc'.dbc = odbc.dbc /\ odbc'.open = odbc.open
        /\ odbc'.stmt = odbc.stmt \ Current
    BY <1>2, Types DEF DbTypeOK, OdbcTypeOK, Owner, FreeStatement
  <2>4. ConnectionTypeOK' /\ Kept(u)
    BY <2>1, <2>2, <2>3, TypesNext DEF Goes, Kept
  <2>5. Pending(u) /\ (OwnRows(u) => OwnRows(u)')
    BY <1>2, <2>1, <2>3 DEF At, Goes, Pending, OwnRows
  <2>6. Fit(u) => Fit(u)'
    BY <1>2, <2>1, <2>3 DEF At, Goes, Fit, Holds, Pending, NoStatement, Closed, Opened, Current
  <2>7. (~past.overlapped => OwnRows(u)) => Comes(u)
    <3>1. ASSUME OwnRows(u) PROVE ~call[u].counts
      <4>1. PICK x \in Current : x.holds # Nobody
        BY <1>2 DEF Succeeds, Unusable
      <4>2. x.holds = u
        BY <1>2, <3>1, <4>1 DEF At, OwnRows
      <4>3. QED
        BY <1>2, <4>1, <4>2
    <3>2. QED
      BY <1>2, <2>1, <2>2, <3>1 DEF At, Goes, Comes, Pending
  <2>8. QED
    BY <2>4, <2>5, <2>6, <2>7 DEF StepRight
<1>3. CASE FailsTo(u, Unusable, "disconnect") /\ db' = db /\ odbc' = odbc
  <2> Unusable \in BOOLEAN
    BY DEF Unusable
  <2>1. Goes(u, "disconnect", (call[u].fault \/ ~Unusable), call[u].result)
    BY <1>3, FailsToGoes DEF Points, Results
  <2>2. PastTypeOK' /\ past'.overlapped = past.overlapped /\ past'.halfClosed = past.halfClosed
    BY <1>3, PastKept, Types DEF FailsTo
  <2>3. DbTypeOK' /\ OdbcTypeOK'
    BY <1>3, Types DEF DbTypeOK, OdbcTypeOK, Owner
  <2>4. ConnectionTypeOK' /\ Kept(u)
    BY <2>1, <2>2, <2>3, TypesNext DEF Goes, Kept
  <2>5. Pending(u) /\ (OwnRows(u) => OwnRows(u)')
    BY <1>3, <2>1, <2>3 DEF At, Goes, Pending, OwnRows
  <2>6. Fit(u) => ~Unusable
    <3>1. SUFFICES ASSUME Fit(u) PROVE ~Unusable
      OBVIOUS
    <3> DEFINE r == [by |-> u, on |-> db.dbc, holds |-> u]
    <3>2. db.stmt = u /\ odbc.stmt = {r}
      BY <1>3, <3>1 DEF At, Fit, Holds
    <3>3. r \in Current /\ r.holds = u
      BY <3>2 DEF Current
    <3>4. QED
      BY <3>3, DatabaseAssumption DEF Nobody, Unusable
  <2>7. Fit(u) => Fit(u)'
    <3>1. SUFFICES ASSUME Fit(u) PROVE Fit(u)'
      OBVIOUS
    <3>2. call'[u].pc = "disconnect" /\ call'[u].fault
      BY <2>1, <2>6, <3>1 DEF Goes
    <3>3. Opened' /\ \A x \in odbc'.stmt : x.on = db'.dbc
      BY <1>3, <3>1 DEF At, Fit, Holds, Opened
    <3>4. QED
      BY <3>2, <3>3 DEF Fit, Holds, Pending
  <2>8. (~past.overlapped /\ ~past.halfClosed => Fit(u)) => Comes(u)
    <3>1. call[u].fault \in BOOLEAN
      BY Types DEF Call
    <3>2. QED
      BY <1>3, <2>1, <2>2, <2>6, <3>1 DEF At, Goes, Comes, Pending
  <2>9. QED
    BY <2>4, <2>5, <2>7, <2>8 DEF StepRight
<1>4. QED
  BY <1>1, <1>2, <1>3

LEMMA FetchRight ==
  ASSUME ConnectionTypeOK, NEW u \in Callers, Fetch(u)
  PROVE  StepRight(u)
<1> USE DEF Fetch
<1> DEFINE own == \A x \in Current : x.holds = u
<1> Unusable \in BOOLEAN
  BY DEF Unusable
<1>1. DbTypeOK' /\ OdbcTypeOK' /\ Pending(u)
      /\ odbc'.env = odbc.env /\ odbc'.dbc = odbc.dbc /\ odbc'.open = odbc.open
      /\ odbc'.stmt = odbc.stmt \ Current /\ db' = db
  BY Types DEF DbTypeOK, OdbcTypeOK, FreeStatement, Pending, At
<1>2. ASSUME Fit(u)
      PROVE  /\ Opened /\ Current = odbc.stmt /\ ~Unusable
  <2>1. Opened /\ db.stmt = u /\ odbc.stmt = {[by |-> u, on |-> db.dbc, holds |-> u]}
    BY <1>2 DEF At, Fit, Holds
  <2>2. Current = odbc.stmt
    BY <2>1 DEF Current
  <2>3. [by |-> u, on |-> db.dbc, holds |-> u] \in Current
    BY <2>1, <2>2
  <2>4. QED
    BY <2>1, <2>2, <2>3, DatabaseAssumption DEF Unusable, Nobody
<1>3. ASSUME Fit(u), call'[u].pc = "back" PROVE Fit(u)'
  BY <1>1, <1>2, <1>3 DEF Fit, Holds, Pending, NoStatement, Opened
<1>4. CASE Succeeds(Unusable) /\ Back(u, IF own THEN "ok" ELSE "wrong")
  <2>1. Goes(u, "back", call[u].fault, IF own THEN "ok" ELSE "wrong")
    BY <1>4, BackGoes DEF Results
  <2>2. PastTypeOK' /\ past'.overlapped = past.overlapped /\ past'.halfClosed = past.halfClosed
    BY <1>4, PastKept, Types
  <2>3. ConnectionTypeOK' /\ Kept(u) /\ (OwnRows(u) => OwnRows(u)')
    BY <1>1, <2>1, <2>2, TypesNext DEF Goes, Kept, OwnRows
  <2>4. (~past.overlapped => OwnRows(u)) => Comes(u)
    BY <2>1, <2>2 DEF At, Goes, Comes, OwnRows
  <2>5. QED
    BY <1>1, <1>3, <2>1, <2>3, <2>4 DEF StepRight, Goes
<1>5. CASE FailsBack(u, Unusable)
  <2>1. Goes(u, "back", (call[u].fault \/ ~Unusable), "failed")
    BY <1>5, FailsBackGoes
  <2>2. PastTypeOK' /\ past'.overlapped = past.overlapped /\ past'.halfClosed = past.halfClosed
    BY <1>5, PastKept, Types DEF FailsBack
  <2>3. ConnectionTypeOK' /\ Kept(u) /\ (OwnRows(u) => OwnRows(u)')
    BY <1>1, <2>1, <2>2, TypesNext DEF Goes, Kept, OwnRows
  <2>4. call[u].fault \in BOOLEAN
    BY Types DEF Call
  <2>5. (~past.overlapped /\ ~past.halfClosed => Fit(u)) => Comes(u)
    BY <1>2, <2>1, <2>2, <2>4 DEF Goes, Comes
  <2>6. QED
    BY <1>1, <1>3, <2>1, <2>3, <2>5 DEF StepRight, Goes
<1>6. QED
  BY <1>4, <1>5

\* A disconnection that is cut short is recorded, and the query gives a failure.
LEMMA CutShort ==
  ASSUME ConnectionTypeOK, NEW u \in Callers, NEW misused \in BOOLEAN,
         call[u].pc \in {"disconnect", "free"}, Back(u, "failed"), db' = db, odbc' = odbc,
         misused \/ past.fails < MaxDbFails,
         past' = [past EXCEPT !.halfClosed = TRUE, !.fails = IF misused THEN @ ELSE @ + 1]
  PROVE  StepRight(u)
<1>1. Goes(u, "back", call[u].fault, "failed")
  BY BackGoes DEF Results
<1>2. PastTypeOK' /\ past'.overlapped = past.overlapped /\ past'.halfClosed
  <2>1. past \in [fails : 0..MaxDbFails, overlapped : BOOLEAN, halfClosed : BOOLEAN]
    BY Types DEF PastTypeOK
  <2>2. CASE misused
    BY <2>1, <2>2 DEF PastTypeOK
  <2>3. CASE ~misused
    <3>1. past.fails + 1 \in 0..MaxDbFails
      BY <2>1, <2>3, DatabaseAssumption
    <3>2. past' = [past EXCEPT !.halfClosed = TRUE, !.fails = past.fails + 1]
      BY <2>3
    <3>3. QED
      BY <2>1, <3>1, <3>2 DEF PastTypeOK
  <2>4. QED
    BY <2>2, <2>3
<1>3. ConnectionTypeOK' /\ Kept(u) /\ Pending(u)
  BY <1>1, <1>2, Types, TypesNext DEF Goes, Kept, DbTypeOK, OdbcTypeOK, Pending
<1>4. OwnRows(u)'
  BY <1>1 DEF Goes, OwnRows
<1>5. Fit(u) => call[u].fault
  BY DEF Fit, Holds
<1>6. past.halfClosed \in BOOLEAN
  BY Types DEF PastTypeOK
<1>7. (~past.overlapped /\ ~past.halfClosed => Fit(u)) => Comes(u)
  BY <1>1, <1>2, <1>5, <1>6 DEF Goes, Comes
<1>8. QED
  BY <1>2, <1>3, <1>4, <1>7 DEF StepRight

LEMMA DisconnectRight ==
  ASSUME ConnectionTypeOK, NEW u \in Callers, Disconnect(u)
  PROVE  StepRight(u)
<1> USE DEF Disconnect
<1> DEFINE misused == db.dbc \notin odbc.open
<1>1. CASE ~db.status /\ Back(u, "failed") /\ odbc' = odbc /\ past' = past
  <2>1. Goes(u, "back", call[u].fault, "failed")
    BY <1>1, BackGoes DEF Results
  <2>2. ConnectionTypeOK' /\ Kept(u) /\ Pending(u)
    BY <1>1, <2>1, Types, TypesNext DEF At, Goes, Kept, DbTypeOK, OdbcTypeOK, PastTypeOK, Pending
  <2>3. ~Fit(u) /\ OwnRows(u)'
    BY <1>1, <2>1 DEF At, Fit, Holds, Opened, Goes, OwnRows
  <2>4. (~past.overlapped /\ ~past.halfClosed => Fit(u)) => Comes(u)
    BY <1>1, <2>1, <2>3 DEF Goes, Comes
  <2>5. QED
    BY <2>2, <2>3, <2>4 DEF StepRight
<1>2. CASE /\ db.status /\ Succeeds(misused) /\ To(u, "free")
           /\ odbc' = [odbc EXCEPT !.open = @ \ {db.dbc}, !.stmt = {x \in @ : x.on # db.dbc}]
  <2>1. Goes(u, "free", call[u].fault, call[u].result)
    BY <1>2, ToGoes DEF Points
  <2>2. PastTypeOK' /\ past' = past
    BY <1>2, Types DEF PastTypeOK, Succeeds
  <2>3. DbTypeOK' /\ OdbcTypeOK'
        /\ odbc'.env = odbc.env /\ odbc'.dbc = odbc.dbc /\ odbc'.open = odbc.open \ {db.dbc}
        /\ odbc'.stmt = {x \in odbc.stmt : x.on # db.dbc}
    BY <1>2, Types DEF DbTypeOK, OdbcTypeOK
  <2>4. ConnectionTypeOK' /\ Kept(u) /\ Pending(u) /\ OwnRows(u)'
    BY <2>1, <2>2, <2>3, TypesNext DEF At, Goes, Kept, Pending, OwnRows
  <2>5. Fit(u) => Fit(u)'
    BY <1>2, <2>1, <2>3 DEF At, Goes, Fit, Holds, Pending, NoStatement, Opened
  <2>6. Comes(u)
    BY <2>1, <2>2 DEF Goes, Comes, Pending
  <2>7. QED
    BY <2>4, <2>5, <2>6 DEF StepRight
<1>3. CASE /\ db.status /\ (misused \/ past.fails < MaxDbFails)
           /\ past' = [past EXCEPT !.halfClosed = TRUE, !.fails = IF misused THEN @ ELSE @ + 1]
           /\ Back(u, "failed") /\ odbc' = odbc
  BY <1>3, CutShort DEF At
<1>4. QED
  BY <1>1, <1>2, <1>3

LEMMA FreeHandlesRight ==
  ASSUME ConnectionTypeOK, NEW u \in Callers, FreeHandles(u)
  PROVE  StepRight(u)
<1> USE DEF FreeHandles
<1>1. CASE /\ odbc' = [odbc EXCEPT !.dbc = @ \ ({db.dbc} \ odbc.open), !.env = @ \ {db.env}]
           /\ db' = [db EXCEPT !.status = FALSE]
           /\ past' = past
  <2>1. Goes(u, "back", call[u].fault, "failed")
    BY BackGoes DEF Results
  <2>2. DbTypeOK' /\ OdbcTypeOK' /\ PastTypeOK' /\ ~db'.status
        /\ odbc'.env = odbc.env \ {db.env} /\ odbc'.dbc = odbc.dbc \ ({db.dbc} \ odbc.open)
        /\ odbc'.open = odbc.open /\ odbc'.stmt = odbc.stmt
    BY <1>1, Types DEF DbTypeOK, OdbcTypeOK, PastTypeOK
  <2>3. ConnectionTypeOK' /\ Kept(u) /\ Pending(u) /\ OwnRows(u)'
    BY <1>1, <2>1, <2>2, TypesNext DEF At, Goes, Kept, Pending, OwnRows
  <2>4. Fit(u) => Fit(u)' /\ call[u].fault
    BY <2>1, <2>2 DEF At, Goes, Fit, Holds, Pending, NoStatement, Closed
  <2>5. (~past.overlapped /\ ~past.halfClosed => Fit(u)) => Comes(u)
    BY <1>1, <2>1, <2>4 DEF Goes, Comes
  <2>6. QED
    BY <2>3, <2>4, <2>5 DEF StepRight
<1>2. CASE /\ past.fails < MaxDbFails
           /\ past' = [past EXCEPT !.halfClosed = TRUE, !.fails = @ + 1]
           /\ UNCHANGED <<db, odbc>>
  <2>1. past' = [past EXCEPT !.halfClosed = TRUE, !.fails = IF FALSE THEN @ ELSE @ + 1]
    BY <1>2
  <2>2. QED
    BY <1>2, <2>1, CutShort DEF At
<1>3. QED
  BY <1>1, <1>2

\* So every step of databaseExecSQL is.
LEMMA ExecSQLRight ==
  ASSUME ConnectionTypeOK, NEW u \in Callers, ExecSQL(u)
  PROVE  StepRight(u)
  BY LookAtStatusRight, AllocEnvironmentRight, AllocConnectionRight, ConnectRight,
     AllocStatementRight, ExecDirectRight, CountRowsRight, FetchRight, DisconnectRight,
     FreeHandlesRight
  DEF ExecSQL

-----------------------------------------------------------------------------------
\* The invariant at its parts: Fit speaks of the query that runs, or of any when none does.
LEMMA FitFromSound ==
  ASSUME NEW u \in Callers, Alone, Sound, Pending(u)
  PROVE  Fit(u)
  BY DEF Sound, Fit

LEMMA RunKeepsIInv ==
  ASSUME ConnectionIInv, NEW u \in Callers, ExecSQL(u)
  PROVE  ConnectionIInv'
<1>1. StepRight(u)
  BY ExecSQLRight DEF ConnectionIInv
<1>2. past.overlapped' = past.overlapped /\ (past.halfClosed => past.halfClosed')
  BY <1>1 DEF StepRight, Kept
<1>3. ASSUME ~past.overlapped PROVE Alone'
  <2>1. Alone /\ Pending(u)
    BY <1>1, <1>3 DEF ConnectionIInv, StepRight
  <2>2. \A w \in Callers \ {u} : ~Pending(w) /\ call'[w] = call[w]
    BY <1>1, <2>1 DEF Alone, StepRight, Kept
  <2>3. \A w \in Callers \ {u} : ~Pending(w)'
    BY <2>2 DEF Pending
  <2>4. OwnRows(u)'
    BY <1>1, <2>1 DEF StepRight, Alone, OwnRows
  <2>5. QED
    BY <2>3, <2>4 DEF Alone, Pending, OwnRows
<1>4. ASSUME ~past.overlapped, ~past.halfClosed' PROVE Sound'
  <2>1. Alone /\ Sound /\ Pending(u)
    BY <1>1, <1>2, <1>4 DEF ConnectionIInv, StepRight
  <2>2. Fit(u)'
    BY <1>1, <1>4, <2>1 DEF StepRight, Sound, Fit
  <2>3. \A w \in Callers \ {u} : ~Pending(w) /\ call'[w] = call[w]
    BY <1>1, <2>1 DEF Alone, StepRight, Kept
  <2>4. \A w \in Callers \ {u} : Holds(w)'
    BY <2>3 DEF Holds, Pending
  <2>5. QED
    BY <2>2, <2>4 DEF Sound, Fit
<1>5. QED
  BY <1>1, <1>2, <1>3, <1>4 DEF ConnectionIInv, StepRight

LEMMA BeginKeepsIInv ==
  ASSUME ConnectionIInv, NEW u \in Callers, Begin(u)
  PROVE  ConnectionIInv'
<1>1. PICK counts \in BOOLEAN :
        call' = [call EXCEPT ![u] = [NoCall EXCEPT !.pc = "begin", !.counts = counts]]
  BY DEF Begin
<1>2. call' \in [Callers -> Call] /\ call'[u].pc = "begin"
      /\ \A w \in Callers \ {u} : call'[w] = call[w]
  BY <1>1, Types DEF ConnectionIInv, NoCall, Call
<1>3. DbTypeOK' /\ OdbcTypeOK' /\ PastTypeOK' /\ past'.halfClosed = past.halfClosed
      /\ past'.overlapped = (past.overlapped \/ \E w \in Callers : Pending(w))
  BY Types DEF ConnectionIInv, Begin, DbTypeOK, OdbcTypeOK, PastTypeOK, Pending
<1>4. ConnectionTypeOK'
  BY <1>2, <1>3, TypesNext
<1>5. ASSUME ~past'.overlapped
      PROVE  ~past.overlapped /\ \A w \in Callers : ~Pending(w)
  BY <1>3, <1>5
<1>6. ASSUME ~past'.overlapped
      PROVE  \A w \in Callers \ {u} : ~Pending(w)' /\ Holds(w)'
  BY <1>2, <1>5, <1>6 DEF Pending, Holds
<1>7. ASSUME ~past'.overlapped PROVE Alone'
  BY <1>2, <1>6, <1>7 DEF Alone, Pending
<1>8. ASSUME ~past'.overlapped, ~past'.halfClosed PROVE Sound'
  <2>1. NoStatement /\ (Closed \/ Opened)
    BY <1>3, <1>5, <1>8 DEF ConnectionIInv, Sound
  <2>2. Holds(u)'
    BY <1>2, <2>1 DEF Begin, Holds, NoStatement, Closed, Opened
  <2>3. QED
    BY <1>2, <1>6, <1>8, <2>2 DEF Sound, Pending
<1>9. QED
  BY <1>4, <1>7, <1>8 DEF ConnectionIInv

LEMMA EndKeepsIInv ==
  ASSUME ConnectionIInv, NEW u \in Callers, End(u)
  PROVE  ConnectionIInv'
<1>1. call' \in [Callers -> Call] /\ call'[u].pc = "idle" /\ call[u].pc = "back"
      /\ \A w \in Callers \ {u} : call'[w] = call[w]
  BY Types DEF ConnectionIInv, End, At, NoCall, Call
<1>2. UNCHANGED <<db, odbc, past>>
  BY DEF End
<1>3. ConnectionTypeOK'
  BY <1>1, <1>2, Types, TypesNext DEF ConnectionIInv, DbTypeOK, OdbcTypeOK, PastTypeOK
<1>4. \A w \in Callers : Pending(w)' <=> Pending(w)
  BY <1>1 DEF Pending
<1>5. Alone => Alone'
  BY <1>1, <1>2, <1>4 DEF Alone, Current
<1>6. Sound => Sound'
  <2>1. ASSUME Sound, NEW w \in Callers PROVE Holds(w)'
    BY <1>1, <1>2, <2>1 DEF Sound, Holds, NoStatement, Closed, Opened
  <2>2. QED
    BY <1>2, <1>4, <2>1 DEF Sound, NoStatement, Closed, Opened
<1>7. QED
  BY <1>2, <1>3, <1>5, <1>6 DEF ConnectionIInv

\* ConnectionIInv is inductive.
LEMMA ConnectionIInvInductive ==
  /\ ConnectionInit => ConnectionIInv
  /\ ConnectionIInv /\ [ConnectionNext]_connectionVars => ConnectionIInv'
<1>1. ConnectionInit => ConnectionIInv
  <2> SUFFICES ASSUME ConnectionInit PROVE ConnectionIInv
    OBVIOUS
  <2>1. ConnectionTypeOK
    BY DatabaseAssumption DEF ConnectionInit, ConnectionTypeOK, Call, NoCall, Owner
  <2>2. \A u \in Callers : ~Pending(u) /\ Holds(u) /\ call[u].pc = "idle"
    BY DEF ConnectionInit, NoCall, Pending, Holds
  <2>3. QED
    BY <2>1, <2>2 DEF ConnectionInit, ConnectionIInv, Alone, Sound, NoStatement, Closed
<1>2. ASSUME ConnectionIInv, UNCHANGED connectionVars PROVE ConnectionIInv'
  BY <1>2 DEF connectionVars, ConnectionIInv, ConnectionTypeOK, Alone, Sound, Holds, Pending,
     Current, NoStatement, Closed, Opened
<1>3. QED
  BY <1>1, <1>2, BeginKeepsIInv, RunKeepsIInv, EndKeepsIInv DEF ConnectionNext

\* Whenever no query runs, the connection is fit for the next one: ConnectionStatus tells the
\* truth and no handle is left over (databaseExecSQL, databaseConnect, databaseDisconnect),
\* as long as queries did not overlap and no disconnection was cut short.
THEOREM ConnectionStaysFit == ConnectionSpec => []ConnectionInv
<1>1. ConnectionIInv => ConnectionInv
  BY DEF ConnectionIInv, ConnectionInv, ConnectionHonest, Sound, Pending, NoStatement,
     Closed, Opened
<1>2. QED
  BY <1>1, ConnectionIInvInductive, PTL DEF ConnectionSpec

-----------------------------------------------------------------------------------
\* The variables of DatabaseQuery, as the module's INSTANCE gives them.
View(u) == [pc |-> IF call[u].pc \in {"idle", "back"} THEN call[u].pc ELSE "running",
            counts |-> call[u].counts, fault |-> call[u].fault, result |-> call[u].result]
SeenQueries == [u \in Callers |-> View(u)]
Trouble == [overlapped |-> past.overlapped, broken |-> past.halfClosed]

\* What the instance's initial predicate and variables are in these terms.
LEMMA PromiseSeen ==
  /\ Promise!QueryInit <=> SeenQueries = [u \in Callers |-> Promise!NoQuery]
                           /\ Trouble = [overlapped |-> FALSE, broken |-> FALSE]
  /\ Promise!queryVars = <<SeenQueries, Trouble>>
  BY DEF Promise!QueryInit, Promise!queryVars, SeenQueries, View, Trouble

Queries == [pc : {"idle", "running", "back"}, counts : BOOLEAN, fault : BOOLEAN,
            result : {"none", "ok", "wrong", "zero", "failed"}]
Troubles == [overlapped : BOOLEAN, broken : BOOLEAN]

\* The types of what is seen.
LEMMA SeenTypes ==
  ASSUME ConnectionTypeOK
  PROVE  Trouble \in Troubles /\ \A u \in Callers : SeenQueries[u] = View(u) /\ View(u) \in Queries
<1>1. ASSUME NEW u \in Callers PROVE View(u) \in Queries
  <2>1. call[u] \in Call
    BY Types
  <2>2. QED
    BY <2>1 DEF View, Queries, Call
<1>2. Trouble \in Troubles
  BY Types DEF Trouble, Troubles, PastTypeOK
<1>3. QED
  BY <1>1, <1>2 DEF SeenQueries

LEMMA SeenTypesNext ==
  ASSUME ConnectionTypeOK'
  PROVE  Trouble' \in Troubles /\ \A u \in Callers : View(u)' \in Queries
<1>1. ASSUME NEW u \in Callers PROVE View(u)' \in Queries
  <2>1. call'[u] \in Call
    BY TypesNext
  <2>2. QED
    BY <2>1 DEF View, Queries, Call
<1>2. Trouble' \in Troubles
  BY TypesNext DEF Trouble, Troubles, PastTypeOK
<1>3. QED
  BY <1>1, <1>2

\* Records are equal when their fields are.
LEMMA SameQuery ==
  ASSUME NEW r \in Queries, NEW q \in Queries, r.pc = q.pc, r.counts = q.counts,
         r.fault = q.fault, r.result = q.result
  PROVE  r = q
  BY DEF Queries

LEMMA SameTrouble ==
  ASSUME NEW r \in Troubles, NEW q \in Troubles, r.overlapped = q.overlapped,
         r.broken = q.broken
  PROVE  r = q
  BY DEF Troubles

\* A step of the query of u changes what is seen of it, to the record with these fields.
LEMMA SeenBecomes ==
  ASSUME ConnectionTypeOK', NEW u \in Callers, \A w \in Callers \ {u} : call'[w] = call[w],
         NEW q \in Queries, q.pc = View(u)'.pc, q.counts = call'[u].counts,
         q.fault = call'[u].fault, q.result = call'[u].result
  PROVE  SeenQueries' = [SeenQueries EXCEPT ![u] = q]
<1>1. View(u)'.counts = call'[u].counts /\ View(u)'.fault = call'[u].fault
      /\ View(u)'.result = call'[u].result
  BY DEF View
<1>2. q = View(u)'
  BY <1>1, SeenTypesNext, SameQuery
<1>3. \A w \in Callers \ {u} : View(w)' = View(w)
  BY DEF View
<1>4. QED
  BY <1>2, <1>3 DEF SeenQueries

LEMMA TroubleBecomes ==
  ASSUME ConnectionTypeOK', NEW t \in Troubles, t.overlapped = past'.overlapped,
         t.broken = past'.halfClosed
  PROVE  Trouble' = t
<1>1. Trouble'.overlapped = past'.overlapped /\ Trouble'.broken = past'.halfClosed
  BY DEF Trouble
<1>2. QED
  BY <1>1, SeenTypesNext, SameTrouble

\* Each step is a step of DatabaseQuery, or changes nothing of it.
LEMMA BeginsSeen ==
  ASSUME ConnectionIInv, NEW u \in Callers, Begin(u)
  PROVE  Promise!QueryNext
<1>1. ConnectionTypeOK /\ ConnectionTypeOK'
  BY BeginKeepsIInv DEF ConnectionIInv
<1>2. PICK counts \in BOOLEAN :
        call' = [call EXCEPT ![u] = [NoCall EXCEPT !.pc = "begin", !.counts = counts]]
  BY DEF Begin
<1>3. /\ call'[u].pc = "begin" /\ call'[u].counts = counts
      /\ call'[u].fault = FALSE /\ call'[u].result = "none"
      /\ \A w \in Callers \ {u} : call'[w] = call[w]
  BY <1>1, <1>2, Types DEF NoCall
<1>4. SeenQueries' = [SeenQueries EXCEPT ![u] = [Promise!NoQuery EXCEPT !.pc = "running", !.counts = counts]]
  <2> DEFINE q == [Promise!NoQuery EXCEPT !.pc = "running", !.counts = counts]
  <2>1. q \in Queries /\ q.pc = "running" /\ q.counts = counts /\ q.fault = FALSE
        /\ q.result = "none"
    BY DEF Promise!NoQuery, Queries
  <2>2. View(u)'.pc = "running"
    BY <1>3 DEF View
  <2> HIDE DEF q
  <2>3. SeenQueries' = [SeenQueries EXCEPT ![u] = q]
    BY <1>1, <1>3, <2>1, <2>2, SeenBecomes
  <2>4. QED
    BY <2>3 DEF q
<1>5. Trouble' = [Trouble EXCEPT !.overlapped = @ \/ \E w \in Callers : SeenQueries[w].pc = "running"]
  <2> DEFINE busy == \E w \in Callers : SeenQueries[w].pc = "running"
             t == [Trouble EXCEPT !.overlapped = @ \/ busy]
  <2>1. \A w \in Callers : SeenQueries[w].pc = "running" <=> call[w].pc \notin {"idle", "back"}
    BY DEF SeenQueries, View
  <2>2. busy <=> \E w \in Callers : call[w].pc \notin {"idle", "back"}
    BY <2>1
  <2>3. past'.overlapped = (past.overlapped \/ busy) /\ past'.halfClosed = past.halfClosed
    BY <1>1, <2>2, Types DEF Begin, PastTypeOK
  <2>4. Trouble.overlapped = past.overlapped /\ Trouble.broken = past.halfClosed
    BY DEF Trouble
  <2> HIDE DEF busy
  <2>5. t \in Troubles /\ t.overlapped = (past.overlapped \/ busy) /\ t.broken = past.halfClosed
    BY <1>1, <2>4, SeenTypes DEF Troubles
  <2> HIDE DEF t
  <2>6. Trouble' = t
    BY <1>1, <2>3, <2>5, TroubleBecomes
  <2>7. QED
    BY <2>6 DEF t, busy
<1>6. SeenQueries[u].pc = "idle"
  BY DEF Begin, At, SeenQueries, View
<1>7. Promise!QueryBegins(u, counts)
  BY <1>4, <1>5, <1>6 DEF Promise!QueryBegins, Promise!Running, SeenQueries, View, Trouble
<1>8. QED
  BY <1>7 DEF Promise!QueryNext

LEMMA EndsSeen ==
  ASSUME ConnectionIInv, NEW u \in Callers, End(u)
  PROVE  Promise!QueryNext
<1>1. ConnectionTypeOK /\ ConnectionTypeOK'
  BY EndKeepsIInv DEF ConnectionIInv
<1>2. /\ call'[u] = NoCall
      /\ \A w \in Callers \ {u} : call'[w] = call[w]
  BY <1>1, Types DEF End
<1>3. SeenQueries' = [SeenQueries EXCEPT ![u] = Promise!NoQuery]
  <2>1. Promise!NoQuery \in Queries
    BY DEF Promise!NoQuery, Queries
  <2>2. QED
    BY <1>1, <1>2, <2>1, SeenBecomes DEF View, Promise!NoQuery, NoCall
<1>4. Trouble' = Trouble /\ SeenQueries[u].pc = "back"
  BY DEF End, At, Trouble, SeenQueries, View
<1>5. Promise!Taken(u)
  BY <1>3, <1>4 DEF Promise!Taken, SeenQueries, View, Trouble
<1>6. QED
  BY <1>5 DEF Promise!QueryNext

LEMMA RunsSeen ==
  ASSUME ConnectionIInv, NEW u \in Callers, ExecSQL(u)
  PROVE  Promise!QueryNext \/ UNCHANGED Promise!queryVars
<1>1. ConnectionTypeOK /\ ConnectionTypeOK' /\ StepRight(u)
  BY ExecSQLRight DEF ConnectionIInv, StepRight
<1>2. Comes(u) /\ Kept(u) /\ Pending(u)
  <2>1. ~past.overlapped => OwnRows(u)
    BY DEF ConnectionIInv, Alone, OwnRows
  <2>2. ~past.overlapped /\ ~past.halfClosed => Fit(u)
    BY <1>1, FitFromSound DEF ConnectionIInv, StepRight
  <2>3. QED
    BY <1>1, <2>1, <2>2 DEF StepRight
<1>3. SeenQueries[u] \in Queries
  BY <1>1, SeenTypes
<1>4. /\ SeenQueries[u].pc = "running" /\ SeenQueries[u].counts = call[u].counts
      /\ SeenQueries[u].fault = call[u].fault /\ SeenQueries[u].result = call[u].result
  BY <1>2 DEF SeenQueries, View, Pending
<1>5. /\ past'.overlapped = past.overlapped /\ call'[u].counts = call[u].counts
      /\ \A w \in Callers \ {u} : call'[w] = call[w]
  BY <1>2 DEF Kept
<1>6. Trouble \in Troubles /\ Trouble.overlapped = past.overlapped
      /\ Trouble.broken = past.halfClosed
  BY <1>1, SeenTypes DEF Trouble
<1>7. past'.halfClosed = past.halfClosed => Trouble' = Trouble
  BY <1>1, <1>5, <1>6, TroubleBecomes
<1>8. CASE Pending(u)' /\ call'[u].result = call[u].result /\ past'.halfClosed = past.halfClosed
  <2>1. View(u)'.pc = "running"
    BY <1>8 DEF View, Pending
  <2>2. CASE call'[u].fault = call[u].fault
    <3>1. SeenQueries' = [SeenQueries EXCEPT ![u] = SeenQueries[u]]
      BY <1>1, <1>3, <1>4, <1>5, <1>8, <2>1, <2>2, SeenBecomes
    <3>2. SeenQueries' = SeenQueries
      BY <3>1 DEF SeenQueries
    <3>3. QED
      BY <1>7, <1>8, <3>2 DEF Promise!queryVars, SeenQueries, View, Trouble
  <2>3. CASE call'[u].fault = TRUE
    <3> DEFINE q == [SeenQueries[u] EXCEPT !.fault = TRUE]
    <3>1. q \in Queries /\ q.pc = "running" /\ q.counts = call[u].counts /\ q.fault = TRUE
          /\ q.result = call[u].result
      BY <1>3, <1>4 DEF Queries
    <3> HIDE DEF q
    <3>2. SeenQueries' = [SeenQueries EXCEPT ![u] = q]
      BY <1>1, <1>5, <1>8, <2>1, <2>3, <3>1, SeenBecomes, ZenonT(60)
    <3>3. Promise!QueryFaults(u)
      BY <1>4, <1>7, <1>8, <3>2
      DEF q, Promise!QueryFaults, Promise!Running, SeenQueries, View, Trouble
    <3>4. QED
      BY <3>3 DEF Promise!QueryNext
  <2>4. QED
    BY <1>2, <2>2, <2>3 DEF Comes
<1>9. CASE call'[u].pc = "back" /\ call'[u].result \in {"ok", "wrong", "zero", "failed"}
  <2> DEFINE r == call'[u].result
             fault == call'[u].fault
             q == [SeenQueries[u] EXCEPT !.pc = "back", !.fault = fault, !.result = r]
  <2>1. View(u)'.pc = "back" /\ fault \in {SeenQueries[u].fault, TRUE} /\ fault \in BOOLEAN
    <3>1. fault \in {call[u].fault, TRUE}
      BY <1>2 DEF Comes
    <3>2. fault \in BOOLEAN
      BY <1>1, TypesNext DEF Call
    <3>3. QED
      BY <1>4, <1>9, <3>1, <3>2 DEF View
  <2>2. q \in Queries /\ q.pc = "back" /\ q.counts = call[u].counts /\ q.fault = fault
        /\ q.result = r
    BY <1>3, <1>4, <1>9, <2>1 DEF Queries
  <2> HIDE DEF q
  <2>3. SeenQueries' = [SeenQueries EXCEPT ![u] = q]
    BY <1>1, <1>5, <2>1, <2>2, SeenBecomes
  <2>4. ~past.overlapped =>
          /\ r # "wrong" /\ (r = "zero" => ~call[u].counts)
          /\ r = "failed" => fault \/ past.halfClosed
          /\ past'.halfClosed # past.halfClosed => fault
    BY <1>2, <1>9 DEF Comes, Pending
  <2>5. \/ Trouble' = Trouble
        \/ (fault \/ past.overlapped) /\ Trouble' = [Trouble EXCEPT !.broken = TRUE]
    <3>1. CASE past'.halfClosed = past.halfClosed
      BY <1>7, <3>1
    <3>2. CASE past'.halfClosed # past.halfClosed
      <4> DEFINE t == [Trouble EXCEPT !.broken = TRUE]
      <4>1. past'.halfClosed = TRUE /\ (fault \/ past.overlapped)
        BY <1>1, <1>2, <2>4, <3>2, Types, TypesNext DEF Kept, PastTypeOK
      <4>2. t \in Troubles /\ t.overlapped = past.overlapped /\ t.broken = TRUE
        BY <1>6 DEF Troubles
      <4> HIDE DEF t
      <4>3. Trouble' = t
        BY <1>1, <1>5, <4>1, <4>2, TroubleBecomes
      <4>4. QED
        BY <4>1, <4>3 DEF t
    <3>3. QED
      BY <3>1, <3>2
  <2>6. Promise!May(u, r, fault)
    <3>1. \/ past.overlapped
          \/ CASE r = "zero" -> ~call[u].counts
               [] r = "wrong" -> FALSE
               [] r = "failed" -> fault \/ past.halfClosed
               [] OTHER -> TRUE
      BY <1>9, <2>4
    <3>2. QED
      BY <3>1 DEF Promise!May
  <2>7. Promise!Running(u)
    BY <1>4 DEF Promise!Running, SeenQueries, View
  <2>8. Promise!QueryReturns(u)
    <3>1. /\ SeenQueries' = [SeenQueries EXCEPT ![u].pc = "back", ![u].fault = fault, ![u].result = r]
          /\ fault \in {SeenQueries[u].fault, TRUE} /\ r \in {"ok", "wrong", "zero", "failed"}
      BY <1>9, <2>1, <2>3 DEF q, SeenQueries
    <3>2. QED
      BY <2>5, <2>6, <2>7, <3>1, ZenonT(60) DEF Promise!QueryReturns, SeenQueries, View, Trouble
  <2>9. QED
    BY <2>8 DEF Promise!QueryNext
<1>10. QED
  BY <1>2, <1>8, <1>9 DEF Comes

\* databaseExecSQL and what it calls keep the promise of DatabaseQuery: a query gives its own
\* rows, none if there are none, or fails for a reason, as long as queries do not overlap.
THEOREM ConnectionKeepsPromise == ConnectionSpec => KeepsPromise
<1>1. ConnectionInit => Promise!QueryInit
  <2>1. ASSUME ConnectionInit, NEW u \in Callers PROVE View(u) = Promise!NoQuery
    BY <2>1 DEF ConnectionInit, NoCall, View, Promise!NoQuery
  <2>2. QED
    BY <2>1, PromiseSeen DEF ConnectionInit, SeenQueries, Trouble
<1>2. ConnectionIInv /\ [ConnectionNext]_connectionVars => [Promise!QueryNext]_(Promise!queryVars)
  <2>1. ASSUME UNCHANGED connectionVars PROVE UNCHANGED Promise!queryVars
    BY <2>1 DEF connectionVars, Promise!queryVars
  <2>2. QED
    BY <2>1, BeginsSeen, EndsSeen, RunsSeen DEF ConnectionNext, ConnectionIInv
<1>3. QED
  BY <1>1, <1>2, ConnectionIInvInductive, PTL DEF ConnectionSpec, KeepsPromise, Promise!QuerySpec
===============================================================================
