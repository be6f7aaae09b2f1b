---- MODULE MCBoardSetup ----
\* The setup of the board over the promise of the database connection and, side by side,
\* the connection and its promise: what one does is independent of the other, so in any
\* behaviour one of them takes all the steps.
EXTENDS BoardSetup, DatabaseConnection
VARIABLE part
\* No field of a broadcast depends on another: nothing, all fields with a number that is
\* not in the database, no number and no initials, a number that is in the database.
MCBroadcasts ==
  {NoMessage,
   [serial |-> Client, fg |-> NotInDatabase, rev |-> Operator, tester |-> Client],
   [NoMessage EXCEPT !.serial = Client],
   [NoMessage EXCEPT !.fg = InDatabase, !.tester = Client]}
MCInit == Init /\ ConnectionInit /\ part \in {"setup", "connection"}
MCNext ==
  /\ UNCHANGED part
  /\ \/ part = "setup" /\ Next /\ UNCHANGED connectionVars
     \/ part = "connection" /\ ConnectionNext /\ UNCHANGED vars
MCSpec == MCInit /\ [][MCNext]_<<vars, connectionVars, part>>
\* Bound of the model: when queries overlapped, and nothing is promised any more, the
\* behaviours of the connection in which calls of the driver fail as well are not followed;
\* nor is the second session, which finds the file of the first, when main has its MAC.
Explored ==
  /\ past.overlapped => past.fails = 0
  /\ seen.started = 2 => Awaited \/ at \in {"off", "tester"}
====
