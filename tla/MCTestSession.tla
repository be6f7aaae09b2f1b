----------------------------- MODULE MCTestSession -----------------------------
\* The session and, side by side, the file of /var/log that main writes before the tests and
\* a handler sends: what one does is independent of the other, so in any behaviour one of
\* them takes all the steps.
EXTENDS TestSession, LogFiles
VARIABLE part

\* The second attempt has a gap in its sequence numbers.
MCTests == << <<TRUE>>, <<TRUE, FALSE, TRUE>> >>

\* No configuration is stored.
NothingToStore ==
  /\ config = [pc |-> "done", text |-> <<>>, i |-> 0, kept |-> <<>>, length |-> 0]
  /\ size = Gone /\ handler = NoRequest /\ answer = NoAnswer /\ opened = 0
MCInit ==
  /\ Init
  /\ \/ part = "session" /\ NothingToStore
     \/ part = "file" /\ LogInit
MCNext ==
  /\ UNCHANGED part
  /\ \/ part = "session" /\ Next /\ UNCHANGED logVars
     \/ part = "file" /\ LogNext /\ UNCHANGED vars
MCSpec == MCInit /\ [][MCNext]_<<vars, logVars, part>>
===============================================================================
