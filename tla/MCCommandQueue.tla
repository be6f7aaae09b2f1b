---- MODULE MCCommandQueue ----
\* The queue with its reader and, side by side, the assembling of the commands that are
\* added to it: in any behaviour one of them takes all the steps.
EXTENDS QueueReader, CommandFraming, TLC
VARIABLE part

\* The bound on what clients send is reached, and all of it was received.
NothingMore == sent = MaxSent /\ \A s \in Slots : wire[s] = <<>>
MCInit ==
  /\ ReaderInit /\ FramingInit
  /\ part \in {"queue", "framing"}
MCNext ==
  /\ UNCHANGED part
  /\ \/ part = "queue" /\ ReaderNext /\ UNCHANGED framingVars
     \/ part = "framing" /\ FramingNext /\ UNCHANGED <<vars, cmd>>
     \/ part = "framing" /\ NothingMore /\ UNCHANGED <<vars, cmd, framingVars>>
MCSpec == MCInit /\ [][MCNext]_<<vars, cmd, framingVars, part>>

Symmetry == Permutations(Commands)
====
