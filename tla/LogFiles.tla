------------------------------- MODULE LogFiles -------------------------------
(***************************************************************************)
(* A file of /var/log that main writes and a handler sends to a client:    *)
(* saveTestConfig (BoardInfo.c) takes the comments out of the              *)
(* configuration that the database has for a board and stores it as        *)
(* testConfig, and send_filesystem_data (TDCommandHandler.c) lists the     *)
(* files of that directory (LFILES) and sends them (BFILES), with no lock  *)
(* in between.  The text is followed character by character while main     *)
(* looks at it; of the file only the size matters, and -1 means that it is *)
(* not there.                                                              *)
(***************************************************************************)
EXTENDS Integers, Sequences, FiniteSets

CONSTANTS
  MaxText,       \* bound of the model: characters of the configuration
  OldSizes,      \* sizes the file may have before, when it is there
  MaxRequests    \* bound of the model: requests of the client

ASSUME LogFilesAssumption ==
  MaxText \in Nat \ {0} /\ OldSizes \subseteq Nat /\ MaxRequests \in Nat

VARIABLES
  config,     \* saveTestConfig: the text, the place i in it, and what was kept of it
  size,       \* the size of the file
  handler,    \* the handler: where it is in a request, and the byte counts it took
  answer,     \* the last listing, and the last answer to a request for the file
  opened      \* files the handler has opened and not closed
logVars == <<config, size, handler, answer, opened>>

Characters == {"/", "*", "newline", "letter"}
Gone == -1
\* text, i, kept: configData, i and configDataWithoutComments.
Config == [pc : {"strip", "store", "write", "done"}, text : Seq(Characters), i : Nat,
           kept : Seq(Characters \cup {"nul"}), length : Nat]
\* asked: requests so far; counted: dataLen; measured: lSize.
NoRequest == [pc |-> "idle", asked |-> 0, counted |-> 0, measured |-> 0]
\* listed: the size named in the last listing; announced, body: the length in the header of
\* the last answer and the bytes after it; histories: fresh, nothing was written since the
\* listing or during the answer; silent, requests that had no answer; unopened, those of
\* them for which the file could not be opened.
NoAnswer == [listed |-> 0, announced |-> 0, body |-> 0, fresh |-> FALSE, silent |-> 0, unopened |-> 0]

LogInit ==
  /\ \E n \in 1..MaxText : \E text \in [1..n -> Characters] :
       config = [pc |-> "strip", text |-> text, i |-> 0, kept |-> <<>>, length |-> 0]
  /\ size \in {Gone} \cup OldSizes
  /\ handler = NoRequest /\ answer = NoAnswer /\ opened = 0

-------------------------------------------------------------------------------
\* What is at a place of the text, counted from 0 as in the code; the text ends with a null
\* character, and what comes after it is some character that is cut off again.
At(text, k) == IF k < Len(text) THEN text[k + 1] ELSE "nul"
Opens(text, k, a, b) == k + 1 < Len(text) /\ At(text, k) = a /\ At(text, k + 1) = b
\* The first place from k on that satisfies P, or the end of the text.
First(k, n, P(_)) == CHOOSE j \in k..n : (j = n \/ P(j)) /\ \A l \in k..(j - 1) : ~P(l)

BlockEnd(text, k) == LET P(j) == Opens(text, j, "*", "/") IN First(k, Len(text), P)
LineEnd(text, k) == LET P(j) == At(text, j) = "newline" IN First(k, Len(text), P)

\* Mutant: the end of a block comment is kept.
ResumeInBlock(text, k) ==
  CASE Opens(text, k, "/", "*") -> BlockEnd(text, k) + 1
    [] Opens(text, k, "/", "/") -> LineEnd(text, k)
    [] OTHER -> k
\* Where saveTestConfig goes on: the character there is kept, whatever it is.
Resume(text, k) ==
  CASE Opens(text, k, "/", "*") -> BlockEnd(text, k) + 2
    [] Opens(text, k, "/", "/") -> LineEnd(text, k)
    [] OTHER -> k

HandlerQuiet == UNCHANGED <<handler, answer, opened>>
StripComments ==
  /\ config.pc = "strip" /\ config.i < Len(config.text)
  /\ LET k == Resume(config.text, config.i)
     IN config' = [config EXCEPT !.i = k + 1, !.kept = Append(@, At(config.text, k))]
  /\ UNCHANGED size /\ HandlerQuiet

\* The last character that was kept is replaced by the end of the string; from then on only
\* the length matters.
Stored(kept) == SubSeq(kept, 1, Len(kept) - 1)
EndString ==
  /\ config.pc = "strip" /\ config.i >= Len(config.text)
  /\ config' = [pc |-> "store", text |-> <<>>, i |-> 0, kept |-> <<>>,
                length |-> Len(Stored(config.kept))]
  /\ UNCHANGED size /\ HandlerQuiet

-------------------------------------------------------------------------------
\* The file is opened and emptied, unless that fails, then written, perhaps in parts, perhaps
\* not to the end.
Changed(newSize) ==
  /\ size' = newSize
  /\ answer' = [answer EXCEPT !.fresh = FALSE]
  /\ UNCHANGED <<handler, opened>>
OpenForWriting ==
  /\ config.pc = "store"
  /\ \/ config' = [config EXCEPT !.pc = "write"] /\ Changed(0)
     \/ config' = [config EXCEPT !.pc = "done", !.length = 0] /\ UNCHANGED size /\ HandlerQuiet
Write ==
  /\ config.pc = "write"
  /\ \/ \E n \in (size + 1)..config.length : Changed(n) /\ UNCHANGED config
     \/ config' = [config EXCEPT !.pc = "done", !.length = 0] /\ UNCHANGED size /\ HandlerQuiet

-------------------------------------------------------------------------------
\* The handler: send_filesystem_data.  What main does with the text alone does not touch
\* it, so requests are followed from then on.
Handle(pc, next) ==
  /\ config.pc # "strip" /\ handler.pc = pc
  /\ handler' = [handler EXCEPT !.pc = next]
  /\ UNCHANGED <<config, size>>

\* addFileNames: a file that is not empty is listed, with its size, counted again.
SendFileInformation ==
  /\ handler.asked < MaxRequests
  /\ config.pc # "strip" /\ handler.pc = "idle"
  /\ handler' = [handler EXCEPT !.pc = IF size > 0 THEN "list" ELSE "idle", !.asked = @ + 1]
  /\ answer' = [NoAnswer EXCEPT !.fresh = TRUE, !.silent = answer.silent,
                               !.unopened = answer.unopened]
  /\ UNCHANGED <<config, size, opened>>
AddFileName ==
  /\ Handle("list", "idle")
  /\ answer' = [answer EXCEPT !.listed = size]
  /\ UNCHANGED opened

\* send_file: the bytes are counted for the header; when the file is not there, the client
\* is told so.
SendFile ==
  /\ handler.asked < MaxRequests
  /\ config.pc # "strip" /\ handler.pc = "idle"
  /\ handler' = [handler EXCEPT !.pc = IF size = Gone THEN "idle" ELSE "open",
                                !.asked = @ + 1, !.counted = IF size = Gone THEN 0 ELSE size]
  /\ answer' = [answer EXCEPT !.announced = 0, !.body = 0, !.listed = IF answer.fresh THEN @ ELSE 0,
                              !.fresh = TRUE]
  /\ UNCHANGED <<config, size, opened>>

\* A file that cannot be opened any more, as there is none or the process has no descriptor
\* left, is not answered for.
OpenFile ==
  \/ /\ Handle("open", "measure")
     /\ opened' = opened + 1 /\ UNCHANGED answer
  \/ /\ config.pc # "strip" /\ handler.pc = "open"
     /\ handler' = [handler EXCEPT !.pc = "idle", !.counted = 0]
     /\ answer' = [answer EXCEPT !.silent = @ + 1, !.unopened = @ + 1]
     /\ UNCHANGED <<config, size, opened>>

\* An empty file is neither sent nor closed.
MeasureFile ==
  /\ config.pc # "strip" /\ handler.pc = "measure"
  /\ IF size = 0
     THEN /\ handler' = [handler EXCEPT !.pc = "idle", !.counted = 0]
          /\ answer' = [answer EXCEPT !.silent = @ + 1]
     ELSE /\ handler' = [handler EXCEPT !.pc = "read", !.measured = size]
          /\ UNCHANGED answer
  /\ UNCHANGED <<config, size, opened>>

\* Mutant: the last newline is not sent.
BodyShort(read) == read + 1
\* The text is followed by two bytes more than the header says.
Body(read) == read + 2
CloseFile == opened - 1
\* What can be read is sent; when the client is gone, the file is not closed.
ReadAndSend ==
  /\ config.pc # "strip" /\ handler.pc = "read"
  /\ handler' = [handler EXCEPT !.pc = "idle", !.counted = 0, !.measured = 0]
  /\ LET read == IF handler.measured <= size THEN handler.measured ELSE size
     IN \/ /\ answer' = [answer EXCEPT !.announced = handler.counted, !.body = Body(read)]
           /\ opened' = CloseFile
        \/ answer' = [answer EXCEPT !.silent = @ + 1] /\ UNCHANGED opened
  /\ UNCHANGED <<config, size>>

LogNext ==
  \/ StripComments \/ EndString \/ OpenForWriting \/ Write
  \/ SendFileInformation \/ AddFileName
  \/ SendFile \/ OpenFile \/ MeasureFile \/ ReadAndSend

-------------------------------------------------------------------------------
LogTypeOK ==
  /\ config \in Config /\ Len(config.text) <= MaxText
  /\ size \in {Gone} \cup Nat /\ opened \in 0..MaxRequests
  /\ handler.asked \in 0..MaxRequests /\ handler.measured \in Nat /\ handler.counted \in Nat

\* The comments of a text, as pairs of the place where one begins and the place after it.
CommentAfter(text, k) ==
  IF At(text, k + 1) = "*" THEN
    LET j == BlockEnd(text, k + 2) IN IF j = Len(text) THEN j ELSE j + 2
  ELSE LineEnd(text, k)
Comments(text) ==
  LET from[k \in 0..Len(text)] ==
        IF k = Len(text) THEN {}
        ELSE IF Opens(text, k, "/", "*") \/ Opens(text, k, "/", "/")
             THEN {<<k, CommentAfter(text, k)>>} \cup from[CommentAfter(text, k)]
             ELSE from[k + 1]
  IN from[0]
Uncommented(text) ==
  LET outside(k) == \A c \in Comments(text) : k < c[1] \/ k >= c[2]
      upTo[k \in 0..Len(text)] ==
        IF k = 0 THEN <<>>
        ELSE IF outside(k - 1) THEN Append(upTo[k - 1], At(text, k - 1)) ELSE upTo[k - 1]
  IN upTo[Len(text)]

\* No comment follows another one immediately, and none begins with a slash.
Plain(text) ==
  \A c \in Comments(text) :
    /\ \A d \in Comments(text) : c[2] # d[1]
    /\ ~(At(text, c[1] + 1) = "*" /\ At(text, c[1] + 2) = "/")
EndsInComment(text) == \E c \in Comments(text) : c[2] = Len(text)

\* What is stored is the configuration without its comments (saveTestConfig, "remove the
\* comments from configData", BoardInfo.c:1103), and without its last character unless
\* that belongs to a comment.
ConfigurationStripped ==
  config.pc = "strip" /\ config.i >= Len(config.text) /\ Plain(config.text) =>
    Stored(config.kept) =
      LET clean == Uncommented(config.text)
      IN IF EndsInComment(config.text) THEN clean ELSE SubSeq(clean, 1, Len(clean) - 1)

\* A client that lists the file and then gets it finds the listed size in the header, and
\* so many bytes and two more after it, as long as nobody wrote the file in between
\* (send_file counts, opens, measures and reads in turn, TDCommandHandler.c:690-835).
SentAsListed ==
  handler.pc = "idle" /\ answer.fresh /\ answer.announced > 0 =>
    /\ answer.body = answer.announced + 2
    /\ answer.listed > 0 => answer.announced = answer.listed

\* Between requests the files left open are those of the requests that opened the file and
\* had no answer: every one of them costs a descriptor for good (TDCommandHandler.c:826-829,
\* 854-859), and no other does, neither one that was answered nor one whose file could not be opened.
SilenceLeaks == handler.pc = "idle" => opened = answer.silent - answer.unopened

\* What becomes of a request (send_filesystem_data): the answer that was announced, or none,
\* and then a file left open if it had been opened.
FilesInv == LogTypeOK /\ SentAsListed /\ SilenceLeaks
===============================================================================
