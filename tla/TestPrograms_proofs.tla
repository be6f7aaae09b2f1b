--------------------------- MODULE TestPrograms_proofs ---------------------------
(***************************************************************************)
(* Proofs about the test programs, for any board, drives, arguments and    *)
(* operator: what a program reports can be read off its rows, the verdicts *)
(* on CPUs, drives, serial port, mouse and memory are right, a drive holds *)
(* what it held before it was tested, and the pages of a memory test are   *)
(* each in one place and given back.                                       *)
(***************************************************************************)
EXTENDS TestPrograms, MemoryTest, FiniteSetTheorems, SequenceTheorems,
        WellFoundedInduction, TLAPS

-----------------------------------------------------------------------------------
(* Sequences of anything *)

\* A sequence, whatever its elements are.
Listed(s) == s \in Seq({s[k] : k \in DOMAIN s})

\* What Append does to it.
LEMMA AppendListed ==
  ASSUME NEW s, NEW e, Listed(s)
  PROVE  /\ Listed(Append(s, e)) /\ Len(s) \in Nat /\ DOMAIN s = 1..Len(s)
         /\ Len(Append(s, e)) = Len(s) + 1 /\ DOMAIN Append(s, e) = 1..Len(s) + 1
         /\ \A k \in 1..Len(s) : Append(s, e)[k] = s[k]
         /\ Append(s, e)[Len(s) + 1] = e
<1> DEFINE S == {s[k] : k \in DOMAIN s} \cup {e}
           t == Append(s, e)
<1>1. s \in Seq(S) /\ e \in S
  BY DEF Listed
<1>2. t \in Seq(S) /\ Len(t) = Len(s) + 1 /\ t[Len(s) + 1] = e /\ \A k \in 1..Len(s) : t[k] = s[k]
  BY <1>1, AppendProperties
<1>3. Len(s) \in Nat /\ DOMAIN s = 1..Len(s) /\ DOMAIN t = 1..Len(s) + 1
  BY <1>1, <1>2, LenProperties
<1>4. Listed(t)
  <2>1. \A k \in 1..Len(t) : t[k] \in {t[m] : m \in DOMAIN t}
    BY <1>2, <1>3
  <2>2. Len(t) \in Nat /\ t = [k \in 1..Len(t) |-> t[k]]
    BY <1>2, LenProperties
  <2>3. QED
    <3> DEFINE T == {t[m] : m \in DOMAIN t}
    <3>1. t \in [1..Len(t) -> T]
      BY <2>1, <2>2
    <3> HIDE DEF T, t
    <3>2. t \in Seq(T)
      BY <2>2, <3>1, SeqDef
    <3>3. QED
      BY <3>2 DEF Listed, T
<1>5. QED
  BY <1>2, <1>3, <1>4

\* One of its elements is replaced.
LEMMA ReplaceListed ==
  ASSUME NEW s, NEW e, NEW n \in DOMAIN s, Listed(s)
  PROVE  LET t == [s EXCEPT ![n] = e]
         IN /\ Listed(t) /\ Len(t) = Len(s) /\ DOMAIN t = DOMAIN s /\ t[n] = e
            /\ \A k \in DOMAIN s : k # n => t[k] = s[k]
<1> DEFINE t == [s EXCEPT ![n] = e]
           S == {s[k] : k \in DOMAIN s} \cup {e}
<1>1. s \in Seq(S) /\ e \in S
  BY DEF Listed
<1>2. Len(s) \in Nat /\ DOMAIN s = 1..Len(s)
  BY <1>1, LenProperties
<1>3. DOMAIN t = 1..Len(s) /\ t[n] = e /\ \A k \in DOMAIN s : k # n => t[k] = s[k]
  BY <1>2
<1>4. t \in Seq(S) /\ Len(t) = Len(s)
  BY <1>1, <1>2, ExceptSeq
<1>5. \A k \in 1..Len(t) : t[k] \in {t[m] : m \in DOMAIN t}
  BY <1>2, <1>3, <1>4
<1>6. t = [k \in 1..Len(t) |-> t[k]]
  BY <1>4, LenProperties
<1>7. Listed(t)
  <2> DEFINE T == {t[m] : m \in DOMAIN t}
  <2>1. t \in [1..Len(t) -> T]
    BY <1>5, <1>6
  <2> HIDE DEF T, t
  <2>2. t \in Seq(T)
    BY <1>2, <1>4, <2>1, SeqDef
  <2>3. QED
    BY <2>2 DEF Listed, T
<1>8. QED
  BY <1>2, <1>3, <1>4, <1>7

-----------------------------------------------------------------------------------
(* The rows *)

Statuses == {"Passed", "FAILED", ""}
IsRow(x) == x = [line |-> x.line, status |-> x.status] /\ x.status \in Seq(Statuses)

IsReport(r) ==
  /\ r = [TEST |-> r.TEST, DIAG |-> r.DIAG, last |-> r.last, dropped |-> r.dropped]
  /\ Listed(r.TEST) /\ Listed(r.DIAG) /\ r.last \in {"TEST", "DIAG"} /\ r.dropped \in BOOLEAN
  /\ \A k \in DOMAIN r.TEST : IsRow(r.TEST[k])
  /\ \A k \in DOMAIN r.DIAG : IsRow(r.DIAG[k])

\* Every line has its status.
Closed(r) ==
  /\ IsReport(r)
  /\ \A k \in DOMAIN r.TEST : r.TEST[k].status # <<>>
  /\ ~r.dropped => /\ \A k \in DOMAIN r.TEST : Len(r.TEST[k].status) = 1
                   /\ \A k \in DOMAIN r.DIAG : r.DIAG[k].status = <<>>

\* The last line waits for its status, and is what the next status will be given to.
Open(r) ==
  /\ IsReport(r)
  /\ \A k \in DOMAIN r.TEST : r.TEST[k].status = <<>> => k = Len(r.TEST) /\ r.last = "TEST"
  /\ ~r.dropped => /\ r.last = "TEST" /\ r.TEST # <<>> /\ r.TEST[Len(r.TEST)].status = <<>>
                   /\ \A k \in DOMAIN r.TEST : k # Len(r.TEST) => Len(r.TEST[k].status) = 1
                   /\ \A k \in DOMAIN r.DIAG : r.DIAG[k].status = <<>>

\* The program has not printed the line l.
NoLine(r, l) == \A k \in DOMAIN r.TEST : r.TEST[k].line # l

LEMMA EmptyStatus ==
  /\ <<>> \in Seq(Statuses) /\ Len(<<>>) = 0
  /\ \A s \in Statuses : /\ <<s>> \in Seq(Statuses) /\ <<s>> # <<>> /\ Len(<<s>>) = 1
                       /\ Append(<<>>, s) = <<s>>
<1>1. <<>> \in Seq(Statuses) /\ Len(<<>>) = 0
  BY EmptySeq
<1>2. ASSUME NEW s \in Statuses
      PROVE  <<s>> \in Seq(Statuses) /\ <<s>> # <<>> /\ Len(<<s>>) = 1 /\ Append(<<>>, s) = <<s>>
  <2>1. <<s>> \in Seq(Statuses) /\ Len(<<s>>) = 1
    OBVIOUS
  <2>2. Append(<<>>, s) = <<s>>
    BY <1>1, <2>1, AppendIsConcat, ConcatEmptySeq
  <2>3. QED
    BY <1>1, <2>1, <2>2
<1>3. QED
  BY <1>1, <1>2

LEMMA BeforeClosed == Closed(Before)
<1> DEFINE row == [line |-> "before", status |-> <<"Passed">>]
<1>1. Listed(<<row>>) /\ Listed(<<>>)
  BY DEF Listed
<1>2. IsRow(row)
  <2>1. "Passed" \in Statuses
    BY DEF Statuses
  <2>2. <<"Passed">> \in Seq(Statuses)
    BY <2>1, EmptyStatus
  <2>3. row.status = <<"Passed">> /\ row = [line |-> row.line, status |-> row.status]
    OBVIOUS
  <2> HIDE DEF row
  <2>4. QED
    BY <2>2, <2>3 DEF IsRow
<1>3. DOMAIN <<row>> = {1} /\ <<row>>[1] = row /\ DOMAIN <<>> = {}
  OBVIOUS
<1> HIDE DEF row
<1>4. /\ Before.TEST = <<row>> /\ Before.DIAG = <<>> /\ Before.last = "TEST" /\ ~Before.dropped
      /\ Before = [TEST |-> <<row>>, DIAG |-> <<>>, last |-> "TEST", dropped |-> FALSE]
  BY DEF Before, row
<1>5. row.status = <<"Passed">>
  BY DEF row
<1>6. IsReport(Before)
  BY <1>1, <1>2, <1>3, <1>4 DEF IsReport
<1>7. QED
  BY <1>3, <1>4, <1>5, <1>6, EmptyStatus DEF Closed

\* What printing a text does.
LEMMA Printing ==
  ASSUME NEW r, NEW a \in {"TEST", "DIAG"}, NEW l, IsReport(r)
  PROVE  LET t == boundedPrint(r, a, l)
             b == IF a = "TEST" THEN "DIAG" ELSE "TEST"
         IN IF l \in LongTexts
            THEN IsReport(t) /\ t.dropped /\ t.TEST = r.TEST /\ t.DIAG = r.DIAG /\ t.last = r.last
            ELSE /\ IsReport(t) /\ t.dropped = r.dropped /\ t.last = a
                 /\ t[b] = r[b] /\ t[a] = Append(r[a], Row(l))
<1> DEFINE t == boundedPrint(r, a, l)
           b == IF a = "TEST" THEN "DIAG" ELSE "TEST"
<1>1. CASE l \in LongTexts
  BY <1>1 DEF boundedPrint, IsReport
<1>2. CASE l \notin LongTexts
  <2>1. /\ t = [r EXCEPT ![a] = Append(@, Row(l)), !.last = a]
    BY <1>2 DEF boundedPrint
  <2>2. /\ t.dropped = r.dropped /\ t.last = a /\ t[b] = r[b] /\ t[a] = Append(r[a], Row(l))
        /\ t = [TEST |-> t.TEST, DIAG |-> t.DIAG, last |-> t.last, dropped |-> t.dropped]
    BY <2>1 DEF IsReport
  <2>3. Row(l) = [line |-> Row(l).line, status |-> Row(l).status] /\ Row(l).status = <<>>
    BY DEF Row
  <2>4. IsRow(Row(l))
    BY <2>3, EmptyStatus DEF IsRow
  <2>5. Listed(r[a]) /\ Listed(r[b]) /\ (\A k \in DOMAIN r[a] : IsRow(r[a][k])) /\ (\A k \in DOMAIN r[b] : IsRow(r[b][k]))
    BY DEF IsReport
  <2>6. Listed(t[a]) /\ (\A k \in DOMAIN t[a] : IsRow(t[a][k]))
    BY <2>2, <2>4, <2>5, AppendListed
  <2>7. IsReport(t)
    BY <2>2, <2>5, <2>6 DEF IsReport
  <2>8. QED
    BY <1>2, <2>2, <2>7
<1>3. QED
  BY <1>1, <1>2

LEMMA RowStatus ==
  ASSUME NEW x, NEW s \in Statuses, IsRow(x)
  PROVE  LET y == [x EXCEPT !.status = Append(@, s)]
         IN IsRow(y) /\ y.line = x.line /\ y.status = Append(x.status, s)
<1> DEFINE y == [x EXCEPT !.status = Append(@, s)]
<1>1. x = [line |-> x.line, status |-> x.status] /\ x.status \in Seq(Statuses)
  BY DEF IsRow
<1>2. y.line = x.line /\ y.status = Append(x.status, s) /\ y = [line |-> y.line, status |-> y.status]
  <2> DEFINE l == x.line
             q == x.status
  <2>1. x = [line |-> l, status |-> q]
    BY <1>1
  <2> HIDE DEF l, q
  <2>2. y = [line |-> l, status |-> Append(q, s)]
    BY <2>1
  <2>3. QED
    BY <2>1, <2>2
<1>3. Append(x.status, s) \in Seq(Statuses)
  BY <1>1, AppendProperties
<1>4. QED
  BY <1>2, <1>3 DEF IsRow

\* What a status does: it is added to those of the last row of the kind a received last.
LEMMA GivingStatus ==
  ASSUME NEW r, NEW s \in Statuses, IsReport(r), NEW a \in {"TEST", "DIAG"}, a = r.last,
         r[a] # <<>>
  PROVE  LET t == customMessage(r, s)
             b == IF a = "TEST" THEN "DIAG" ELSE "TEST"
             n == Len(r[a])
         IN /\ IsReport(t) /\ t.dropped = r.dropped /\ t.last = a /\ t[b] = r[b]
            /\ n \in DOMAIN r[a] /\ Len(t[a]) = n /\ DOMAIN t[a] = DOMAIN r[a]
            /\ t[a][n].line = r[a][n].line
            /\ t[a][n].status = Append(r[a][n].status, s)
            /\ \A k \in DOMAIN r[a] : k # n => t[a][k] = r[a][k]
<1> DEFINE t == customMessage(r, s)
           b == IF a = "TEST" THEN "DIAG" ELSE "TEST"
           n == Len(r[a])
           row == [r[a][n] EXCEPT !.status = Append(@, s)]
           q == [r[a] EXCEPT ![n] = row]
<1>1. /\ Listed(r[a]) /\ Listed(r[b])
      /\ (\A k \in DOMAIN r[a] : IsRow(r[a][k])) /\ (\A k \in DOMAIN r[b] : IsRow(r[b][k]))
  BY DEF IsReport
<1>2. n \in Nat /\ DOMAIN r[a] = 1..n /\ n # 0
  <2>1. r[a] \in Seq({r[a][k] : k \in DOMAIN r[a]})
    BY <1>1 DEF Listed
  <2>2. QED
    BY <2>1, LenProperties, EmptySeq
<1>3. n \in DOMAIN r[a]
  BY <1>2
<1>4. t = [r EXCEPT ![a] = q]
  BY <1>3 DEF customMessage
<1>5. row.line = r[a][n].line /\ row.status = Append(r[a][n].status, s) /\ IsRow(row)
  <2>1. IsRow(r[a][n])
    BY <1>1, <1>3
  <2>2. QED
    BY <2>1, RowStatus
<1> HIDE DEF row
<1>6. /\ Listed(q) /\ Len(q) = n /\ DOMAIN q = DOMAIN r[a] /\ q[n] = row
      /\ \A k \in DOMAIN r[a] : k # n => q[k] = r[a][k]
  BY <1>1, <1>3, ReplaceListed
<1> HIDE DEF q
<1>7. /\ t[a] = q /\ t[b] = r[b] /\ t.last = r.last /\ t.dropped = r.dropped
      /\ t = [TEST |-> t.TEST, DIAG |-> t.DIAG, last |-> t.last, dropped |-> t.dropped]
  BY <1>4 DEF IsReport
<1> HIDE DEF t
<1>8. IsReport(t)
  <2>1. \A k \in DOMAIN t[a] : IsRow(t[a][k])
    BY <1>1, <1>5, <1>6, <1>7
  <2>2. /\ Listed(t.TEST) /\ (\A k \in DOMAIN t.TEST : IsRow(t.TEST[k]))
        /\ Listed(t.DIAG) /\ (\A k \in DOMAIN t.DIAG : IsRow(t.DIAG[k]))
    BY <1>1, <1>6, <1>7, <2>1
  <2>3. QED
    BY <1>7, <2>2 DEF IsReport
<1>9. QED
  BY <1>3, <1>5, <1>6, <1>7, <1>8 DEF t

LEMMA StatusLen ==
  ASSUME NEW q \in Seq(Statuses), NEW s \in Statuses
  PROVE  Append(q, s) # <<>> /\ Len(Append(q, s)) = Len(q) + 1 /\ (q = <<>> => Append(q, s) = <<s>>)
<1>1. Append(q, s) \in Seq(Statuses) /\ Len(Append(q, s)) = Len(q) + 1 /\ Len(q) \in Nat
  BY AppendProperties, LenProperties
<1>2. Append(q, s) # <<>>
  BY <1>1, EmptySeq
<1>3. q = <<>> => Append(q, s) = <<s>>
  BY EmptyStatus
<1>4. QED
  BY <1>1, <1>2, <1>3

\* A line of diagnostics leaves every line with its status.
LEMMA DiagnosticKeepsClosed ==
  ASSUME NEW r, NEW l, Closed(r)
  PROVE  Closed(diagnosticPrint(r, l))
<1> DEFINE t == diagnosticPrint(r, l)
<1>1. IsReport(r) /\ t = boundedPrint(r, "DIAG", l)
  BY DEF Closed, diagnosticPrint
<1>2. CASE l \in LongTexts
  <2>1. IsReport(t) /\ t.dropped /\ t.TEST = r.TEST
    BY <1>1, <1>2, Printing
  <2>2. QED
    BY <2>1 DEF Closed
<1>3. CASE l \notin LongTexts
  <2>1. /\ IsReport(t) /\ t.dropped = r.dropped /\ t.TEST = r.TEST
        /\ t.DIAG = Append(r.DIAG, Row(l))
    BY <1>1, <1>3, Printing
  <2>2. Row(l).status = <<>>
    BY DEF Row
  <2>3. Listed(r.DIAG)
    BY <1>1 DEF IsReport
  <2>4. ASSUME ~r.dropped PROVE \A k \in DOMAIN t.DIAG : t.DIAG[k].status = <<>>
    BY <2>1, <2>2, <2>3, <2>4, AppendListed DEF Closed
  <2>5. QED
    BY <2>1, <2>4 DEF Closed
<1>4. QED
  BY <1>2, <1>3

\* A line that is printed then waits for its status.
LEMMA LineOpens ==
  ASSUME NEW r, NEW l, Closed(r)
  PROVE  Open(testPrint(r, l))
<1> DEFINE t == testPrint(r, l)
<1>1. IsReport(r) /\ t = boundedPrint(r, "TEST", l)
  BY DEF Closed, testPrint
<1>2. CASE l \in LongTexts
  <2>1. IsReport(t) /\ t.dropped /\ t.TEST = r.TEST
    BY <1>1, <1>2, Printing
  <2>2. QED
    BY <2>1 DEF Closed, Open
<1>3. CASE l \notin LongTexts
  <2>1. /\ IsReport(t) /\ t.dropped = r.dropped /\ t.DIAG = r.DIAG /\ t.last = "TEST"
        /\ t.TEST = Append(r.TEST, Row(l))
    BY <1>1, <1>3, Printing
  <2>2. Row(l).status = <<>>
    BY DEF Row
  <2>3. Listed(r.TEST)
    BY <1>1 DEF IsReport
  <2>4. /\ Len(r.TEST) \in Nat /\ DOMAIN r.TEST = 1..Len(r.TEST)
        /\ Len(t.TEST) = Len(r.TEST) + 1 /\ DOMAIN t.TEST = 1..Len(r.TEST) + 1
        /\ \A k \in 1..Len(r.TEST) : t.TEST[k] = r.TEST[k]
        /\ t.TEST[Len(r.TEST) + 1] = Row(l)
    BY <2>1, <2>3, AppendListed
  <2>5. t.TEST # <<>> /\ t.TEST[Len(t.TEST)].status = <<>>
    BY <2>2, <2>4, EmptySeq
  <2> HIDE DEF t
  <2>6. \A k \in DOMAIN t.TEST : k # Len(t.TEST) => k \in DOMAIN r.TEST /\ t.TEST[k] = r.TEST[k]
    BY <2>4
  <2>7. \A k \in DOMAIN t.TEST : t.TEST[k].status = <<>> => k = Len(t.TEST)
    BY <2>6 DEF Closed
  <2>8. ASSUME ~r.dropped
        PROVE  /\ \A k \in DOMAIN t.TEST : k # Len(t.TEST) => Len(t.TEST[k].status) = 1
               /\ \A k \in DOMAIN t.DIAG : t.DIAG[k].status = <<>>
    BY <2>1, <2>6, <2>8 DEF Closed
  <2>9. /\ \A k \in DOMAIN t.TEST : t.TEST[k].status = <<>> => k = Len(t.TEST) /\ t.last = "TEST"
        /\ ~t.dropped =>
             /\ t.last = "TEST" /\ t.TEST # <<>> /\ t.TEST[Len(t.TEST)].status = <<>>
             /\ \A k \in DOMAIN t.TEST : k # Len(t.TEST) => Len(t.TEST[k].status) = 1
             /\ \A k \in DOMAIN t.DIAG : t.DIAG[k].status = <<>>
    BY <2>1, <2>5, <2>7, <2>8, Zenon
  <2>10. Open(t)
    BY <2>1, <2>9, Zenon DEF Open
  <2>11. QED
    BY <2>10 DEF t
<1>4. QED
  BY <1>2, <1>3

\* The status is then its own.
LEMMA StatusCloses ==
  ASSUME NEW r, NEW s \in Statuses, Open(r)
  PROVE  LET t == customMessage(r, s)
         IN /\ Closed(t) /\ t.dropped = r.dropped
            /\ ~r.dropped => t.TEST[Len(t.TEST)].status = <<s>>
<1> DEFINE t == customMessage(r, s)
<1>1. IsReport(r) /\ r.last \in {"TEST", "DIAG"}
  BY DEF Open, IsReport
<1>2. CASE r[r.last] = <<>>
  <2>1. t = r
    BY <1>2 DEF customMessage
  <2>2. r.dropped
    BY <1>2 DEF Open
  <2>3. \A k \in DOMAIN r.TEST : r.TEST[k].status # <<>>
    <3>1. CASE r.last = "TEST"
      BY <1>2, <3>1
    <3>2. CASE r.last = "DIAG"
      BY <3>2 DEF Open
    <3>3. QED
      BY <1>1, <3>1, <3>2
  <2>4. QED
    BY <1>1, <2>1, <2>2, <2>3 DEF Closed
<1>3. CASE r[r.last] # <<>> /\ r.last = "TEST"
  <2> DEFINE n == Len(r.TEST)
  <2>1. /\ IsReport(t) /\ t.dropped = r.dropped /\ t.DIAG = r.DIAG
        /\ n \in DOMAIN r.TEST /\ Len(t.TEST) = n /\ DOMAIN t.TEST = DOMAIN r.TEST
        /\ t.TEST[n].status = Append(r.TEST[n].status, s)
        /\ \A k \in DOMAIN r.TEST : k # n => t.TEST[k] = r.TEST[k]
    BY <1>1, <1>3, GivingStatus
  <2>2. \A k \in DOMAIN r.TEST : r.TEST[k].status \in Seq(Statuses)
    BY <1>1 DEF IsReport, IsRow
  <2> HIDE DEF t, n
  <2>3. /\ t.TEST[n].status # <<>>
        /\ Len(t.TEST[n].status) = Len(r.TEST[n].status) + 1
        /\ r.TEST[n].status = <<>> => t.TEST[n].status = <<s>> /\ Len(t.TEST[n].status) = 1
    BY <2>1, <2>2, StatusLen, EmptyStatus
  <2>4. \A k \in DOMAIN t.TEST : t.TEST[k].status # <<>>
    <3>1. \A k \in DOMAIN r.TEST : k # n => r.TEST[k].status # <<>>
      BY DEF Open, n
    <3>2. QED
      BY <2>1, <2>3, <3>1
  <2>5. ASSUME ~r.dropped
        PROVE  /\ \A k \in DOMAIN t.TEST : Len(t.TEST[k].status) = 1
               /\ \A k \in DOMAIN t.DIAG : t.DIAG[k].status = <<>>
               /\ t.TEST[n].status = <<s>>
    <3>1. /\ r.TEST[n].status = <<>>
          /\ \A k \in DOMAIN r.TEST : k # n => Len(r.TEST[k].status) = 1
          /\ \A k \in DOMAIN r.DIAG : r.DIAG[k].status = <<>>
      BY <2>5 DEF Open, n
    <3>2. ASSUME NEW k \in DOMAIN t.TEST PROVE Len(t.TEST[k].status) = 1
      <4>1. CASE k = n
        BY <2>3, <3>1, <4>1
      <4>2. CASE k # n
        BY <2>1, <3>1, <4>2, Zenon
      <4>3. QED
        BY <4>1, <4>2
    <3>3. QED
      BY <2>1, <2>3, <3>1, <3>2
  <2>6. Closed(t)
    BY <2>1, <2>4, <2>5 DEF Closed
  <2>7. QED
    BY <2>1, <2>5, <2>6 DEF t
<1>4. CASE r[r.last] # <<>> /\ r.last = "DIAG"
  <2>1. r.dropped /\ \A k \in DOMAIN r.TEST : r.TEST[k].status # <<>>
    BY <1>4 DEF Open
  <2>2. IsReport(t) /\ t.dropped = r.dropped /\ t.TEST = r.TEST
    BY <1>1, <1>4, GivingStatus
  <2>3. QED
    BY <2>1, <2>2 DEF Closed
<1>5. QED
  BY <1>1, <1>2, <1>3, <1>4

\* A line with its status.
LEMMA VerdictCloses ==
  ASSUME NEW r, NEW l, NEW passed \in BOOLEAN, Closed(r)
  PROVE  Closed(Verdict(r, l, passed))
<1>1. Open(testPrint(r, l))
  BY LineOpens
<1>2. {"Passed", "FAILED"} \subseteq Statuses
  BY DEF Statuses
<1>3. Closed(customMessage(testPrint(r, l), "Passed")) /\ Closed(customMessage(testPrint(r, l), "FAILED"))
  BY <1>1, <1>2, StatusCloses
<1>4. QED
  BY <1>3 DEF Verdict, passedMessage, failedMessage

\* A line that was not printed does not appear by anything but by printing it.
LEMMA PrintingElse ==
  ASSUME NEW r, NEW l, NEW m, IsReport(r), NoLine(r, l)
  PROVE  /\ IsReport(diagnosticPrint(r, m)) /\ NoLine(diagnosticPrint(r, m), l)
         /\ IsReport(testPrint(r, m)) /\ (m # l \/ m \in LongTexts => NoLine(testPrint(r, m), l))
<1>1. IsReport(diagnosticPrint(r, m)) /\ diagnosticPrint(r, m).TEST = r.TEST
  BY Printing DEF diagnosticPrint
<1>2. CASE m \in LongTexts
  <2>1. IsReport(testPrint(r, m)) /\ testPrint(r, m).TEST = r.TEST
    BY <1>2, Printing DEF testPrint
  <2>2. QED
    BY <1>1, <2>1 DEF NoLine
<1>3. CASE m \notin LongTexts
  <2> DEFINE t == testPrint(r, m)
  <2>1. IsReport(t) /\ t.TEST = Append(r.TEST, Row(m))
    BY <1>3, Printing DEF testPrint
  <2>2. Row(m).line = m
    BY DEF Row
  <2>3. Listed(r.TEST)
    BY DEF IsReport
  <2>4. ASSUME m # l PROVE NoLine(t, l)
    <3>1. /\ Len(r.TEST) \in Nat /\ DOMAIN r.TEST = 1..Len(r.TEST)
          /\ DOMAIN t.TEST = 1..Len(r.TEST) + 1
          /\ \A k \in 1..Len(r.TEST) : t.TEST[k] = r.TEST[k]
          /\ t.TEST[Len(r.TEST) + 1] = Row(m)
      BY <2>1, <2>3, AppendListed
    <3> HIDE DEF t
    <3>2. \A k \in DOMAIN t.TEST : (k \in DOMAIN r.TEST /\ t.TEST[k] = r.TEST[k]) \/ t.TEST[k].line = m
      BY <2>2, <3>1
    <3>3. QED
      BY <2>4, <3>2 DEF NoLine
  <2>5. QED
    BY <1>1, <1>3, <2>1, <2>4 DEF NoLine
<1>4. QED
  BY <1>2, <1>3

LEMMA GivingElse ==
  ASSUME NEW r, NEW l, NEW s \in Statuses, IsReport(r), NoLine(r, l)
  PROVE  IsReport(customMessage(r, s)) /\ NoLine(customMessage(r, s), l)
<1> DEFINE t == customMessage(r, s)
<1>1. CASE r[r.last] = <<>>
  BY <1>1 DEF customMessage
<1>2. CASE r[r.last] # <<>> /\ r.last = "TEST"
  <2>1. /\ IsReport(t) /\ DOMAIN t.TEST = DOMAIN r.TEST
        /\ t.TEST[Len(r.TEST)].line = r.TEST[Len(r.TEST)].line /\ Len(r.TEST) \in DOMAIN r.TEST
        /\ \A k \in DOMAIN r.TEST : k # Len(r.TEST) => t.TEST[k] = r.TEST[k]
    BY <1>2, GivingStatus
  <2> HIDE DEF t
  <2>2. NoLine(t, l)
    BY <2>1 DEF NoLine
  <2>3. QED
    BY <2>1, <2>2 DEF t
<1>3. CASE r[r.last] # <<>> /\ r.last = "DIAG"
  <2>1. IsReport(t) /\ t.TEST = r.TEST
    BY <1>3, GivingStatus
  <2>2. QED
    BY <2>1 DEF NoLine
<1>4. r.last \in {"TEST", "DIAG"}
  BY DEF IsReport
<1>5. QED
  BY <1>1, <1>2, <1>3, <1>4

LEMMA VerdictElse ==
  ASSUME NEW r, NEW l, NEW m, NEW passed \in BOOLEAN, IsReport(r), NoLine(r, l), m # l
  PROVE  IsReport(Verdict(r, m, passed)) /\ NoLine(Verdict(r, m, passed), l)
<1>1. IsReport(testPrint(r, m)) /\ NoLine(testPrint(r, m), l)
  BY PrintingElse
<1>2. {"Passed", "FAILED"} \subseteq Statuses
  BY DEF Statuses
<1>3. QED
  BY <1>1, <1>2, GivingElse DEF Verdict, passedMessage, failedMessage

\* The line l stands there with the status of a test that passed.
PassedLine(r, l) == \E k \in DOMAIN r.TEST : r.TEST[k] = [line |-> l, status |-> <<"Passed">>]

LEMMA NotPrintedNotPassed ==
  ASSUME NEW r, NEW l, NoLine(r, l)
  PROVE  ~PassedLine(r, l)
<1>1. ASSUME NEW k \in DOMAIN r.TEST, r.TEST[k] = [line |-> l, status |-> <<"Passed">>] PROVE FALSE
  <2>1. r.TEST[k].line = l
    BY <1>1
  <2>2. QED
    BY <2>1 DEF NoLine
<1>2. QED
  BY <1>1 DEF PassedLine

\* A line that failed does not pass.
LEMMA FailedNotPassed ==
  ASSUME NEW r, NEW l, IsReport(r), NoLine(r, l)
  PROVE  ~PassedLine(Verdict(r, l, FALSE), l)
<1> DEFINE u == testPrint(r, l)
           t == Verdict(r, l, FALSE)
<1>1. IsReport(u) /\ t = customMessage(u, "FAILED") /\ "FAILED" \in Statuses
  BY PrintingElse DEF Verdict, failedMessage, Statuses
<1>2. CASE l \in LongTexts
  BY <1>1, <1>2, PrintingElse, GivingElse, NotPrintedNotPassed
<1>3. CASE l \notin LongTexts
  <2>1. u.TEST = Append(r.TEST, Row(l)) /\ u.last = "TEST" /\ Listed(r.TEST)
    BY <1>3, Printing DEF testPrint, IsReport
  <2>2. /\ Len(r.TEST) \in Nat /\ DOMAIN r.TEST = 1..Len(r.TEST) /\ Len(u.TEST) = Len(r.TEST) + 1
        /\ DOMAIN u.TEST = 1..Len(r.TEST) + 1
        /\ \A k \in 1..Len(r.TEST) : u.TEST[k] = r.TEST[k]
        /\ u.TEST[Len(r.TEST) + 1] = Row(l)
    BY <2>1, AppendListed
  <2>3. Row(l).status = <<>>
    BY DEF Row
  <2> HIDE DEF u
  <2>4. u.TEST # <<>> /\ u["TEST"] # <<>>
    BY <2>2, EmptySeq
  <2> DEFINE n == Len(u.TEST)
  <2>5. /\ n \in DOMAIN u.TEST /\ DOMAIN t.TEST = DOMAIN u.TEST
        /\ t.TEST[n].status = Append(u.TEST[n].status, "FAILED")
        /\ \A k \in DOMAIN u.TEST : k # n => t.TEST[k] = u.TEST[k]
    BY <1>1, <2>1, <2>4, GivingStatus
  <2> HIDE DEF t
  <2>6. t.TEST[n].status = <<"FAILED">>
    <3>1. u.TEST[n].status = <<>>
      BY <2>2, <2>3
    <3>2. QED
      BY <1>1, <2>5, <3>1, EmptyStatus
  <2>7. ASSUME NEW k \in DOMAIN t.TEST, t.TEST[k] = [line |-> l, status |-> <<"Passed">>] PROVE FALSE
    <3>1. t.TEST[k].line = l /\ t.TEST[k].status = <<"Passed">>
      BY <2>7
    <3>2. CASE k = n
      <4>1. <<"FAILED">>[1] = <<"Passed">>[1]
        BY <2>6, <3>1, <3>2
      <4>2. QED
        BY <4>1
    <3>3. CASE k # n
      <4>1. k \in DOMAIN r.TEST /\ r.TEST[k].line = l
        BY <2>2, <2>5, <3>1, <3>3
      <4>2. QED
        BY <4>1 DEF NoLine
    <3>4. QED
      BY <3>2, <3>3
  <2>8. QED
    BY <2>7 DEF PassedLine, t
<1>4. QED
  BY <1>2, <1>3

-----------------------------------------------------------------------------------
(* CPUs *)

FitProcess(p, board) ==
  /\ p \in Process /\ p.i <= Cardinality(board)
  /\ p.at # "fork" => p.i < Cardinality(board)
  /\ p.at = "test" => p.i \in board

\* The processes below the top wait for the one above.
StackFit ==
  /\ procs \in Seq(Process)
  /\ \A k \in DOMAIN procs : FitProcess(procs[k], cpus) /\ (k < Len(procs) <=> procs[k].at = "wait")

\* Every number below theirs is a CPU that a process can be bound to, and fork never failed.
AllBound == cpus = 0..number_of_cpus - 1 /\ forkFails = 0

\* Then there is one child at most, for the CPU the first process has got to; the CPUs before
\* were tested, and none failed as long as the process that runs has success.
OneChild ==
  /\ Len(procs) <= 2
  /\ covered = 0..procs[1].i - 1
  /\ Len(procs) = 1 => (procs[1].success => failing = {})
  /\ Len(procs) = 2 => /\ procs[2].at = "test" /\ procs[2].i = procs[1].i
                       /\ procs[2].success => failing = {}

CpuTypes ==
  /\ cpus \subseteq 0..MaxCpus - 1 /\ failing \cup covered \subseteq cpus /\ forkFails \in Nat
  /\ StackFit

CpuIInv ==
  /\ CpuTypes
  /\ program \notin {"cpu", "none"} => cpus = {} /\ failing = {} /\ covered = {}
  /\ program = "cpu" => procs # <<>>
  /\ program = "cpu" /\ AllBound =>
       procs[1].at # "test" /\ OneChild /\ NoLine(report, "CPUs")
  /\ CpuPassHonest

LEMMA ProcessAt ==
  ASSUME NEW p \in Process
  PROVE  [p EXCEPT !.at = "test", !.k = 1] \in Process
<1> DEFINE q == [p EXCEPT !.at = "test", !.k = 1]
           x == p.i
           y == p.success
           z == p.status
           a == p.at
           b == p.k
<1>1. p = [at |-> a, i |-> x, k |-> b, success |-> y, status |-> z]
  BY DEF Process
<1>2. x \in 0..MaxCpus /\ y \in BOOLEAN /\ z \in {"zero", "other"} /\ 1 \in 1..4
  BY DEF Process
<1>3. q = [p EXCEPT !.at = "test", !.k = 1]
  OBVIOUS
<1> HIDE DEF x, y, z, a, b, q
<1>4. q = [at |-> "test", i |-> x, k |-> 1, success |-> y, status |-> z]
  BY <1>1, <1>3
<1>5. q \in Process
  BY <1>2, <1>4 DEF Process
<1>6. QED
  BY <1>5 DEF q

LEMMA ProcessStep ==
  ASSUME NEW p \in Process, p.k \in 1..3
  PROVE  LET on == [p EXCEPT !.k = @ + 1]
             off == [p EXCEPT !.k = @ + 1, !.success = FALSE]
         IN /\ on \in Process /\ on.at = p.at /\ on.i = p.i /\ on.success = p.success
            /\ off \in Process /\ off.at = p.at /\ off.i = p.i /\ off.success = FALSE
<1> DEFINE on == [p EXCEPT !.k = @ + 1]
           off == [p EXCEPT !.k = @ + 1, !.success = FALSE]
           x == p.i
           y == p.success
           z == p.status
           a == p.at
           b == p.k
           c == b + 1
<1>1. p = [at |-> a, i |-> x, k |-> b, success |-> y, status |-> z]
  BY DEF Process
<1>2. /\ x \in 0..MaxCpus /\ y \in BOOLEAN /\ z \in {"zero", "other"}
      /\ a \in {"fork", "wait", "test"} /\ c \in 1..4
  BY DEF Process
<1>3. on = [p EXCEPT !.k = c] /\ off = [p EXCEPT !.k = c, !.success = FALSE]
  OBVIOUS
<1>4. p.at = a /\ p.i = x /\ p.success = y
  OBVIOUS
<1> HIDE DEF x, y, z, a, b, c, on, off
<1>5. /\ on = [at |-> a, i |-> x, k |-> c, success |-> y, status |-> z]
      /\ off = [at |-> a, i |-> x, k |-> c, success |-> FALSE, status |-> z]
  BY <1>1, <1>3
<1>6. on \in Process /\ off \in Process
  BY <1>2, <1>5 DEF Process
<1>7. QED
  BY <1>4, <1>5, <1>6 DEF on, off

\* How many CPUs there can be.
LEMMA CpusCounted ==
  ASSUME CpuTypes
  PROVE  number_of_cpus \in Nat /\ number_of_cpus <= MaxCpus
<1>1. IsFiniteSet(0..MaxCpus - 1) /\ Cardinality(0..MaxCpus - 1) = MaxCpus
  <2>1. 0 \in Int /\ MaxCpus - 1 \in Int
    BY CpuAssumption
  <2>2. IsFiniteSet(0..MaxCpus - 1)
    BY <2>1, FS_Interval
  <2>3. Cardinality(0..MaxCpus - 1) = IF 0 > MaxCpus - 1 THEN 0 ELSE MaxCpus - 1 - 0 + 1
    BY <2>1, FS_Interval
  <2>4. QED
    BY <2>2, <2>3, CpuAssumption
<1>2. cpus \subseteq 0..MaxCpus - 1
  BY DEF CpuTypes
<1>3. IsFiniteSet(cpus) /\ Cardinality(cpus) <= MaxCpus
  BY <1>1, <1>2, FS_Subset
<1>4. Cardinality(cpus) \in Nat
  BY <1>3, FS_CardinalityType
<1>5. QED
  BY <1>3, <1>4 DEF number_of_cpus

\* The process goes on with the next CPU.
LEMMA NextCpuFit ==
  ASSUME CpuTypes, NEW p, FitProcess(p, cpus), p.i < number_of_cpus
  PROVE  /\ FitProcess(NextCpu(p), cpus) /\ NextCpu(p).at = "fork" /\ NextCpu(p).i = p.i + 1
         /\ NextCpu(p).success = (p.success /\ p.status = "zero")
<1> DEFINE b == p.success /\ p.status = "zero"
           q == NextCpu(p)
<1>1. p \in Process /\ number_of_cpus \in Nat /\ number_of_cpus <= MaxCpus
  BY CpusCounted DEF FitProcess
<1>2. b \in BOOLEAN /\ p.i \in Nat
  BY <1>1 DEF Process
<1>3. q = [p EXCEPT !.at = "fork", !.i = @ + 1, !.success = b]
  BY DEF NextCpu
<1> HIDE DEF b, q
<1>4. p.i + 1 \in 0..MaxCpus
  BY <1>1, <1>2, CpuAssumption
<1>5. q \in Process /\ q.at = "fork" /\ q.i = p.i + 1 /\ q.success = b
  BY <1>1, <1>2, <1>3, <1>4 DEF Process
<1>6. p.i + 1 <= number_of_cpus
  BY <1>1, <1>2
<1>7. FitProcess(q, cpus)
  BY <1>5, <1>6 DEF FitProcess, number_of_cpus
<1>8. QED
  BY <1>5, <1>7 DEF q, b

\* What is known of the process that runs.
LEMMA TopFit ==
  ASSUME CpuIInv, program = "cpu"
  PROVE  /\ Self \in DOMAIN procs /\ Self \in Nat \ {0} /\ DOMAIN procs = 1..Self
         /\ FitProcess(procs[Self], cpus) /\ procs[Self].at # "wait"
         /\ \A k \in 1..Self - 1 : FitProcess(procs[k], cpus) /\ procs[k].at = "wait"
<1>1. procs \in Seq(Process) /\ procs # <<>>
  BY DEF CpuIInv, CpuTypes, StackFit
<1>2. Self \in Nat \ {0} /\ DOMAIN procs = 1..Self
  <2>1. Len(procs) \in Nat /\ DOMAIN procs = 1..Len(procs) /\ Len(procs) # 0
    BY <1>1, LenProperties, EmptySeq
  <2>2. QED
    BY <2>1 DEF Self
<1>3. \A k \in DOMAIN procs : FitProcess(procs[k], cpus) /\ (k < Self <=> procs[k].at = "wait")
  BY DEF CpuIInv, CpuTypes, StackFit, Self
<1>4. QED
  BY <1>2, <1>3

\* The process that runs goes on.
LEMMA TopChanges ==
  ASSUME CpuTypes, Self \in DOMAIN procs, DOMAIN procs = 1..Self, Self \in Nat, NEW e, FitProcess(e, cpus), e.at # "wait",
         UNCHANGED cpus, procs' = [procs EXCEPT ![Self] = e]
  PROVE  StackFit' /\ Self' = Self /\ procs'[Self] = e /\ \A k \in 1..Self - 1 : procs'[k] = procs[k]
<1>1. procs \in Seq(Process) /\ e \in Process
  BY DEF CpuTypes, StackFit, FitProcess
<1>2. procs' \in Seq(Process) /\ Len(procs') = Len(procs) /\ DOMAIN procs' = DOMAIN procs
  BY <1>1, ExceptSeq, LenProperties
<1>3. Self' = Self
  BY <1>2 DEF Self
<1>4. procs'[Self] = e /\ \A k \in DOMAIN procs : k # Self => procs'[k] = procs[k]
  BY <1>1
<1>6. ASSUME NEW k \in DOMAIN procs'
      PROVE  FitProcess(procs'[k], cpus') /\ (k < Self' <=> procs'[k].at = "wait")
  <2>1. \A m \in DOMAIN procs : FitProcess(procs[m], cpus) /\ (m < Self <=> procs[m].at = "wait")
    BY DEF CpuTypes, StackFit, Self
  <2>2. CASE k = Self
    BY <1>3, <1>4, <2>2
  <2>3. CASE k # Self
    BY <1>2, <1>3, <1>4, <2>1, <2>3
  <2>4. QED
    BY <2>2, <2>3
<1>7. StackFit'
  BY <1>2, <1>6 DEF StackFit, Self
<1>8. QED
  BY <1>3, <1>4, <1>7

\* A process is forked: its parent waits below it.
LEMMA ForkFits ==
  ASSUME CpuTypes, Self \in DOMAIN procs, DOMAIN procs = 1..Self, Self \in Nat,
         procs[Self].i < number_of_cpus, NEW child, FitProcess(child, cpus), child.at # "wait",
         UNCHANGED cpus, procs' = Append([procs EXCEPT ![Self].at = "wait"], child)
  PROVE  /\ StackFit' /\ Self' = Self + 1 /\ procs'[Self + 1] = child
         /\ procs'[Self] = [procs[Self] EXCEPT !.at = "wait"]
         /\ \A k \in 1..Self - 1 : procs'[k] = procs[k]
<1> DEFINE w == [procs[Self] EXCEPT !.at = "wait"]
           base == [procs EXCEPT ![Self] = w]
<1>1. procs \in Seq(Process) /\ child \in Process /\ FitProcess(procs[Self], cpus)
  BY DEF CpuTypes, StackFit, FitProcess
<1>2. w \in Process /\ w.at = "wait" /\ w.i = procs[Self].i
  BY <1>1 DEF FitProcess, Process
<1>3. FitProcess(w, cpus)
  BY <1>1, <1>2 DEF FitProcess, number_of_cpus
<1>4. procs' = Append(base, child)
  OBVIOUS
<1> HIDE DEF w
<1>5. base \in Seq(Process) /\ Len(base) = Self
  BY <1>1, <1>2, ExceptSeq DEF Self
<1>6. base[Self] = w /\ \A k \in 1..Self - 1 : base[k] = procs[k]
  OBVIOUS
<1> HIDE DEF base
<1>7. /\ procs' \in Seq(Process) /\ Len(procs') = Self + 1 /\ procs'[Self + 1] = child
      /\ \A k \in 1..Self : procs'[k] = base[k]
  BY SMTT(30), <1>1, <1>4, <1>5, AppendProperties
<1>8. DOMAIN procs' = 1..Self + 1
  BY <1>7, LenProperties
<1>9. procs'[Self] = w /\ \A k \in 1..Self - 1 : procs'[k] = procs[k]
  BY <1>6, <1>7
<1>10. ASSUME NEW k \in DOMAIN procs'
       PROVE  FitProcess(procs'[k], cpus') /\ (k < Len(procs') <=> procs'[k].at = "wait")
  <2>1. \A m \in 1..Self : FitProcess(procs[m], cpus) /\ (m < Self <=> procs[m].at = "wait")
    BY DEF CpuTypes, StackFit, Self
  <2>2. CASE k = Self + 1
    BY <1>7, <2>2
  <2>3. CASE k = Self
    <3>1. procs'[k] = w /\ k < Len(procs')
      BY <1>7, <1>9, <2>3
    <3>2. QED
      BY <1>2, <1>3, <3>1, Zenon
  <2>4. CASE k \in 1..Self - 1
    BY <1>7, <1>9, <2>1, <2>4
  <2>5. QED
    BY <1>8, <2>2, <2>3, <2>4
<1>11. StackFit'
  BY <1>7, <1>10 DEF StackFit
<1>12. Self' = Self + 1
  BY <1>7 DEF Self
<1>13. QED
  BY <1>7, <1>9, <1>11, <1>12 DEF w

\* A process ends, and its parent goes on with the next CPU.
LEMMA ExitFits ==
  ASSUME CpuIInv, program = "cpu", NEW code \in {"zero", "other"}, NEW r, Exit(code, r)
  PROVE  /\ UNCHANGED <<cpus, failing, forkFails>> /\ report' = r
         /\ StackFit'
         /\ IF Self = 1 THEN program' = "none"
            ELSE LET q == NextCpu([procs[Self - 1] EXCEPT !.status = code])
                 IN /\ program' = "cpu" /\ Self' = Self - 1 /\ procs'[Self - 1] = q
                    /\ q.at = "fork" /\ q.i = procs[Self - 1].i + 1
                    /\ q.success = (procs[Self - 1].success /\ code = "zero")
<1>1. UNCHANGED <<cpus, failing, forkFails>> /\ report' = r
  BY DEF Exit
<1>2. /\ Self \in Nat \ {0} /\ DOMAIN procs = 1..Self
      /\ \A k \in 1..Self - 1 : FitProcess(procs[k], cpus) /\ procs[k].at = "wait"
  BY TopFit
<1>3. CASE Self = 1
  <2>1. program' = "none" /\ procs' = <<>>
    BY <1>3 DEF Exit
  <2>2. procs' \in Seq(Process) /\ DOMAIN procs' = {}
    BY <2>1, EmptySeq
  <2>3. StackFit'
    BY <2>2 DEF StackFit
  <2>4. QED
    BY <1>1, <1>3, <2>1, <2>3
<1>4. CASE Self # 1
  <2> DEFINE p == [procs[Self - 1] EXCEPT !.status = code]
             q == NextCpu(p)
             n == Self - 1
  <2>1. FitProcess(procs[n], cpus) /\ procs[n].at = "wait" /\ n \in Nat \ {0}
    BY <1>2, <1>4
  <2>2. /\ p \in Process /\ p.at = "wait" /\ p.i = procs[n].i /\ p.status = code
        /\ p.success = procs[n].success
    BY <2>1 DEF FitProcess, Process
  <2>3. FitProcess(p, cpus) /\ p.i < number_of_cpus
    BY <2>1, <2>2 DEF FitProcess, number_of_cpus
  <2>4. CpuTypes
    BY DEF CpuIInv
  <2> HIDE DEF p
  <2>5. FitProcess(q, cpus) /\ q.at = "fork" /\ q.i = p.i + 1 /\ q.success = (p.success /\ p.status = "zero")
    BY <2>3, <2>4, NextCpuFit
  <2>6. program' = "cpu" /\ procs' = [k \in 1..n |-> IF k = n THEN q ELSE procs[k]]
    BY <1>4 DEF Exit, p
  <2> HIDE DEF q
  <2>7. procs' \in [1..n -> Process] /\ procs'[n] = q /\ \A k \in 1..n - 1 : procs'[k] = procs[k]
    <3>1. q \in Process /\ \A k \in 1..n - 1 : procs[k] \in Process
      BY <1>2, <2>5 DEF FitProcess
    <3> HIDE DEF n
    <3>2. QED
      BY <2>1, <2>6, <3>1
  <2> HIDE DEF n
  <2>8. procs' \in Seq(Process)
    BY <2>1, <2>7, SeqDef
  <2>9. Len(procs') = n /\ DOMAIN procs' = 1..n
    BY <2>1, <2>7, <2>8, LenProperties
  <2>10. ASSUME NEW k \in DOMAIN procs'
         PROVE  FitProcess(procs'[k], cpus') /\ (k < Len(procs') <=> procs'[k].at = "wait")
    <3>1. CASE k = n
      BY <1>1, <2>5, <2>7, <2>9, <3>1
    <3>2. CASE k \in 1..n - 1
      <4>1. k \in 1..Self - 1
        BY <1>2, <3>2 DEF n
      <4>2. QED
        BY <1>1, <1>2, <2>1, <2>7, <2>9, <3>2, <4>1
    <3>3. QED
      BY <2>1, <2>9, <3>1, <3>2
  <2>11. StackFit'
    BY <2>8, <2>10 DEF StackFit
  <2>12. Self' = n
    BY <2>9 DEF Self
  <2>13. procs[n] = procs[Self - 1]
    BY DEF n
  <2>14. QED
    BY <1>1, <1>4, <2>2, <2>5, <2>6, <2>7, <2>11, <2>12 DEF n, p, q
<1>5. QED
  BY <1>3, <1>4

-----------------------------------------------------------------------------------
(* What the steps of the CPU test keep. *)

LEMMA CpuStartKeeps ==
  ASSUME CpuIInv, CpuStart
  PROVE  CpuIInv' /\ Closed(report') /\ program' = "cpu"
<1>1. PICK s \in {"zero", "other"} :
        procs' = <<[at |-> "fork", i |-> 0, k |-> 1, success |-> TRUE, status |-> s]>>
  BY DEF CpuStart
<1> DEFINE p == [at |-> "fork", i |-> 0, k |-> 1, success |-> TRUE, status |-> s]
<1>2. /\ program' = "cpu" /\ cpus' \subseteq 0..MaxCpus - 1 /\ forkFails' = 0
      /\ failing' = {} /\ covered' = {}
      /\ report' = customMessage(testPrint(Before, "executing"), "")
  BY DEF CpuStart
<1>3. p \in Process /\ p.at = "fork" /\ p.i = 0
  BY CpuAssumption DEF Process
<1> HIDE DEF p
<1>4. procs' = <<p>>
  BY <1>1 DEF p
<1>5. procs' \in Seq(Process) /\ Len(procs') = 1 /\ DOMAIN procs' = {1} /\ procs'[1] = p
  BY <1>3, <1>4
<1>6. Cardinality(cpus') \in Nat
  <2>1. IsFiniteSet(0..MaxCpus - 1)
    BY FS_Interval, CpuAssumption
  <2>2. QED
    BY <1>2, <2>1, FS_Subset, FS_CardinalityType
<1>7. FitProcess(p, cpus')
  BY <1>3, <1>6 DEF FitProcess
<1>8. CpuTypes'
  <2>1. StackFit'
    BY <1>3, <1>5, <1>7 DEF StackFit
  <2>2. QED
    BY <1>2, <2>1 DEF CpuTypes
<1>9. Closed(report')
  <2>1. Open(testPrint(Before, "executing")) /\ "" \in Statuses
    BY BeforeClosed, LineOpens DEF Statuses
  <2>2. QED
    BY <1>2, <2>1, StatusCloses
<1>10. NoLine(report', "CPUs")
  <2>1. NoLine(Before, "CPUs")
    BY DEF NoLine, Before
  <2>2. IsReport(Before) /\ "" \in Statuses /\ "executing" # "CPUs"
    BY BeforeClosed DEF Closed, Statuses
  <2>3. IsReport(testPrint(Before, "executing")) /\ NoLine(testPrint(Before, "executing"), "CPUs")
    BY <2>1, <2>2, PrintingElse
  <2>4. QED
    BY <1>2, <2>2, <2>3, GivingElse
<1>11. (procs[1].at # "test" /\ OneChild)'
  <2>1. procs'[1].at = "fork" /\ procs'[1].i = 0 /\ Len(procs') = 1
    BY <1>3, <1>5, Zenon
  <2>2. 0..0 - 1 = {}
    OBVIOUS
  <2>3. covered' = 0..procs'[1].i - 1
    BY <1>2, <2>1, <2>2, Zenon
  <2>4. failing' = {}
    BY <1>2, Zenon
  <2>5. Len(procs') <= 2 /\ Len(procs') # 2
    BY <2>1
  <2>6. OneChild'
    BY <2>3, <2>4, <2>5, Zenon DEF OneChild
  <2>7. QED
    BY <2>1, <2>6, Zenon
<1>12. CpuPassHonest' /\ procs' # <<>>
  <2>1. CpuPassHonest'
    BY <1>2 DEF CpuPassHonest
  <2>2. Len(procs') = 1 /\ procs' \in Seq(Process)
    BY <1>5, Zenon
  <2>3. procs' # <<>>
    BY <2>2, EmptySeq
  <2>4. QED
    BY <2>1, <2>3, Zenon
<1>13. QED
  BY <1>2, <1>8, <1>9, <1>10, <1>11, <1>12 DEF CpuIInv

\* A step after which the program still runs.
LEMMA RunningCpuKeeps ==
  ASSUME CpuIInv, program = "cpu", program' = "cpu", CpuTypes', procs' # <<>>,
         AllBound' => (procs[1].at # "test" /\ OneChild /\ NoLine(report, "CPUs"))'
  PROVE  CpuIInv'
  BY DEF CpuIInv, CpuPassHonest

LEMMA ForkKeeps ==
  ASSUME CpuIInv, Fork
  PROVE  CpuIInv' /\ report' = report /\ program' = "cpu"
<1> DEFINE p == procs[Self]
           child == IF p.i \in cpus THEN [p EXCEPT !.at = "test", !.k = 1] ELSE NextCpu(p)
<1>1. /\ program = "cpu" /\ program' = "cpu" /\ p.at = "fork" /\ p.i < number_of_cpus
      /\ procs' = Append([procs EXCEPT ![Self].at = "wait"], child)
      /\ UNCHANGED <<report, cpus, forkFails, failing, covered>>
  BY DEF Fork, Loop
<1>2. Self \in DOMAIN procs /\ Self \in Nat \ {0} /\ DOMAIN procs = 1..Self /\ FitProcess(p, cpus)
  BY <1>1, TopFit
<1>3. CpuTypes
  BY DEF CpuIInv
<1>4. FitProcess(child, cpus) /\ child.at # "wait"
  <2>1. CASE p.i \in cpus
    <3>1. p \in Process /\ child = [p EXCEPT !.at = "test", !.k = 1]
      BY <1>2, <2>1, Zenon DEF FitProcess
    <3>2. child \in Process /\ child.at = "test" /\ child.i = p.i
      <4> HIDE DEF p, child
      <4>1. child.at = "test" /\ child.i = p.i
        BY <3>1 DEF Process
      <4>2. child \in Process
        BY <3>1, ProcessAt
      <4>3. QED
        BY <4>1, <4>2
    <3>3. p.i < Cardinality(cpus) /\ p.i <= Cardinality(cpus)
      BY <1>1, <1>2, Zenon DEF FitProcess, number_of_cpus
    <3>4. p.i \in cpus
      BY <2>1
    <3> HIDE DEF p, child
    <3>5. QED
      BY <3>2, <3>3, <3>4, Zenon DEF FitProcess
  <2>2. CASE p.i \notin cpus
    BY <1>1, <1>2, <1>3, <2>2, NextCpuFit
  <2>3. QED
    BY <2>1, <2>2
<1> HIDE DEF child
<1>5. /\ StackFit' /\ Self' = Self + 1 /\ procs'[Self + 1] = child
      /\ procs'[Self] = [procs[Self] EXCEPT !.at = "wait"]
      /\ \A k \in 1..Self - 1 : procs'[k] = procs[k]
  BY <1>1, <1>2, <1>3, <1>4, ForkFits
<1>6. CpuTypes'
  BY <1>1, <1>3, <1>5 DEF CpuTypes
<1>7. procs' # <<>>
  <2>1. Len(procs') = Self + 1
    BY <1>5 DEF Self
  <2>2. QED
    BY <1>2, <2>1, EmptySeq
<1>8. ASSUME AllBound' PROVE (procs[1].at # "test" /\ OneChild /\ NoLine(report, "CPUs"))'
  <2>1. AllBound /\ procs[1].at # "test" /\ OneChild /\ NoLine(report', "CPUs")
    BY <1>1, <1>8 DEF CpuIInv, AllBound, number_of_cpus
  <2>2. Self = 1
    <3>1. CASE Self = 2
      BY <1>1, <2>1, <3>1 DEF OneChild, Self
    <3>2. QED
      BY <1>2, <2>1, <3>1 DEF OneChild, Self
  <2>3. p.i \in cpus
    <3>1. cpus = 0..number_of_cpus - 1 /\ p.i \in Nat /\ number_of_cpus \in Nat
      BY <1>2, <1>3, <2>1, CpusCounted DEF AllBound, FitProcess, Process
    <3>2. QED
      BY <1>1, <3>1
  <2>4. child = [p EXCEPT !.at = "test", !.k = 1]
    BY <2>3 DEF child
  <2>5. p \in Process
    BY <1>2 DEF FitProcess
  <2>6. child.at = "test" /\ child.i = p.i /\ child.success = p.success
    BY <2>4, <2>5 DEF Process
  <2>7. procs'[1].at = "wait" /\ procs'[1].i = p.i
    BY <1>5, <2>2, <2>5 DEF Process
  <2>8. Len(procs') = 2 /\ procs'[2] = child /\ p = procs[1]
    BY <1>5, <2>2 DEF Self
  <2>9. Len(procs) = 1
    BY <2>2 DEF Self
  <2> HIDE DEF p
  <2>10. QED
    BY <1>1, <2>1, <2>6, <2>7, <2>8, <2>9 DEF OneChild
<1>9. QED
  BY <1>1, <1>6, <1>7, <1>8, RunningCpuKeeps

LEMMA ForkFailsKeeps ==
  ASSUME CpuIInv, ForkFails
  PROVE  CpuIInv' /\ report' = report /\ program' = "cpu"
<1>1. /\ program = "cpu" /\ program' = "cpu" /\ procs[Self].i < number_of_cpus
      /\ procs' = [procs EXCEPT ![Self] = NextCpu(procs[Self])]
      /\ forkFails' = forkFails + 1
      /\ UNCHANGED <<report, cpus, failing, covered>>
  BY DEF ForkFails, Loop
<1>2. /\ Self \in DOMAIN procs /\ Self \in Nat \ {0} /\ DOMAIN procs = 1..Self
      /\ FitProcess(procs[Self], cpus)
  BY <1>1, TopFit
<1>3. CpuTypes /\ forkFails \in Nat
  BY DEF CpuIInv, CpuTypes
<1>4. FitProcess(NextCpu(procs[Self]), cpus) /\ NextCpu(procs[Self]).at # "wait"
  BY <1>1, <1>2, <1>3, NextCpuFit
<1>5. StackFit' /\ Self' = Self
  BY <1>1, <1>2, <1>3, <1>4, TopChanges
<1>6. CpuTypes'
  BY <1>1, <1>3, <1>5 DEF CpuTypes
<1>7. procs' # <<>>
  <2>1. procs' \in Seq(Process) /\ Len(procs') # 0
    BY <1>2, <1>5 DEF StackFit, Self
  <2>2. QED
    BY <2>1, EmptySeq
<1>8. ~AllBound'
  BY <1>1, <1>3 DEF AllBound
<1>9. QED
  BY <1>1, <1>6, <1>7, <1>8, RunningCpuKeeps

LEMMA CpuTestStepKeeps ==
  ASSUME CpuIInv, IsReport(report), CpuTestStep
  PROVE  /\ CpuIInv' /\ program' = "cpu"
         /\ report' = report \/ \E test \in {"speed", "L2", "L3"} : report' = Verdict(report, test, FALSE)
<1> DEFINE p == procs[Self]
           test == CpuTests[p.k]
           on == [p EXCEPT !.k = @ + 1]
           off == [p EXCEPT !.k = @ + 1, !.success = FALSE]
<1>1. /\ program = "cpu" /\ program' = "cpu" /\ p.at = "test" /\ p.k <= 3
      /\ UNCHANGED <<cpus, forkFails, covered>>
  BY DEF CpuTestStep, CpuTests
<1>2. \/ procs' = [procs EXCEPT ![Self] = on] /\ UNCHANGED <<report, failing>>
      \/ /\ procs' = [procs EXCEPT ![Self] = off]
         /\ report' = Verdict(report, test, FALSE) /\ failing' = failing \cup {p.i}
  BY DEF CpuTestStep
<1>3. /\ Self \in DOMAIN procs /\ Self \in Nat \ {0} /\ DOMAIN procs = 1..Self
      /\ FitProcess(p, cpus)
  BY <1>1, TopFit
<1>4. p \in Process /\ p.i \in cpus /\ p.k \in 1..3
  <2>1. p \in Process /\ p.i \in cpus
    BY <1>1, <1>3 DEF FitProcess
  <2>2. p.k \in 1..4
    BY <2>1 DEF Process
  <2>3. QED
    BY <1>1, <2>1, <2>2
<1>5. test \in {"speed", "L2", "L3"}
  BY <1>4 DEF CpuTests
<1>6. /\ on \in Process /\ on.at = "test" /\ on.i = p.i /\ on.success = p.success
      /\ off \in Process /\ off.at = "test" /\ off.i = p.i /\ off.success = FALSE
  BY <1>1, <1>4, ProcessStep
<1>7. CpuTypes
  BY <1>1 DEF CpuIInv
<1>8. FitProcess(on, cpus) /\ FitProcess(off, cpus)
  BY <1>3, <1>4, <1>6 DEF FitProcess
<1> HIDE DEF on, off, test
<1>9. StackFit' /\ Self' = Self /\ \A k \in 1..Self - 1 : procs'[k] = procs[k]
  <2>1. CASE procs' = [procs EXCEPT ![Self] = on]
    BY <1>1, <1>3, <1>6, <1>7, <1>8, <2>1, TopChanges
  <2>2. CASE procs' = [procs EXCEPT ![Self] = off]
    BY <1>1, <1>3, <1>6, <1>7, <1>8, <2>2, TopChanges
  <2>3. QED
    BY <1>2, <2>1, <2>2
<1>10. CpuTypes'
  <2>1. failing' \subseteq cpus
    BY <1>2, <1>4, <1>7 DEF CpuTypes
  <2>2. QED
    BY <1>1, <1>7, <1>9, <2>1 DEF CpuTypes
<1>11. procs' # <<>>
  <2>1. procs' \in Seq(Process) /\ Len(procs') # 0
    BY <1>3, <1>9 DEF StackFit, Self
  <2>2. QED
    BY <2>1, EmptySeq
<1>12. report' = report \/ \E x \in {"speed", "L2", "L3"} : report' = Verdict(report, x, FALSE)
  BY <1>2, <1>5, Zenon
<1>13. procs'[Self].at = "test" /\ procs'[Self].i = p.i
       /\ (procs'[Self].success => p.success /\ failing' = failing)
  <2>1. CASE procs' = [procs EXCEPT ![Self] = on] /\ UNCHANGED <<report, failing>>
    BY <1>3, <1>6, <2>1
  <2>2. CASE procs' = [procs EXCEPT ![Self] = off]
    <3>1. procs'[Self] = off
      BY <1>3, <2>2
    <3>2. QED
      BY <1>6, <3>1
  <2>3. QED
    BY <1>2, <2>1, <2>2
<1>14. ASSUME AllBound' PROVE (procs[1].at # "test" /\ OneChild /\ NoLine(report, "CPUs"))'
  <2>1. AllBound /\ procs[1].at # "test" /\ OneChild /\ NoLine(report, "CPUs")
    BY <1>1, <1>14 DEF CpuIInv, AllBound, number_of_cpus
  <2>2. Self = 2
    <3>1. Self # 1
      BY <1>1, <2>1
    <3>2. Self <= 2
      BY <2>1 DEF OneChild, Self
    <3>3. QED
      BY <1>3, <3>1, <3>2
  <2>3. procs'[1] = procs[1]
    BY <1>9, <2>2
  <2>4. Len(procs') = 2 /\ p = procs[2] /\ Len(procs) = 2
    BY <1>9, <2>2 DEF Self
  <2> HIDE DEF p
  <2>5. procs[2].i = procs[1].i /\ (procs[2].success => failing = {}) /\ covered = 0..procs[1].i - 1
    BY <2>1, <2>4 DEF OneChild
  <2>6. procs'[2].at = "test" /\ procs'[2].i = p.i /\ (procs'[2].success => p.success /\ failing' = failing)
    BY <1>13, <2>2
  <2>7. Len(procs') <= 2 /\ Len(procs') # 1
    BY <2>4
  <2>8. covered' = 0..procs'[1].i - 1 /\ procs'[2].i = procs'[1].i /\ (procs'[2].success => failing' = {})
    BY <1>1, <2>3, <2>4, <2>5, <2>6
  <2>9. OneChild'
    BY <2>6, <2>7, <2>8, Zenon DEF OneChild
  <2>10. NoLine(report', "CPUs")
    BY <1>12, <2>1, VerdictElse
  <2>11. QED
    BY <2>1, <2>3, <2>9, <2>10
<1>15. QED
  BY <1>1, <1>10, <1>11, <1>12, <1>14, RunningCpuKeeps

LEMMA ChildExitKeeps ==
  ASSUME CpuIInv, ChildExit
  PROVE  CpuIInv' /\ report' = report /\ program' \in {"cpu", "none"}
<1> DEFINE p == procs[Self]
           code == IF p.success THEN "zero" ELSE "other"
<1>1. /\ program = "cpu" /\ p.at = "test" /\ Exit(code, report) /\ covered' = covered \cup {p.i}
  BY DEF ChildExit
<1>2. /\ Self \in DOMAIN procs /\ Self \in Nat \ {0} /\ DOMAIN procs = 1..Self
      /\ FitProcess(p, cpus) /\ \A k \in 1..Self - 1 : procs[k].at = "wait" /\ FitProcess(procs[k], cpus)
  BY <1>1, TopFit
<1>3. p.i \in cpus /\ code \in {"zero", "other"} /\ (code = "zero" <=> p.success) /\ p.i \in Nat
  <2>1. p \in Process /\ p.i \in cpus
    BY <1>1, <1>2 DEF FitProcess
  <2>2. p.i \in Nat
    BY <2>1 DEF Process
  <2>3. QED
    BY <2>1, <2>2
<1> HIDE DEF code
<1>4. /\ UNCHANGED <<cpus, failing, forkFails>> /\ report' = report /\ StackFit'
      /\ IF Self = 1 THEN program' = "none"
         ELSE LET q == NextCpu([procs[Self - 1] EXCEPT !.status = code])
              IN /\ program' = "cpu" /\ Self' = Self - 1 /\ procs'[Self - 1] = q
                 /\ q.at = "fork" /\ q.i = procs[Self - 1].i + 1
                 /\ q.success = (procs[Self - 1].success /\ code = "zero")
  BY <1>1, <1>3, ExitFits
<1>5. CpuTypes /\ (AllBound => NoLine(report, "CPUs"))
  BY <1>1 DEF CpuIInv
<1>6. CpuTypes'
  BY <1>1, <1>3, <1>4, <1>5 DEF CpuTypes
<1>7. CASE Self = 1
  <2>1. program' = "none"
    BY <1>4, <1>7
  <2>2. ASSUME AllBound' PROVE ~Reported("CPUs", "Passed")'
    <3>1. AllBound
      BY <1>4, <2>2 DEF AllBound, number_of_cpus
    <3>2. ~PassedLine(report', "CPUs")
      BY <1>4, <1>5, <3>1, NotPrintedNotPassed
    <3>3. QED
      BY <3>2 DEF PassedLine, Reported
  <2>3. CpuPassHonest'
    BY <2>2 DEF CpuPassHonest, AllBound
  <2>4. QED
    BY <1>4, <1>6, <2>1, <2>3 DEF CpuIInv
<1>8. CASE Self # 1
  <2> DEFINE n == Self - 1
  <2>1. /\ program' = "cpu" /\ Self' = n /\ n \in Nat \ {0}
        /\ procs'[n].at = "fork" /\ procs'[n].i = procs[n].i + 1
        /\ procs'[n].success = (procs[n].success /\ code = "zero")
    BY <1>2, <1>4, <1>8
  <2>2. procs' # <<>>
    <3>1. procs' \in Seq(Process) /\ Len(procs') # 0
      BY <1>4, <2>1 DEF StackFit, Self
    <3>2. QED
      BY <3>1, EmptySeq
  <2>3. ASSUME AllBound' PROVE (procs[1].at # "test" /\ OneChild /\ NoLine(report, "CPUs"))'
    <3>1. AllBound /\ procs[1].at # "test" /\ OneChild
      BY <1>1, <1>4, <2>3 DEF CpuIInv, AllBound, number_of_cpus
    <3>11. NoLine(report', "CPUs")
      BY <1>4, <1>5, <3>1
    <3>2. Self = 2 /\ Len(procs) = 2
      BY <1>2, <1>8, <3>1 DEF OneChild, Self
    <3>3. n = 1 /\ Len(procs') = 1 /\ p = procs[2]
      BY <2>1, <3>2 DEF Self
    <3>4. procs[2].i = procs[1].i /\ (procs[2].success => failing = {}) /\ covered = 0..procs[1].i - 1
      BY <3>1, <3>2 DEF OneChild
    <3>5. procs'[1].at = "fork" /\ procs'[1].i = p.i + 1 /\ (procs'[1].success => p.success)
      BY <1>3, <2>1, <3>3, <3>4
    <3>6. covered' = 0..procs'[1].i - 1
      <4> DEFINE m == p.i
      <4>1. m \in Nat /\ covered' = 0..m - 1 \cup {m} /\ procs'[1].i = m + 1
        BY <1>1, <1>3, <3>3, <3>4, <3>5
      <4> HIDE DEF m
      <4>2. 0..m - 1 \cup {m} = 0..m /\ m + 1 - 1 = m
        BY <4>1
      <4>3. QED
        BY <4>1, <4>2
    <3>7. procs'[1].success => failing' = {}
      BY <1>4, <3>3, <3>4, <3>5
    <3>8. Len(procs') <= 2 /\ Len(procs') # 2
      BY <3>3
    <3>9. OneChild'
      BY <3>6, <3>7, <3>8, Zenon DEF OneChild
    <3>10. QED
      BY <3>5, <3>9, <3>11
  <2>4. QED
    BY <1>1, <1>4, <1>6, <2>1, <2>2, <2>3, RunningCpuKeeps
<1>9. QED
  BY <1>4, <1>7, <1>8

\* What the process that reports adds: nothing about the CPUs but when it has success.
LEMMA SummaryAdds ==
  ASSUME NEW success \in BOOLEAN, Closed(report)
  PROVE  /\ Closed(Summary(success))
         /\ ~success /\ NoLine(report, "CPUs") => NoLine(Summary(success), "CPUs")
<1> DEFINE c == CountRight
<1>1. c \in BOOLEAN
  BY DEF CountRight
<1> HIDE DEF c
<1>2. CASE success
  <2> DEFINE a == Verdict(report, "CPUs", TRUE)
             b == Verdict(a, "L2s", TRUE)
             d == Verdict(b, "L3s", TRUE)
  <2>1. Summary(success) = Verdict(d, "count", c)
    BY <1>2 DEF Summary, c
  <2>2. Closed(a)
    BY VerdictCloses
  <2> HIDE DEF a
  <2>3. Closed(b)
    BY <2>2, VerdictCloses
  <2> HIDE DEF b
  <2>4. Closed(d)
    BY <2>3, VerdictCloses
  <2> HIDE DEF d
  <2>5. Closed(Verdict(d, "count", c))
    BY <1>1, <2>4, VerdictCloses
  <2>6. QED
    BY <1>2, <2>1, <2>5
<1>3. CASE ~success
  <2>1. Summary(success) = Verdict(report, "count", c)
    BY <1>3 DEF Summary, c
  <2>2. Closed(Verdict(report, "count", c)) /\ IsReport(report)
    BY <1>1, VerdictCloses DEF Closed
  <2>3. NoLine(report, "CPUs") => NoLine(Verdict(report, "count", c), "CPUs")
    BY <1>1, <2>2, VerdictElse
  <2>4. QED
    BY <2>1, <2>2, <2>3
<1>4. QED
  BY <1>2, <1>3

LEMMA CpuReportKeeps ==
  ASSUME CpuIInv, Closed(report), CpuReport
  PROVE  CpuIInv' /\ Closed(report') /\ program' \in {"cpu", "none"}
<1> DEFINE p == procs[Self]
           code == IF p.success /\ CountRight THEN "other" ELSE "zero"
<1>1. /\ program = "cpu" /\ p.at = "fork" /\ ~(p.i < number_of_cpus)
      /\ Exit(code, Summary(p.success)) /\ UNCHANGED covered
  BY DEF CpuReport, Loop
<1>2. /\ Self \in DOMAIN procs /\ Self \in Nat \ {0} /\ DOMAIN procs = 1..Self
      /\ FitProcess(p, cpus) /\ \A k \in 1..Self - 1 : procs[k].at = "wait" /\ FitProcess(procs[k], cpus)
  BY <1>1, TopFit
<1>3. CpuTypes /\ (AllBound => NoLine(report, "CPUs")) /\ code \in {"zero", "other"}
  BY <1>1 DEF CpuIInv
<1>4. p.success \in BOOLEAN /\ p.i \in Nat /\ number_of_cpus \in Nat /\ p.i <= number_of_cpus
  <2>1. p \in Process /\ p.i <= number_of_cpus
    BY <1>2 DEF FitProcess, number_of_cpus
  <2>2. p.success \in BOOLEAN /\ p.i \in Nat
    BY <2>1 DEF Process
  <2>3. number_of_cpus \in Nat
    BY <1>3, CpusCounted
  <2>4. QED
    BY <2>1, <2>2, <2>3
<1>5. p.i = number_of_cpus
  BY <1>1, <1>4
<1> HIDE DEF code
<1>6. /\ UNCHANGED <<cpus, failing, forkFails>> /\ report' = Summary(p.success) /\ StackFit'
      /\ IF Self = 1 THEN program' = "none"
         ELSE LET q == NextCpu([procs[Self - 1] EXCEPT !.status = code])
              IN /\ program' = "cpu" /\ Self' = Self - 1 /\ procs'[Self - 1] = q
                 /\ q.at = "fork" /\ q.i = procs[Self - 1].i + 1
                 /\ q.success = (procs[Self - 1].success /\ code = "zero")
  BY <1>1, <1>3, ExitFits
<1>7. CpuTypes'
  BY <1>1, <1>3, <1>6 DEF CpuTypes
<1>8. Closed(report') /\ (AllBound /\ ~p.success => NoLine(report', "CPUs"))
  BY <1>3, <1>4, <1>6, SummaryAdds
<1>9. CASE Self = 1
  <2>1. program' = "none"
    BY <1>6, <1>9
  <2>2. ASSUME ~p.success PROVE CpuPassHonest'
    <3>1. ASSUME AllBound' PROVE ~Reported("CPUs", "Passed")'
      <4>1. AllBound
        BY <1>6, <3>1 DEF AllBound, number_of_cpus
      <4>2. ~PassedLine(report', "CPUs")
        BY <1>8, <2>2, <4>1, NotPrintedNotPassed
      <4>3. QED
        BY <4>2 DEF PassedLine, Reported
    <3>2. QED
      BY <3>1 DEF CpuPassHonest, AllBound
  <2>3. ASSUME p.success PROVE CpuPassHonest'
    <3>1. ASSUME AllBound' PROVE failing' = {} /\ covered' = cpus'
      <4>1. AllBound /\ OneChild
        BY <1>1, <1>6, <3>1 DEF CpuIInv, AllBound, number_of_cpus
      <4>2. Len(procs) = 1 /\ p = procs[1]
        BY <1>9 DEF Self
      <4>3. failing = {} /\ covered = 0..p.i - 1
        BY <2>3, <4>1, <4>2 DEF OneChild
      <4>4. cpus = 0..number_of_cpus - 1
        BY <4>1 DEF AllBound
      <4>5. QED
        BY <1>1, <1>5, <1>6, <4>3, <4>4
    <3>2. QED
      BY <3>1 DEF CpuPassHonest, AllBound
  <2>4. CpuPassHonest'
    BY <1>4, <2>2, <2>3
  <2>5. QED
    BY <1>6, <1>7, <1>8, <2>1, <2>4 DEF CpuIInv
<1>10. CASE Self # 1
  <2> DEFINE n == Self - 1
  <2>1. program' = "cpu" /\ Self' = n /\ n \in Nat \ {0} /\ procs'[n].at = "fork"
    BY <1>2, <1>6, <1>10
  <2>2. procs' # <<>>
    <3>1. procs' \in Seq(Process) /\ Len(procs') # 0
      BY <1>6, <2>1 DEF StackFit, Self
    <3>2. QED
      BY <3>1, EmptySeq
  \* Every child is bound to its CPU, so that none reports.
  <2>3. ~AllBound
    <3>1. ASSUME AllBound PROVE FALSE
      <4>1. OneChild
        BY <1>1, <3>1 DEF CpuIInv
      <4>2. Self = 2 /\ Len(procs) = 2
        BY <1>2, <1>10, <4>1 DEF OneChild, Self
      <4>3. p.at = "test"
        BY <4>1, <4>2 DEF OneChild
      <4>4. QED
        BY <1>1, <4>3
    <3>2. QED
      BY <3>1
  <2>4. ~AllBound'
    BY <1>6, <2>3 DEF AllBound, number_of_cpus
  <2>5. QED
    BY <1>1, <1>6, <1>7, <1>8, <2>1, <2>2, <2>4, RunningCpuKeeps
<1>11. QED
  BY <1>9, <1>10

\* Every step of the CPU test.
LEMMA CpuKeeps ==
  ASSUME CpuIInv, Closed(report), CpuNext
  PROVE  /\ CpuIInv' /\ Closed(report') /\ program \in {"ready", "cpu"}
         /\ program' \in {"cpu", "none"}
<1>1. IsReport(report)
  BY DEF Closed
<1>2. CASE CpuStart
  BY <1>2, CpuStartKeeps DEF CpuStart
<1>3. CASE Fork
  BY <1>3, ForkKeeps DEF Fork
<1>4. CASE ForkFails
  BY <1>4, ForkFailsKeeps DEF ForkFails
<1>5. CASE CpuTestStep
  <2>1. /\ CpuIInv' /\ program' = "cpu" /\ program = "cpu"
        /\ report' = report \/ \E test \in {"speed", "L2", "L3"} : report' = Verdict(report, test, FALSE)
    BY <1>1, <1>5, CpuTestStepKeeps DEF CpuTestStep
  <2>2. Closed(report')
    BY <2>1, VerdictCloses
  <2>3. QED
    BY <2>1, <2>2
<1>6. CASE ChildExit
  BY <1>6, ChildExitKeeps DEF ChildExit
<1>7. CASE CpuReport
  BY <1>7, CpuReportKeeps DEF CpuReport
<1>8. QED
  BY <1>2, <1>3, <1>4, <1>5, <1>6, <1>7 DEF CpuNext

\* The other programs leave alone what was there before the CPU test.
LEMMA CpuRests ==
  ASSUME CpuIInv, program \notin {"cpu", "none"}, program' # "cpu", UNCHANGED cpuVars
  PROVE  CpuIInv'
<1>1. /\ UNCHANGED <<cpus, procs, forkFails, failing, covered>>
      /\ cpus = {} /\ failing = {} /\ covered = {} /\ CpuTypes
  BY DEF cpuVars, CpuIInv
<1>2. CpuTypes'
  BY <1>1 DEF CpuTypes, StackFit
<1>3. CpuPassHonest'
  BY <1>1 DEF CpuPassHonest
<1>4. QED
  BY <1>1, <1>2, <1>3 DEF CpuIInv

LEMMA CpuBegins == Init => CpuIInv
<1>1. ASSUME Init PROVE CpuIInv
  <2>1. /\ cpus = {} /\ procs = <<>> /\ forkFails = 0 /\ failing = {} /\ covered = {}
        /\ program = "ready"
    BY <1>1 DEF Init, CpuInit, OutputInit
  <2>2. procs \in Seq(Process) /\ DOMAIN procs = {}
    BY <2>1, EmptySeq
  <2>3. StackFit
    BY <2>2 DEF StackFit
  <2>4. QED
    BY <2>1, <2>3 DEF CpuIInv, CpuTypes, CpuPassHonest
<1>2. QED
  BY <1>1

-----------------------------------------------------------------------------------
(* The mouse, and the LEDs *)

\* What the device may send: no mouse but a good one has the right resolution.
Bytes(m) == IF m = "good" THEN 0..255 ELSE 0..255 \ {2}

PortIInv ==
  /\ mutex \in {"free", "main", "handler"}
  /\ answers \in Seq(Bytes(mouse))
  /\ data \in Seq([value : Bytes(mouse), from : {"keyboard", "mouse"}])
  /\ Len(data) <= 8 /\ (program = "mouse" => Len(data) <= 7)
  /\ program \notin {"mouse", "none"} => mouse = "good"
  /\ program = "mouse" => NoLine(report, "mouse")
  /\ MousePassHonest

\* The answers to a command are such bytes.
LEMMA RepliesAre ==
  ASSUME NEW n \in Nat
  PROVE  Replies(n) \in Seq(Bytes(mouse)) /\ <<Ack>> \in Seq(Bytes(mouse))
<1>1. {0, 3, 100, Ack, 30} \subseteq Bytes(mouse) /\ (mouse = "good" => 2 \in Bytes(mouse))
  BY DEF Bytes, Ack
<1>2. <<Ack>> \in Seq(Bytes(mouse))
  BY <1>1
<1>3. CASE n < 5
  BY <1>2, <1>3 DEF Replies
<1>4. CASE ~(n < 5)
  <2> DEFINE x == IF mouse = "good" THEN 2 ELSE 3
  <2>1. x \in Bytes(mouse) /\ Replies(n) = <<Ack, 0, x, 100>>
    BY <1>1, <1>4 DEF Replies
  <2> HIDE DEF x
  <2>2. <<Ack, 0, x, 100>> \in Seq(Bytes(mouse))
    BY <1>1, <2>1
  <2>3. QED
    BY <1>2, <2>1, <2>2
<1>5. QED
  BY <1>3, <1>4

LEMMA MouseReadKeeps ==
  ASSUME PortIInv, Closed(report), MouseRead
  PROVE  PortIInv' /\ Closed(report') /\ program' \in {"mouse", "none"}
<1> DEFINE B == [value : Bytes(mouse), from : {"keyboard", "mouse"}]
<1>1. PICK byte \in [value : {Ack, 30}, from : {"keyboard"}] \cup [value : 0..255, from : {"mouse"}] :
        /\ IF byte.from = "mouse"
           THEN answers # <<>> /\ byte.value = Head(answers) /\ UNCHANGED keys
           ELSE keys < MaxKeys /\ keys' = keys + 1
        /\ data' = Append(data, byte)
        /\ LET n == Len(data')
               rest == IF byte.from = "mouse" THEN Tail(answers) ELSE answers
           IN IF n <= 5 /\ byte.value # Ack
              THEN /\ program' = "none" /\ report' = Verdict(report, "mouse", FALSE)
                   /\ answers' = rest
              ELSE IF n = 8
              THEN /\ program' = "none" /\ answers' = rest
                   /\ report' = Verdict(report, "mouse", MouseAnswersRight(data'))
              ELSE /\ answers' = IF n < 5 /\ mouse # "none" THEN rest \o Replies(n + 1) ELSE rest
                   /\ UNCHANGED <<program, report>>
  BY DEF MouseRead
<1>2. program = "mouse" /\ UNCHANGED <<mouse, mutex>>
  BY DEF MouseRead, ledVars
<1>3. /\ answers \in Seq(Bytes(mouse)) /\ data \in Seq(B) /\ Len(data) <= 7
      /\ NoLine(report, "mouse") /\ IsReport(report) /\ mutex \in {"free", "main", "handler"}
  BY <1>2 DEF PortIInv, Closed
<1> DEFINE rest == IF byte.from = "mouse" THEN Tail(answers) ELSE answers
           n == Len(data')
<1>4. byte \in B
  <2>1. CASE byte.from = "mouse"
    <3>1. Head(answers) \in Bytes(mouse)
      BY <1>1, <1>3, <2>1, HeadTailProperties
    <3>2. byte = [value |-> byte.value, from |-> "mouse"] /\ byte.value \in Bytes(mouse)
      BY <1>1, <2>1, <3>1
    <3>3. QED
      BY <3>2
  <2>2. CASE byte.from # "mouse"
    <3>1. byte = [value |-> byte.value, from |-> "keyboard"] /\ byte.value \in {Ack, 30}
      BY <2>2
    <3>2. byte.value \in Bytes(mouse)
      BY <3>1 DEF Bytes, Ack
    <3>3. QED
      BY <3>1, <3>2
  <2>3. QED
    BY <2>1, <2>2
<1>5. rest \in Seq(Bytes(mouse))
  <2>1. CASE byte.from = "mouse"
    BY <1>1, <1>3, <2>1, HeadTailProperties
  <2>2. CASE byte.from # "mouse"
    BY <1>3, <2>2
  <2>3. QED
    BY <2>1, <2>2
<1>6. data' \in Seq(B) /\ n = Len(data) + 1 /\ n \in Nat /\ n <= 8
  <2>1. data' = Append(data, byte) /\ Len(data) \in Nat
    BY <1>1, <1>3, LenProperties
  <2> HIDE DEF B
  <2>2. data' \in Seq(B) /\ Len(data') = Len(data) + 1
    BY <1>3, <1>4, <2>1, AppendProperties
  <2>3. QED
    BY <1>3, <2>1, <2>2
<1>7. answers' \in Seq(Bytes(mouse))
  <2>1. Replies(n + 1) \in Seq(Bytes(mouse))
    BY <1>6, RepliesAre
  <2> HIDE DEF n
  <2>2. answers' = rest \/ answers' = rest \o Replies(n + 1)
    BY <1>1 DEF n
  <2> HIDE DEF rest
  <2>3. rest \o Replies(n + 1) \in Seq(Bytes(mouse))
    BY <1>5, <2>1, ConcatProperties
  <2>4. QED
    BY <1>5, <2>2, <2>3
\* A mouse that is not good fails.
<1>8. MouseAnswersRight(data') /\ n = 8 => mouse = "good"
  <2>1. ASSUME n = 8, MouseAnswersRight(data') PROVE mouse = "good"
    <3>1. data'[7] \in B
      <4>1. Len(data') = 8 /\ 7 \in 1..8
        BY <2>1
      <4> HIDE DEF B
      <4>2. data' \in Seq(B)
        BY <1>6
      <4>3. QED
        BY <4>1, <4>2, ElementOfSeq
    <3>2. data'[7].value = 2 /\ data'[7].value \in Bytes(mouse)
      BY <2>1, <3>1 DEF MouseAnswersRight
    <3>3. QED
      BY <3>2 DEF Bytes
  <2>2. QED
    BY <2>1
<1>9. CASE UNCHANGED <<program, report>> /\ n # 8
  <2>1. MousePassHonest'
    <3>1. ~PassedLine(report', "mouse")
      BY <1>3, <1>9, NotPrintedNotPassed
    <3>2. QED
      BY <3>1 DEF PassedLine, Reported, MousePassHonest
  <2>2. n <= 7
    BY <1>6, <1>9
  <2>3. QED
    BY <1>2, <1>3, <1>6, <1>7, <1>9, <2>1, <2>2 DEF PortIInv
<1>10. ASSUME program' = "none", NEW b \in BOOLEAN, report' = Verdict(report, "mouse", b), b => mouse = "good"
       PROVE  PortIInv' /\ Closed(report') /\ program' \in {"mouse", "none"}
  <2>1. Closed(report')
    BY <1>10, VerdictCloses
  <2>2. MousePassHonest'
    <3>1. CASE b
      BY <1>2, <1>10, <3>1 DEF MousePassHonest
    <3>2. CASE ~b
      <4>1. report' = Verdict(report, "mouse", FALSE)
        BY <1>10, <3>2
      <4>2. ~PassedLine(report', "mouse")
        BY <1>3, <4>1, FailedNotPassed
      <4>3. QED
        BY <4>2 DEF PassedLine, Reported, MousePassHonest
    <3>3. QED
      BY <3>1, <3>2
  <2>3. QED
    BY <1>2, <1>3, <1>6, <1>7, <1>10, <2>1, <2>2 DEF PortIInv
<1>11. CASE n <= 5 /\ byte.value # Ack
  <2>1. program' = "none" /\ report' = Verdict(report, "mouse", FALSE)
    BY <1>1, <1>11
  <2>2. QED
    BY <1>10, <2>1
<1>12. CASE ~(n <= 5 /\ byte.value # Ack) /\ n = 8
  <2> DEFINE b == MouseAnswersRight(data')
  <2>1. program' = "none" /\ report' = Verdict(report, "mouse", b)
    BY <1>1, <1>12
  <2>2. b \in BOOLEAN /\ (b => mouse = "good")
    BY <1>8, <1>12 DEF MouseAnswersRight
  <2> HIDE DEF b
  <2>3. QED
    BY <1>10, <2>1, <2>2
<1>13. CASE ~(n <= 5 /\ byte.value # Ack) /\ n # 8
  <2>1. UNCHANGED <<program, report>>
    BY <1>1, <1>13
  <2>2. QED
    BY <1>2, <1>9, <1>13, <2>1
<1>14. QED
  BY <1>11, <1>12, <1>13

\* Every step of the tests that only talk to an I/O port.
LEMMA PortKeeps ==
  ASSUME PortIInv, Closed(report), PortNext
  PROVE  /\ PortIInv' /\ Closed(report') /\ program \in {"ready", "led", "mouse"}
         /\ program' \in {"led", "mouse", "none"}
<1>1. CASE MouseRead
  BY <1>1, MouseReadKeeps DEF MouseRead
<1>2. CASE MouseStart
  <2>1. /\ program = "ready" /\ program' = "mouse" /\ report' = Before /\ data' = <<>>
        /\ answers' = (IF mouse' = "none" THEN <<>> ELSE <<Ack>>) /\ UNCHANGED mutex
    BY <1>2 DEF MouseStart, ledVars
  <2>2. answers' \in Seq(Bytes(mouse'))
    <3>1. Ack \in Bytes(mouse')
      BY DEF Ack, Bytes
    <3>2. <<>> \in Seq(Bytes(mouse')) /\ <<Ack>> \in Seq(Bytes(mouse'))
      BY <3>1
    <3>3. QED
      BY <2>1, <3>2
  <2>3. data' \in Seq([value : Bytes(mouse'), from : {"keyboard", "mouse"}]) /\ Len(data') = 0
    BY <2>1
  <2>4. Closed(report') /\ NoLine(report', "mouse")
    BY <2>1, BeforeClosed DEF NoLine, Before
  <2>5. MousePassHonest'
    <3>1. ~PassedLine(report', "mouse")
      BY <2>4, NotPrintedNotPassed
    <3>2. QED
      BY <3>1 DEF PassedLine, Reported, MousePassHonest
  <2>6. QED
    BY <2>1, <2>2, <2>3, <2>4, <2>5 DEF PortIInv
<1>3. CASE MousePolls
  <2>1. program = "mouse" /\ UNCHANGED <<program, report, mutex, mouse, answers, data>>
    BY <1>3 DEF MousePolls, ledVars, mouseVars
  <2>2. QED
    BY <2>1 DEF PortIInv, MousePassHonest, Reported
\* A step of the LED test.
<1>4. ASSUME UNCHANGED mouseVars, program \in {"ready", "led"}, program' \in {"led", "none"},
             mutex' \in {"free", "main", "handler"}
      PROVE  PortIInv'
  <2>1. UNCHANGED <<mouse, answers, data>> /\ mouse = "good"
    BY <1>4 DEF mouseVars, PortIInv
  <2>2. QED
    BY <1>4, <2>1 DEF PortIInv, MousePassHonest
<1>5. ASSUME NEW l, NEW b \in BOOLEAN PROVE Closed(Verdict(report, l, b)) /\ Closed(Verdict(Before, l, b))
  BY BeforeClosed, VerdictCloses
<1>6. mutex \in {"free", "main", "handler"}
  BY DEF PortIInv
<1>7. CASE LedStart
  BY <1>4, <1>5, <1>6, <1>7, BeforeClosed DEF LedStart
<1>8. CASE LedAnswer
  BY <1>4, <1>5, <1>6, <1>8 DEF LedAnswer, LedEnds
<1>9. CASE LedChange
  BY <1>4, <1>6, <1>9 DEF LedChange
<1>10. CASE ledHandler
  BY <1>4, <1>6, <1>10 DEF ledHandler
<1>11. QED
  BY <1>1, <1>2, <1>3, <1>7, <1>8, <1>9, <1>10 DEF PortNext

LEMMA PortRests ==
  ASSUME PortIInv, program \notin {"led", "mouse", "none"}, program' # "mouse",
         UNCHANGED <<ledVars, mouseVars>>
  PROVE  PortIInv'
<1>1. UNCHANGED <<mutex, mouse, answers, data>> /\ mouse = "good"
  BY DEF ledVars, mouseVars, PortIInv
<1>2. QED
  BY <1>1 DEF PortIInv, MousePassHonest

LEMMA PortBegins == Init => PortIInv
  BY DEF Init, OutputInit, PortInit, PortIInv, MousePassHonest

-----------------------------------------------------------------------------------
(* The serial port *)

Byte == [value : Nat, attempt : Nat]
Outstanding == input \o pending

\* The number of the pattern before the present one.
PatternBefore == IF place[2] = 1 THEN Len(patterns) ELSE place[2] - 1

\* The attempt is in step: its first byte came back to it, and each one since; the driver
\* has no byte but, between writing and reading, the one just written.
InStep ==
  /\ ~foreign /\ place # FirstPlace
  /\ IF serialAt = "write" THEN Outstanding = <<>>
     ELSE Len(Outstanding) = 1 /\ Outstanding[1].attempt = attempt

\* Or it is not, and none of the n bytes it wrote has come back yet: they stand behind those
\* of the attempts before, and the first of them is a first pattern.
OutOfStep(n) ==
  /\ n <= Len(Outstanding)
  /\ n >= place[2] - (IF serialAt = "write" THEN 1 ELSE 0)
  /\ place[1] > 1 => n >= Len(patterns) + (IF serialAt = "write" THEN 0 ELSE 1)
  /\ n > 0 => Outstanding[Len(Outstanding) - n + 1].value = patterns[1]
  /\ place = FirstPlace => ~foreign /\ n = (IF serialAt = "write" THEN 0 ELSE 1)

SerialTypes ==
  /\ input \in Seq(Byte) /\ pending \in Seq(Byte) /\ attempt \in Nat /\ late \in Nat
  /\ place \in (1..Settings) \X (1..Len(patterns))
  /\ serialAt \in {"idle", "open", "write", "read", "failed", "passed"}
  /\ {opened, plugged, unplugged, foreign} \subseteq BOOLEAN

\* What the driver has still to return was late, but for the byte that is read next.
FewOutstanding ==
  /\ ~plugged => Outstanding = <<>>
  /\ Len(Outstanding) <= late + (IF serialAt = "read" THEN 1 ELSE 0)
  /\ serialAt = "read" /\ Len(Outstanding) > late => input # <<>>

\* While an attempt goes on, the byte read last was the pattern before, and it is in step or
\* keeps all its bytes before it.
AttemptSound ==
  serialAt \in {"write", "read"} =>
    /\ place # FirstPlace => receiveChar = patterns[PatternBefore]
    /\ plugged /\ late < Len(patterns) => InStep \/ \E n \in Nat : OutOfStep(n)
    /\ ~plugged => ~foreign

\* With no byte late, what is read is what was written.
ByteReturns ==
  serialAt = "read" /\ late = 0 /\ ~unplugged
    => input # <<>> /\ Head(input).value = patterns[place[2]]

SerialIInv ==
  /\ SerialTypes /\ FewOutstanding /\ AttemptSound /\ ByteReturns
  /\ serialAt = "passed" /\ late < Len(patterns) => ~foreign
  /\ program # "serial" => serialAt = "idle"
  /\ program \notin {"serial", "none"} => ~foreign
  /\ program = "serial" => serialAt # "idle" /\ NoLine(report, "serial")
  /\ PassedMeansEchoed /\ SoundPortPasses

\* The bytes the driver has, as steps change them.
LEMMA BytesAre ==
  ASSUME SerialTypes
  PROVE  /\ Outstanding \in Seq(Byte) /\ Len(Outstanding) \in Nat
         /\ Len(input) \in Nat /\ Len(pending) \in Nat
         /\ Len(Outstanding) = Len(input) + Len(pending)
         /\ \A k \in 1..Len(Outstanding) :
              Outstanding[k] = IF k <= Len(input) THEN input[k] ELSE pending[k - Len(input)]
<1>1. input \in Seq(Byte) /\ pending \in Seq(Byte)
  BY DEF SerialTypes
<1>2. QED
  BY <1>1, ConcatProperties, LenProperties DEF Outstanding

LEMMA ByteAppended ==
  ASSUME NEW s \in Seq(Byte), NEW t \in Seq(Byte), NEW e \in Byte
  PROVE  /\ s \o Append(t, e) = Append(s \o t, e)
         /\ Append(s \o t, e) \o <<>> = Append(s \o t, e)
<1>1. s \o t \in Seq(Byte) /\ <<e>> \in Seq(Byte)
  BY ConcatProperties
<1>2. Append(t, e) = t \o <<e>> /\ Append(s \o t, e) = (s \o t) \o <<e>>
  BY <1>1, AppendIsConcat
<1>3. (s \o t) \o <<e>> = s \o (t \o <<e>>)
  BY <1>1, ConcatAssociative
<1>4. Append(s \o t, e) \in Seq(Byte)
  BY <1>1, AppendProperties
<1>5. QED
  BY <1>2, <1>3, <1>4, ConcatEmptySeq

\* Writing a byte puts it behind the others.
LEMMA ByteWritten ==
  ASSUME SerialTypes, SerialPortWrite
  PROVE  LET byte == [value |-> patterns[place[2]], attempt |-> attempt]
         IN /\ byte \in Byte /\ SerialTypes'
            /\ plugged => Outstanding' = Append(Outstanding, byte)
                          /\ (late' = late => input' # <<>> /\ pending' = <<>>)
            /\ ~plugged => Outstanding' = Outstanding /\ late' = late
            /\ late' = late \/ late' = late + 1
<1> DEFINE byte == [value |-> patterns[place[2]], attempt |-> attempt]
<1>1. /\ input \in Seq(Byte) /\ pending \in Seq(Byte) /\ attempt \in Nat /\ late \in Nat
      /\ place \in (1..Settings) \X (1..Len(patterns))
  BY DEF SerialTypes
<1>2. byte \in Byte
  <2>1. patterns[place[2]] \in Nat
    <3>1. place[2] \in 1..Len(patterns) /\ patterns \in Seq(Nat)
      BY <1>1, SerialAssumption
    <3>2. QED
      BY <3>1, ElementOfSeq
  <2>2. QED
    BY <1>1, <2>1 DEF Byte
<1>3. /\ \/ plugged /\ input' = Append(input \o pending, byte) /\ pending' = <<>> /\ UNCHANGED late
         \/ plugged /\ pending' = Append(pending, byte) /\ late' = late + 1 /\ UNCHANGED input
         \/ ~plugged /\ UNCHANGED <<pending, input, late>>
      /\ UNCHANGED <<opened, plugged, place, attempt, foreign>>
      /\ serialAt' = "read" /\ unplugged' = (unplugged \/ ~plugged)
  BY DEF SerialPortWrite
<1> HIDE DEF byte
<1>4. /\ input \o pending \in Seq(Byte)
      /\ Append(input \o pending, byte) \in Seq(Byte) /\ Append(input \o pending, byte) # <<>>
      /\ Append(pending, byte) \in Seq(Byte)
  BY <1>1, <1>2, ConcatProperties, AppendProperties
<1>5. input' \in Seq(Byte) /\ pending' \in Seq(Byte) /\ late' \in Nat
  <2>1. <<>> \in Seq(Byte)
    BY EmptySeq
  <2>2. late' \in Nat
    BY <1>1, <1>3
  <2>3. input' \in {Append(input \o pending, byte), input} /\ pending' \in {<<>>, Append(pending, byte), pending}
    BY <1>3, Zenon
  <2>4. QED
    BY <1>1, <1>4, <2>1, <2>2, <2>3
<1>6. SerialTypes'
  BY <1>3, <1>5 DEF SerialTypes
<1>7. /\ input \o Append(pending, byte) = Append(input \o pending, byte)
      /\ Append(input \o pending, byte) \o <<>> = Append(input \o pending, byte)
  BY <1>1, <1>2, ByteAppended
<1>8. plugged => Outstanding' = Append(Outstanding, byte) /\ (late' = late => input' # <<>> /\ pending' = <<>>)
  <2>1. late + 1 # late
    BY <1>1
  <2>2. CASE input' = Append(input \o pending, byte) /\ pending' = <<>>
    <3>1. Outstanding' = Append(input \o pending, byte) \o <<>>
      BY <2>2, Zenon DEF Outstanding
    <3>2. QED
      BY <1>4, <1>7, <2>2, <3>1, Zenon DEF Outstanding
  <2>3. CASE pending' = Append(pending, byte) /\ late' = late + 1 /\ UNCHANGED input
    <3>1. Outstanding' = input \o Append(pending, byte)
      BY <2>3, Zenon DEF Outstanding
    <3>2. QED
      BY <1>7, <2>1, <2>3, <3>1, Zenon DEF Outstanding
  <2>4. QED
    BY <1>3, <2>2, <2>3, Zenon
<1>9. ~plugged => Outstanding' = Outstanding /\ late' = late
  BY <1>3 DEF Outstanding
<1>10. QED
  BY <1>2, <1>3, <1>6, <1>8, <1>9 DEF byte

\* A byte that was late can be read: the driver has the same bytes.
LEMMA ByteReturned ==
  ASSUME SerialTypes, ReturnLate
  PROVE  /\ SerialTypes' /\ Outstanding' = Outstanding /\ input' # <<>>
         /\ (input # <<>> => Head(input') = Head(input))
<1>1. /\ input \in Seq(Byte) /\ pending \in Seq(Byte) /\ pending # <<>>
      /\ input' = Append(input, Head(pending)) /\ pending' = Tail(pending)
      /\ UNCHANGED <<serialAt, opened, plugged, place, attempt, late, unplugged, foreign>>
  BY DEF SerialTypes, ReturnLate
<1>2. /\ Head(pending) \in Byte /\ Tail(pending) \in Seq(Byte)
      /\ Len(Tail(pending)) = Len(pending) - 1 /\ Len(pending) \in Nat /\ Len(input) \in Nat
      /\ \A k \in 1..Len(Tail(pending)) : Tail(pending)[k] = pending[k + 1]
      /\ Head(pending) = pending[1] /\ Len(pending) # 0
  BY <1>1, HeadTailProperties, LenProperties, EmptySeq
<1>3. /\ input' \in Seq(Byte) /\ input' # <<>> /\ Len(input') = Len(input) + 1
      /\ \A k \in 1..Len(input) : input'[k] = input[k]
      /\ input'[Len(input) + 1] = Head(pending) /\ pending' \in Seq(Byte)
      /\ Len(pending') = Len(pending) - 1 /\ \A k \in 1..Len(pending) - 1 : pending'[k] = pending[k + 1]
  BY <1>1, <1>2, AppendProperties
<1>4. SerialTypes'
  BY <1>1, <1>3 DEF SerialTypes
<1>5. /\ Outstanding \in Seq(Byte) /\ Len(Outstanding) = Len(input) + Len(pending)
      /\ \A k \in 1..Len(Outstanding) :
           Outstanding[k] = IF k <= Len(input) THEN input[k] ELSE pending[k - Len(input)]
  BY BytesAre
<1>6. /\ Outstanding' \in Seq(Byte) /\ Len(Outstanding') = Len(input') + Len(pending')
      /\ \A k \in 1..Len(Outstanding') :
           Outstanding'[k] = IF k <= Len(input') THEN input'[k] ELSE pending'[k - Len(input')]
  <2>1. input' \in Seq(Byte) /\ pending' \in Seq(Byte)
    BY <1>3
  <2>2. QED
    BY <2>1, ConcatProperties DEF Outstanding
<1>7. Len(Outstanding') = Len(Outstanding)
  BY <1>2, <1>3, <1>5, <1>6
<1>8. ASSUME NEW k \in 1..Len(Outstanding) PROVE Outstanding'[k] = Outstanding[k]
  <2>1. CASE k <= Len(input)
    <3>1. k \in 1..Len(input) /\ k <= Len(input')
      BY <1>2, <1>3, <2>1
    <3>2. QED
      BY <1>3, <1>5, <1>6, <1>7, <2>1, <3>1
  <2>2. CASE k = Len(input) + 1
    <3>1. k <= Len(input') /\ ~(k <= Len(input)) /\ k - Len(input) = 1
      BY <1>2, <1>3, <2>2
    <3>2. Outstanding'[k] = input'[k] /\ Outstanding[k] = pending[1]
      BY <1>5, <1>6, <1>7, <3>1
    <3>3. QED
      BY <1>2, <1>3, <2>2, <3>2
  <2>3. CASE k > Len(input) + 1
    <3>1. /\ ~(k <= Len(input')) /\ ~(k <= Len(input))
          /\ k - Len(input') \in 1..Len(pending) - 1 /\ k - Len(input) = k - Len(input') + 1
      BY <1>2, <1>3, <1>5, <2>3
    <3>2. Outstanding'[k] = pending'[k - Len(input')] /\ Outstanding[k] = pending[k - Len(input)]
      BY <1>5, <1>6, <1>7, <3>1
    <3>3. QED
      BY <1>3, <3>1, <3>2
  <2>4. QED
    BY <1>2, <2>1, <2>2, <2>3
<1>9. Outstanding' = Outstanding
  BY <1>5, <1>6, <1>7, <1>8, SeqEqual
<1>10. input # <<>> => Head(input') = Head(input)
  BY <1>1, HeadTailAppend
<1>11. QED
  BY <1>3, <1>4, <1>9, <1>10

\* Reading a byte takes the first one.
LEMMA ByteTaken ==
  ASSUME SerialTypes, input # <<>>, input' = Tail(input), UNCHANGED pending
  PROVE  /\ input' \in Seq(Byte) /\ Len(Outstanding) # 0 /\ Outstanding[1] = Head(input)
         /\ Outstanding' \in Seq(Byte) /\ Len(Outstanding') = Len(Outstanding) - 1
         /\ \A k \in 1..Len(Outstanding) - 1 : Outstanding'[k] = Outstanding[k + 1]
<1>1. input \in Seq(Byte) /\ pending \in Seq(Byte)
  BY DEF SerialTypes
<1>2. /\ input' \in Seq(Byte) /\ Len(input') = Len(input) - 1 /\ Len(input) \in Nat
      /\ \A k \in 1..Len(input') : input'[k] = input[k + 1]
      /\ Head(input) = input[1] /\ Len(input) # 0 /\ Len(pending) \in Nat
  BY <1>1, HeadTailProperties, LenProperties, EmptySeq
<1>3. /\ Outstanding \in Seq(Byte) /\ Len(Outstanding) = Len(input) + Len(pending)
      /\ \A k \in 1..Len(Outstanding) :
           Outstanding[k] = IF k <= Len(input) THEN input[k] ELSE pending[k - Len(input)]
  BY BytesAre
<1>4. /\ Outstanding' \in Seq(Byte) /\ Len(Outstanding') = Len(input') + Len(pending)
      /\ \A k \in 1..Len(Outstanding') :
           Outstanding'[k] = IF k <= Len(input') THEN input'[k] ELSE pending[k - Len(input')]
  <2>1. Outstanding' = input' \o pending
    BY DEF Outstanding
  <2>2. QED
    BY <1>1, <1>2, <2>1, ConcatProperties
<1>5. Len(Outstanding') = Len(Outstanding) - 1 /\ Outstanding[1] = Head(input) /\ Len(Outstanding) # 0
  BY <1>2, <1>3, <1>4
<1>6. ASSUME NEW k \in 1..Len(Outstanding) - 1 PROVE Outstanding'[k] = Outstanding[k + 1]
  <2>0. k \in 1..Len(Outstanding') /\ k + 1 \in 1..Len(Outstanding)
    BY <1>2, <1>3, <1>5
  <2>1. CASE k <= Len(input')
    <3>1. k \in 1..Len(input') /\ k + 1 <= Len(input)
      BY <1>2, <2>1
    <3>2. QED
      BY <1>2, <1>3, <1>4, <2>0, <2>1, <3>1
  <2>2. CASE ~(k <= Len(input'))
    <3>1. ~(k + 1 <= Len(input)) /\ k + 1 - Len(input) = k - Len(input')
      BY <1>2, <2>2
    <3>2. Outstanding'[k] = pending[k - Len(input')]
      BY <1>4, <2>0, <2>2
    <3>3. Outstanding[k + 1] = pending[k + 1 - Len(input)]
      BY <1>3, <2>0, <3>1
    <3>4. QED
      BY <3>1, <3>2, <3>3
  <2>3. QED
    BY <2>1, <2>2
<1>7. QED
  BY <1>2, <1>4, <1>5, <1>6

-----------------------------------------------------------------------------------
(* What the steps of the serial test keep. *)

\* The patterns are different, so that the one before is not the present one.
LEMMA PatternsDiffer ==
  ASSUME SerialTypes
  PROVE  /\ Len(patterns) \in Nat /\ Len(patterns) > 1 /\ place[2] \in 1..Len(patterns)
         /\ place[1] \in 1..Settings /\ Settings \in Nat \ {0} /\ place = <<place[1], place[2]>>
         /\ patterns[PatternBefore] # patterns[place[2]]
         /\ (patterns[1] = patterns[place[2]] => place[2] = 1)
<1>1. /\ patterns \in Seq(Nat) /\ Len(patterns) > 1 /\ Settings \in Nat \ {0}
      /\ \A k, l \in DOMAIN patterns : patterns[k] = patterns[l] => k = l
  BY SerialAssumption
<1>2. Len(patterns) \in Nat /\ DOMAIN patterns = 1..Len(patterns)
  BY <1>1, LenProperties
<1>3. place \in (1..Settings) \X (1..Len(patterns))
  BY DEF SerialTypes
<1>4. place[1] \in 1..Settings /\ place[2] \in 1..Len(patterns) /\ place = <<place[1], place[2]>>
  BY <1>3
<1>5. PatternBefore \in 1..Len(patterns) /\ PatternBefore # place[2]
  BY <1>1, <1>2, <1>4 DEF PatternBefore
<1>6. 1 \in 1..Len(patterns)
  BY <1>1, <1>2
<1>7. QED
  BY <1>1, <1>2, <1>4, <1>5, <1>6

LEMMA SerialWriteKeeps ==
  ASSUME SerialIInv, SerialPortWrite
  PROVE  SerialIInv'
<1> DEFINE byte == [value |-> patterns[place[2]], attempt |-> attempt]
           Q == Outstanding
           n0 == Len(Q)
<1>1. /\ program = "serial" /\ serialAt = "write" /\ opened /\ serialAt' = "read"
      /\ unplugged' = (unplugged \/ ~plugged)
      /\ UNCHANGED <<program, report, plugged, place, receiveChar, attempt, foreign>>
  BY DEF SerialPortWrite
<1>2. SerialTypes /\ FewOutstanding /\ AttemptSound
  BY DEF SerialIInv
<1>3. /\ byte \in Byte /\ SerialTypes'
      /\ plugged => Outstanding' = Append(Q, byte) /\ (late' = late => input' # <<>> /\ pending' = <<>>)
      /\ ~plugged => Outstanding' = Q /\ late' = late
      /\ late' = late \/ late' = late + 1
  BY <1>2, ByteWritten
<1>4. Q \in Seq(Byte) /\ n0 \in Nat /\ late \in Nat /\ byte.value = patterns[place[2]] /\ byte.attempt = attempt
  BY <1>2, BytesAre DEF SerialTypes
<1> HIDE DEF byte, Q
<1>5. plugged => /\ Len(Outstanding') = n0 + 1 /\ Outstanding'[n0 + 1] = byte
                 /\ \A k \in 1..n0 : Outstanding'[k] = Q[k]
  BY <1>3, <1>4, AppendProperties
<1>6. n0 <= late /\ (~plugged => Q = <<>>)
  BY <1>1, <1>2, <1>4 DEF FewOutstanding, Q
<1>7. FewOutstanding'
  <2>1. CASE plugged
    BY <1>1, <1>3, <1>4, <1>5, <1>6, <2>1 DEF FewOutstanding
  <2>2. CASE ~plugged
    <3>1. Outstanding' = <<>> /\ Len(Outstanding') <= late' /\ late' \in Nat
      BY <1>3, <1>4, <1>6, <2>2
    <3>2. QED
      BY <1>1, <1>4, <3>1 DEF FewOutstanding
  <2>3. QED
    BY <2>1, <2>2
<1>8. AttemptSound'
  <2>1. place' # FirstPlace => receiveChar' = patterns[PatternBefore']
    BY <1>1, <1>2 DEF AttemptSound, PatternBefore
  <2>2. ~plugged' => ~foreign'
    BY <1>1, <1>2 DEF AttemptSound
  <2>3. ASSUME plugged, late' < Len(patterns) PROVE (InStep \/ \E n \in Nat : OutOfStep(n))'
    <3>0. late < Len(patterns)
      <4>1. Len(patterns) \in Nat
        BY <1>2, PatternsDiffer
      <4>2. QED
        BY <1>3, <1>4, <2>3, <4>1
    <3>1. CASE InStep
      <4>1. ~foreign' /\ place' # FirstPlace /\ Q = <<>>
        BY <1>1, <3>1 DEF InStep, Q
      <4>2. n0 = 0
        BY <1>4, <4>1, EmptySeq
      <4>3. Len(Outstanding') = 1 /\ Outstanding'[1].attempt = attempt'
        BY <1>1, <1>4, <1>5, <2>3, <4>2
      <4>4. InStep'
        BY <1>1, <4>1, <4>3 DEF InStep
      <4>5. QED
        BY <4>4
    <3>2. ASSUME NEW n \in Nat, OutOfStep(n) PROVE OutOfStep(n + 1)'
      <4>1. /\ n <= n0 /\ n >= place[2] - 1 /\ (place[1] > 1 => n >= Len(patterns))
            /\ (n > 0 => Q[n0 - n + 1].value = patterns[1])
            /\ (place = FirstPlace => ~foreign /\ n = 0)
        BY <1>1, <3>2 DEF OutOfStep, Q
      <4>2. /\ place[2] \in 1..Len(patterns) /\ place[1] \in 1..Settings /\ Settings \in Nat
            /\ Len(patterns) \in Nat /\ Len(patterns) > 1 /\ place = <<place[1], place[2]>>
        BY <1>2, PatternsDiffer
      <4>3. n + 1 <= Len(Outstanding') /\ n + 1 >= place'[2] /\ (place'[1] > 1 => n + 1 >= Len(patterns) + 1)
        BY <1>1, <1>4, <1>5, <2>3, <4>1, <4>2
      <4>4. Outstanding'[Len(Outstanding') - (n + 1) + 1].value = patterns[1]
        <5>1. Len(Outstanding') - (n + 1) + 1 = n0 - n + 1
          BY <1>4, <1>5, <2>3
        <5>2. CASE n > 0
          <6>1. n0 - n + 1 \in 1..n0
            BY <1>4, <4>1, <5>2
          <6>2. QED
            BY <1>5, <2>3, <4>1, <5>1, <5>2, <6>1
        <5>3. CASE n = 0
          <6>1. place[2] = 1
            BY <4>1, <4>2, <5>3
          <6>2. Outstanding'[n0 + 1].value = patterns[1]
            BY <1>4, <1>5, <2>3, <6>1
          <6>3. QED
            BY <1>4, <5>1, <5>3, <6>2
        <5>4. QED
          BY <5>2, <5>3
      <4>5. place' = FirstPlace => ~foreign' /\ n + 1 = 1
        BY <1>1, <4>1
      <4>6. /\ n + 1 <= Len(Outstanding')
            /\ n + 1 >= place'[2] - (IF serialAt' = "write" THEN 1 ELSE 0)
            /\ place'[1] > 1 => n + 1 >= Len(patterns) + (IF serialAt' = "write" THEN 0 ELSE 1)
            /\ n + 1 > 0 => Outstanding'[Len(Outstanding') - (n + 1) + 1].value = patterns[1]
            /\ place' = FirstPlace => ~foreign' /\ n + 1 = (IF serialAt' = "write" THEN 0 ELSE 1)
        <5>1. place'[2] - 0 = place'[2]
          BY <1>1, <4>2
        <5>2. serialAt' = "read"
          BY <1>1
        <5>3. QED
          BY <4>3, <4>4, <4>5, <5>1, <5>2
      <4>7. QED
        BY <4>6 DEF OutOfStep
    <3>3. \A n \in Nat : n + 1 \in Nat
      OBVIOUS
    <3>4. InStep \/ \E n \in Nat : OutOfStep(n)
      BY <1>1, <1>2, <2>3, <3>0 DEF AttemptSound
    <3>5. QED
      BY <3>1, <3>2, <3>3, <3>4
  <2>4. QED
    BY <1>1, <2>1, <2>2, <2>3 DEF AttemptSound
<1>9. ByteReturns'
  <2>1. ASSUME late' = 0, ~unplugged' PROVE input' # <<>> /\ Head(input').value = patterns[place'[2]]
    <3>0. plugged
      BY <1>1, <2>1
    <3>1. late = 0 /\ late' = late
      <4>1. late' = late \/ late' = late + 1
        BY <1>3
      <4>2. late + 1 # 0
        BY <1>4
      <4>3. QED
        BY <2>1, <4>1, <4>2, Zenon
    <3>2. n0 = 0
      BY <1>4, <1>6, <3>1
    <3>3. input' # <<>> /\ pending' = <<>>
      BY <1>3, <3>0, <3>1
    <3>4. input' \in Seq(Byte)
      BY <1>3 DEF SerialTypes
    <3>5. Outstanding' = input'
      BY <3>3, <3>4, ConcatEmptySeq DEF Outstanding
    <3>6. Head(input') = Outstanding'[1]
      BY <3>3, <3>4, <3>5
    <3>7. QED
      BY <1>1, <1>4, <1>5, <3>0, <3>1, <3>2, <3>3, <3>6
  <2>2. QED
    BY <2>1 DEF ByteReturns
<1>10. NoLine(report', "serial")
  BY <1>1 DEF SerialIInv
<1>11. PassedMeansEchoed'
  <2>1. ~PassedLine(report', "serial")
    BY <1>10, NotPrintedNotPassed
  <2>2. QED
    BY <2>1 DEF PassedLine, Reported, PassedMeansEchoed
<1>12. QED
  BY <1>1, <1>3, <1>7, <1>8, <1>9, <1>10, <1>11 DEF SerialIInv, SoundPortPasses

LEMMA SerialStartKeeps ==
  ASSUME SerialStart
  PROVE  SerialIInv' /\ Closed(report')
<1>1. /\ program' = "serial" /\ report' = Before /\ serialAt' = "open" /\ opened' = FALSE
      /\ plugged' \in BOOLEAN /\ place' = FirstPlace /\ pending' = <<>> /\ input' = <<>>
      /\ attempt' = 0 /\ late' = 0 /\ unplugged' = FALSE /\ foreign' = FALSE
  BY DEF SerialStart
<1>2. FirstPlace \in (1..Settings) \X (1..Len(patterns))
  <2>1. Settings \in Nat \ {0} /\ Len(patterns) \in Nat /\ Len(patterns) > 1
    BY SerialAssumption, LenProperties
  <2>2. QED
    BY <2>1 DEF FirstPlace
<1>3. <<>> \in Seq(Byte) /\ <<>> \o <<>> = <<>> /\ Len(<<>>) = 0
  BY ConcatEmptySeq, EmptySeq
<1>4. SerialTypes'
  BY <1>1, <1>2, <1>3 DEF SerialTypes
<1>5. FewOutstanding'
  BY <1>1, <1>3 DEF FewOutstanding, Outstanding
<1>6. Closed(report') /\ NoLine(report', "serial")
  BY <1>1, BeforeClosed DEF NoLine, Before
<1>7. QED
  BY <1>1, <1>4, <1>5, <1>6
  DEF SerialIInv, AttemptSound, ByteReturns, PassedMeansEchoed, SoundPortPasses

LEMMA SerialOpens ==
  ASSUME SerialIInv, Closed(report), OpenSerialPort
  PROVE  SerialIInv' /\ Closed(report')
<1>1. /\ program' = "serial" /\ serialAt = "open" /\ serialAt' = "write" /\ opened' \in BOOLEAN
      /\ report' = diagnosticPrint(report, "Beginning") /\ program = "serial"
      /\ place' = FirstPlace /\ attempt' = attempt + 1 /\ unplugged' = FALSE /\ foreign' = FALSE
      /\ UNCHANGED <<plugged, pending, input, late>>
  BY DEF OpenSerialPort
<1>2. SerialTypes /\ FewOutstanding /\ NoLine(report, "serial")
  BY <1>1 DEF SerialIInv
<1>3. FirstPlace \in (1..Settings) \X (1..Len(patterns)) /\ FirstPlace[1] = 1 /\ FirstPlace[2] = 1
  <2>1. Settings \in Nat \ {0} /\ Len(patterns) \in Nat /\ Len(patterns) > 1
    BY SerialAssumption, LenProperties
  <2>2. QED
    BY <2>1 DEF FirstPlace
<1>4. SerialTypes'
  <2>1. plugged' \in BOOLEAN /\ attempt' \in Nat
    BY <1>1, <1>2 DEF SerialTypes
  <2>2. {opened', plugged', unplugged', foreign'} \subseteq BOOLEAN
    BY <1>1, <2>1
  <2>3. QED
    BY <1>1, <1>2, <1>3, <2>1, <2>2 DEF SerialTypes
<1>5. Outstanding' = Outstanding /\ Len(Outstanding) \in Nat
  BY <1>1, <1>2, BytesAre DEF Outstanding
<1>6. FewOutstanding'
  BY <1>1, <1>2, <1>5 DEF FewOutstanding
<1>7. OutOfStep(0)'
  <2>1. /\ 0 <= Len(Outstanding') /\ 0 >= place'[2] - (IF serialAt' = "write" THEN 1 ELSE 0)
        /\ ~(place'[1] > 1) /\ ~(0 > 0)
        /\ ~foreign' /\ 0 = (IF serialAt' = "write" THEN 0 ELSE 1)
    BY <1>1, <1>3, <1>5
  <2>2. QED
    BY <2>1 DEF OutOfStep
<1>8. AttemptSound'
  BY <1>1, <1>7 DEF AttemptSound
<1>9. Closed(report') /\ NoLine(report', "serial")
  BY <1>1, <1>2, DiagnosticKeepsClosed, PrintingElse DEF Closed
<1>10. QED
  BY <1>1, <1>4, <1>6, <1>8, <1>9
  DEF SerialIInv, ByteReturns, PassedMeansEchoed, SoundPortPasses

LEMMA SerialWaits ==
  ASSUME SerialIInv, Closed(report), WriteFails \/ ReturnLate \/ Retry
  PROVE  SerialIInv' /\ Closed(report')
<1>1. /\ program = "serial" /\ UNCHANGED <<program, report, opened, place, receiveChar, attempt, late,
                                           unplugged, foreign>>
  BY DEF WriteFails, ReturnLate, Retry
<1>2. SerialTypes /\ FewOutstanding /\ NoLine(report, "serial") /\ serialAt # "idle"
  BY <1>1 DEF SerialIInv
<1>3. CASE WriteFails
  <2>1. serialAt' = "failed" /\ ~opened /\ UNCHANGED <<plugged, pending, input>> /\ serialAt = "write"
    BY <1>3 DEF WriteFails
  <2>2. Outstanding' = Outstanding
    BY <2>1 DEF Outstanding
  <2>3. SerialTypes' /\ FewOutstanding'
    BY <1>1, <1>2, <2>1, <2>2 DEF SerialTypes, FewOutstanding
  <2>4. QED
    BY <1>1, <1>2, <2>1, <2>3
    DEF SerialIInv, AttemptSound, ByteReturns, PassedMeansEchoed, SoundPortPasses, Reported
<1>4. CASE Retry
  <2>1. serialAt' = "open" /\ plugged' \in {plugged, TRUE} /\ UNCHANGED <<pending, input>> /\ serialAt = "failed"
    BY <1>4 DEF Retry
  <2>2. Outstanding' = Outstanding
    BY <2>1 DEF Outstanding
  <2>3. SerialTypes' /\ FewOutstanding'
    BY <1>1, <1>2, <2>1, <2>2 DEF SerialTypes, FewOutstanding
  <2>4. QED
    BY <1>1, <1>2, <2>1, <2>3
    DEF SerialIInv, AttemptSound, ByteReturns, PassedMeansEchoed, SoundPortPasses, Reported
<1>5. CASE ReturnLate
  <2>1. /\ SerialTypes' /\ Outstanding' = Outstanding /\ input' # <<>>
        /\ (input # <<>> => Head(input') = Head(input)) /\ UNCHANGED <<serialAt, plugged>>
    BY <1>2, <1>5, ByteReturned DEF ReturnLate
  <2>2. FewOutstanding'
    BY <1>1, <1>2, <2>1 DEF FewOutstanding
  <2>3. AttemptSound'
    <3>1. InStep' = InStep /\ \A n \in Nat : OutOfStep(n)' = OutOfStep(n)
      BY <1>1, <2>1 DEF InStep, OutOfStep
    <3>2. PatternBefore' = PatternBefore
      BY <1>1 DEF PatternBefore
    <3>3. QED
      BY <1>1, <2>1, <3>1, <3>2 DEF AttemptSound, SerialIInv
  <2>4. ByteReturns'
    BY <1>1, <2>1 DEF ByteReturns, SerialIInv
  <2>5. QED
    BY <1>1, <1>2, <2>1, <2>2, <2>3, <2>4
    DEF SerialIInv, PassedMeansEchoed, SoundPortPasses, Reported
<1>6. QED
  BY <1>3, <1>4, <1>5

\* What reading does, by the result of the read call.
LEMMA SerialReads ==
  ASSUME SerialIInv, SerialPortRead
  PROVE  /\ program = "serial" /\ program' = "serial" /\ serialAt = "read"
         /\ UNCHANGED <<opened, plugged, pending, attempt, late, unplugged>>
         /\ \E ret \in {-1, 0, 1} :
              /\ IF ret = 1 THEN input # <<>> /\ receiveChar' = Head(input).value
                            ELSE input = <<>> /\ receiveChar' = receiveChar
              /\ foreign' = \/ foreign
                            \/ place # FirstPlace /\ (ret # 1 \/ Head(input).attempt # attempt)
              /\ \/ /\ ~Accepted(receiveChar', ret) /\ serialAt' = "failed" /\ place' = place
                    /\ input' = (IF ret = 1 THEN Tail(input) ELSE input)
                 \/ /\ Accepted(receiveChar', ret) /\ place = LastPlace /\ serialAt' = "passed"
                    /\ place' = place /\ input' = <<>>
                 \/ /\ Accepted(receiveChar', ret) /\ place # LastPlace /\ serialAt' = "write"
                    /\ place' = NextPlace
                    /\ input' = (IF ret = 1 THEN Tail(input) ELSE input)
<1>1. /\ program = "serial" /\ program' = "serial" /\ serialAt = "read"
      /\ UNCHANGED <<opened, plugged, pending, attempt, late, unplugged>>
  BY DEF SerialPortRead
<1>2. PICK ret \in (IF input = <<>> THEN {-1, 0} ELSE {1}) :
        /\ receiveChar' = (IF ret = 1 THEN Head(input).value ELSE receiveChar)
        /\ foreign' = \/ foreign
                      \/ place # FirstPlace /\ (ret # 1 \/ Head(input).attempt # attempt)
        /\ IF ~Accepted(receiveChar', ret)
           THEN /\ serialAt' = "failed"
                /\ input' = (IF ret = 1 THEN Tail(input) ELSE input)
                /\ report' = diagnosticPrint(report, "pattern")
                /\ UNCHANGED place
           ELSE IF place = LastPlace
           THEN /\ serialAt' = "passed" /\ input' = <<>>
                /\ report' = diagnosticPrint(diagnosticPrint(report, "pattern"), "Finished")
                /\ UNCHANGED place
           ELSE /\ serialAt' = "write" /\ place' = NextPlace
                /\ input' = (IF ret = 1 THEN Tail(input) ELSE input)
                /\ report' = diagnosticPrint(report, "pattern")
  BY DEF SerialPortRead
<1>3. ret \in {-1, 0, 1} /\ (ret = 1 <=> input # <<>>)
  BY <1>2
<1>4. /\ IF ret = 1 THEN input # <<>> /\ receiveChar' = Head(input).value
                    ELSE input = <<>> /\ receiveChar' = receiveChar
      /\ \/ /\ ~Accepted(receiveChar', ret) /\ serialAt' = "failed" /\ place' = place
            /\ input' = (IF ret = 1 THEN Tail(input) ELSE input)
         \/ /\ Accepted(receiveChar', ret) /\ place = LastPlace /\ serialAt' = "passed"
            /\ place' = place /\ input' = <<>>
         \/ /\ Accepted(receiveChar', ret) /\ place # LastPlace /\ serialAt' = "write"
            /\ place' = NextPlace
            /\ input' = (IF ret = 1 THEN Tail(input) ELSE input)
  BY <1>2, <1>3
<1>5. QED
  BY <1>1, <1>2, <1>3, <1>4

\* Nothing is read but what the rows of the test show.
LEMMA SerialReadRows ==
  ASSUME Closed(report), NoLine(report, "serial"), SerialPortRead
  PROVE  Closed(report') /\ NoLine(report', "serial")
<1> DEFINE one == diagnosticPrint(report, "pattern")
           two == diagnosticPrint(one, "Finished")
<1>1. report' = one \/ report' = two
  BY DEF SerialPortRead
<1>2. Closed(one) /\ NoLine(one, "serial")
  BY DiagnosticKeepsClosed, PrintingElse DEF Closed
<1> HIDE DEF one
<1>3. Closed(two) /\ NoLine(two, "serial")
  BY <1>2, DiagnosticKeepsClosed, PrintingElse DEF Closed
<1>4. QED
  BY <1>1, <1>2, <1>3

\* What is left with the driver after a byte was read, or none was there.
LEMMA SerialReadLeaves ==
  ASSUME SerialIInv, serialAt = "read", serialAt' # "read", UNCHANGED <<plugged, pending, late>>,
         NEW ret \in {-1, 0, 1}, ret = 1 <=> input # <<>>,
         input' = (IF ret = 1 THEN Tail(input) ELSE input)
  PROVE  /\ FewOutstanding' /\ input' \in Seq(Byte) /\ Outstanding' \in Seq(Byte)
         /\ Len(Outstanding) \in Nat
         /\ ret = 1 => /\ plugged /\ Len(Outstanding) # 0 /\ Outstanding[1] = Head(input)
                       /\ Len(Outstanding') = Len(Outstanding) - 1
                       /\ \A k \in 1..Len(Outstanding) - 1 : Outstanding'[k] = Outstanding[k + 1]
         /\ ret # 1 => Outstanding' = Outstanding
<1>1. SerialTypes /\ FewOutstanding /\ late \in Nat /\ input \in Seq(Byte)
  BY DEF SerialIInv, SerialTypes
<1>2. /\ Outstanding \in Seq(Byte) /\ Len(Outstanding) \in Nat
      /\ Len(Outstanding) = Len(input) + Len(pending)
  BY <1>1, BytesAre
<1>3. CASE ret = 1
  <2>1. /\ input' \in Seq(Byte) /\ Len(Outstanding) # 0 /\ Outstanding[1] = Head(input)
        /\ Outstanding' \in Seq(Byte) /\ Len(Outstanding') = Len(Outstanding) - 1
        /\ \A k \in 1..Len(Outstanding) - 1 : Outstanding'[k] = Outstanding[k + 1]
    BY <1>1, <1>3, ByteTaken
  <2>2. plugged
    BY <1>1, <2>1, EmptySeq DEF FewOutstanding
  <2>3. Len(Outstanding) <= late + 1
    BY <1>1 DEF FewOutstanding
  <2>4. FewOutstanding'
    <3>1. Len(Outstanding') <= late'
      BY <1>1, <1>2, <2>1, <2>3
    <3>2. late' + 0 = late'
      BY <1>1
    <3>3. QED
      BY <2>2, <3>1, <3>2 DEF FewOutstanding
  <2>5. QED
    BY <1>2, <1>3, <2>1, <2>2, <2>4
<1>4. CASE ret # 1
  <2>1. input = <<>> /\ input' = input /\ Outstanding' = Outstanding
    BY <1>4 DEF Outstanding
  <2>2. Len(Outstanding) <= late
    BY <1>1, <1>2, <2>1 DEF FewOutstanding
  <2>3. FewOutstanding'
    <3>1. Len(Outstanding') <= late' + 0 /\ (~plugged' => Outstanding' = <<>>)
      BY <1>1, <1>2, <2>1, <2>2 DEF FewOutstanding
    <3>2. QED
      BY <3>1 DEF FewOutstanding
  <2>4. QED
    BY <1>1, <1>2, <1>4, <2>1, <2>3
<1>5. QED
  BY <1>3, <1>4

\* An attempt that is not in step cannot have its first byte before it has written the last:
\* what it accepts is the first byte of all, or what an attempt before has left.
LEMMA SerialAccepts ==
  ASSUME SerialIInv, serialAt = "read", late < Len(patterns), NEW ret \in {-1, 0, 1},
         NEW received, Accepted(received, ret),
         IF ret = 1 THEN input # <<>> /\ received = Head(input).value
                    ELSE input = <<>> /\ received = receiveChar
  PROVE  /\ ret = 1 \/ place = FirstPlace
         /\ InStep => ret = 1 /\ Head(input).attempt = attempt /\ Len(Outstanding) = 1
         /\ \A n \in Nat : OutOfStep(n) /\ ret = 1 =>
              /\ Len(Outstanding) # n => n < Len(Outstanding)
              /\ Len(Outstanding) = n => place = FirstPlace /\ n = 1
         /\ place = LastPlace => ~plugged \/ InStep
<1>1. SerialTypes /\ FewOutstanding /\ AttemptSound
  BY DEF SerialIInv
<1>2. /\ Len(patterns) \in Nat /\ Len(patterns) > 1 /\ place[2] \in 1..Len(patterns)
      /\ place[1] \in 1..Settings /\ Settings \in Nat \ {0} /\ place = <<place[1], place[2]>>
      /\ patterns[PatternBefore] # patterns[place[2]]
      /\ (patterns[1] = patterns[place[2]] => place[2] = 1)
  BY <1>1, PatternsDiffer
<1>3. received = patterns[place[2]]
  BY DEF Accepted
<1>4. ret = 1 \/ place = FirstPlace
  BY <1>1, <1>2, <1>3 DEF AttemptSound
<1>5. Len(Outstanding) \in Nat /\ late \in Nat /\ Len(Outstanding) <= late + 1
  BY <1>1, BytesAre DEF SerialTypes, FewOutstanding
<1>6. ASSUME ret = 1 PROVE Len(Outstanding) # 0 /\ Outstanding[1] = Head(input)
  <2>1. /\ input \in Seq(Byte) /\ input # <<>> /\ Outstanding \in Seq(Byte) /\ Len(input) \in Nat
        /\ Len(pending) \in Nat /\ Len(Outstanding) = Len(input) + Len(pending)
        /\ \A k \in 1..Len(Outstanding) :
             Outstanding[k] = IF k <= Len(input) THEN input[k] ELSE pending[k - Len(input)]
    BY <1>1, <1>6, BytesAre DEF SerialTypes
  <2>2. Len(input) # 0 /\ Head(input) = input[1]
    BY <2>1, EmptySeq, HeadTailProperties
  <2>3. QED
    BY <2>1, <2>2
<1>7. InStep => ret = 1 /\ Head(input).attempt = attempt /\ Len(Outstanding) = 1
  BY <1>4, <1>6 DEF InStep
<1>8. ASSUME NEW n \in Nat, OutOfStep(n), ret = 1
      PROVE  /\ Len(Outstanding) # n => n < Len(Outstanding)
             /\ Len(Outstanding) = n => place = FirstPlace /\ n = 1
  <2>1. /\ n <= Len(Outstanding) /\ n >= place[2] /\ (place[1] > 1 => n >= Len(patterns) + 1)
        /\ (n > 0 => Outstanding[Len(Outstanding) - n + 1].value = patterns[1])
        /\ (place = FirstPlace => n = 1)
    BY <1>2, <1>8 DEF OutOfStep
  <2>2. ASSUME Len(Outstanding) = n PROVE place = FirstPlace /\ n = 1
    <3>1. ~(place[1] > 1)
      BY <1>2, <1>5, <2>1, <2>2
    <3>2. Len(Outstanding) - n + 1 = 1 /\ n > 0
      BY <1>2, <1>5, <2>1, <2>2
    <3>3. Head(input).value = patterns[1]
      BY <1>6, <1>8, <2>1, <3>2
    <3>4. place[2] = 1 /\ place[1] = 1
      BY <1>2, <1>3, <1>8, <3>1, <3>3
    <3>5. QED
      BY <1>2, <2>1, <3>4 DEF FirstPlace
  <2>3. QED
    BY <1>5, <2>1, <2>2
<1>9. ASSUME place = LastPlace, plugged PROVE InStep
  <2>1. place[2] = Len(patterns) /\ place # FirstPlace
    BY <1>2, <1>9 DEF LastPlace, FirstPlace
  <2>2. ASSUME NEW n \in Nat, OutOfStep(n) PROVE FALSE
    <3>1. ret = 1
      BY <1>4, <2>1
    <3>2. n < Len(Outstanding)
      BY <1>8, <2>1, <2>2, <3>1
    <3>3. n >= place[2]
      BY <1>2, <2>2 DEF OutOfStep
    <3>4. QED
      BY <1>2, <1>5, <2>1, <3>2, <3>3
  <2>3. QED
    BY <1>1, <1>9, <2>2 DEF AttemptSound
<1>10. QED
  BY <1>4, <1>7, <1>8, <1>9

\* The next pattern.
LEMMA SerialNextPlace ==
  ASSUME SerialTypes, place # LastPlace, place' = NextPlace
  PROVE  /\ place' \in (1..Settings) \X (1..Len(patterns)) /\ place' # FirstPlace
         /\ PatternBefore' = place[2]
         /\ place[2] < Len(patterns) => place'[1] = place[1] /\ place'[2] = place[2] + 1
         /\ ~(place[2] < Len(patterns)) => place'[1] = place[1] + 1 /\ place'[2] = 1
                                           /\ place[2] = Len(patterns)
<1>1. /\ Len(patterns) \in Nat /\ Len(patterns) > 1 /\ place[2] \in 1..Len(patterns)
      /\ place[1] \in 1..Settings /\ Settings \in Nat \ {0} /\ place = <<place[1], place[2]>>
  BY PatternsDiffer
<1>2. CASE place[2] < Len(patterns)
  <2>1. place' = <<place[1], place[2] + 1>>
    BY <1>2 DEF NextPlace
  <2>2. place'[1] = place[1] /\ place'[2] = place[2] + 1
    BY <2>1
  <2>3. place[2] + 1 \in 1..Len(patterns) /\ place[2] + 1 # 1 /\ place[2] + 1 - 1 = place[2]
    BY <1>1, <1>2
  <2>4. QED
    BY <1>1, <1>2, <2>1, <2>2, <2>3 DEF FirstPlace, PatternBefore
<1>3. CASE ~(place[2] < Len(patterns))
  <2>1. place' = <<place[1] + 1, 1>>
    BY <1>3 DEF NextPlace
  <2>2. place'[1] = place[1] + 1 /\ place'[2] = 1
    BY <2>1
  <2>3. place[2] = Len(patterns)
    BY <1>1, <1>3
  <2>4. place[1] # Settings
    BY <1>1, <2>3 DEF LastPlace
  <2>5. place[1] + 1 \in 1..Settings /\ place[1] + 1 # 1 /\ 1 \in 1..Len(patterns)
    BY <1>1, <2>4
  <2>6. QED
    BY <1>1, <1>3, <2>1, <2>2, <2>3, <2>5 DEF FirstPlace, PatternBefore
<1>4. QED
  BY <1>2, <1>3

\* The attempt goes on.
LEMMA SerialGoesOn ==
  ASSUME SerialIInv, serialAt = "read", serialAt' = "write", place # LastPlace, place' = NextPlace,
         UNCHANGED <<opened, plugged, pending, attempt, late, unplugged>>,
         NEW ret \in {-1, 0, 1}, Accepted(receiveChar', ret),
         IF ret = 1 THEN input # <<>> /\ receiveChar' = Head(input).value
                    ELSE input = <<>> /\ receiveChar' = receiveChar,
         foreign' = \/ foreign
                    \/ place # FirstPlace /\ (ret # 1 \/ Head(input).attempt # attempt),
         input' = (IF ret = 1 THEN Tail(input) ELSE input)
  PROVE  AttemptSound'
<1>1. SerialTypes /\ FewOutstanding /\ AttemptSound
  BY DEF SerialIInv
<1>2. /\ Len(patterns) \in Nat /\ Len(patterns) > 1 /\ place[2] \in 1..Len(patterns)
      /\ place[1] \in 1..Settings /\ Settings \in Nat \ {0} /\ place = <<place[1], place[2]>>
  BY <1>1, PatternsDiffer
<1>3. /\ place' # FirstPlace /\ PatternBefore' = place[2]
      /\ place[2] < Len(patterns) => place'[1] = place[1] /\ place'[2] = place[2] + 1
      /\ ~(place[2] < Len(patterns)) => place'[1] = place[1] + 1 /\ place'[2] = 1
                                        /\ place[2] = Len(patterns)
  BY <1>1, SerialNextPlace
<1>4. /\ Outstanding' \in Seq(Byte) /\ Len(Outstanding) \in Nat
      /\ ret = 1 => /\ plugged /\ Len(Outstanding') = Len(Outstanding) - 1
                    /\ \A k \in 1..Len(Outstanding) - 1 : Outstanding'[k] = Outstanding[k + 1]
      /\ ret # 1 => Outstanding' = Outstanding
  <2>1. ret = 1 <=> input # <<>>
    OBVIOUS
  <2>2. serialAt' # "read" /\ UNCHANGED <<plugged, pending, late>>
    OBVIOUS
  <2>3. QED
    BY <2>1, <2>2, SerialReadLeaves
<1>5. ASSUME late < Len(patterns)
      PROVE  /\ ret = 1 \/ place = FirstPlace
             /\ InStep => ret = 1 /\ Head(input).attempt = attempt /\ Len(Outstanding) = 1
             /\ \A n \in Nat : OutOfStep(n) /\ ret = 1 =>
                  /\ Len(Outstanding) # n => n < Len(Outstanding)
                  /\ Len(Outstanding) = n => place = FirstPlace /\ n = 1
  BY <1>5, SerialAccepts
<1>6. place' # FirstPlace => receiveChar' = patterns[PatternBefore']
  BY <1>3 DEF Accepted
<1>7. ASSUME ~plugged PROVE ~foreign'
  <2>1. ret # 1 /\ ret # -1
    BY <1>4, <1>7 DEF Accepted
  <2>2. receiveChar' = receiveChar /\ receiveChar' = patterns[place[2]]
    BY <2>1 DEF Accepted
  <2>3. place = FirstPlace
    BY <1>1, <2>2, PatternsDiffer DEF AttemptSound
  <2>4. QED
    BY <1>1, <1>7, <2>3 DEF AttemptSound
<1>8. ASSUME InStep, late < Len(patterns) PROVE InStep'
  <2>1. ~foreign'
    BY <1>5, <1>8 DEF InStep
  <2>2. Len(Outstanding') = 0
    <3>1. ret = 1 /\ Len(Outstanding) = 1
      BY <1>5, <1>8
    <3>2. Len(Outstanding') = Len(Outstanding) - 1
      BY <1>4, <3>1
    <3>3. QED
      BY <3>1, <3>2
  <2>3. Outstanding' = <<>>
    BY <1>4, <2>2, EmptySeq
  <2>4. QED
    BY <1>3, <2>1, <2>3 DEF InStep
<1>9. ASSUME NEW n \in Nat, OutOfStep(n), late < Len(patterns) PROVE InStep' \/ OutOfStep(n)'
  <2>1. /\ n <= Len(Outstanding) /\ n >= place[2] /\ (place[1] > 1 => n >= Len(patterns) + 1)
        /\ (n > 0 => Outstanding[Len(Outstanding) - n + 1].value = patterns[1])
        /\ (place = FirstPlace => ~foreign /\ n = 1)
    BY <1>2, <1>9 DEF OutOfStep
  \* The places.
  <2>2. n >= place'[2] - 1 /\ (place'[1] > 1 => n >= Len(patterns))
    BY <1>2, <1>3, <2>1
  <2>3. CASE ret = 1 /\ Len(Outstanding) = n
    <3>1. ~foreign' /\ Len(Outstanding') = 0
      BY <1>4, <1>5, <1>9, <2>1, <2>3
    <3>2. Outstanding' = <<>>
      BY <1>4, <3>1, EmptySeq
    <3>3. QED
      BY <1>3, <3>1, <3>2 DEF InStep
  <2>4. CASE ret = 1 /\ Len(Outstanding) # n
    <3>1. n <= Len(Outstanding')
      BY <1>4, <1>5, <1>9, <2>4
    <3>2. n > 0 => Outstanding'[Len(Outstanding') - n + 1].value = patterns[1]
      <4>1. ASSUME n > 0 PROVE /\ Len(Outstanding') - n + 1 \in 1..Len(Outstanding) - 1
                               /\ Len(Outstanding') - n + 1 + 1 = Len(Outstanding) - n + 1
        <5>1. Len(Outstanding') = Len(Outstanding) - 1 /\ Len(Outstanding) \in Nat /\ n \in Nat
          BY <1>4, <1>9, <2>4
        <5>2. QED
          BY <3>1, <4>1, <5>1
      <4>2. QED
        BY <1>4, <2>1, <2>4, <4>1
    <3>3. QED
      <4>1. /\ n >= place'[2] - (IF serialAt' = "write" THEN 1 ELSE 0)
            /\ place'[1] > 1 => n >= Len(patterns) + (IF serialAt' = "write" THEN 0 ELSE 1)
        BY <1>2, <2>2
      <4>2. QED
        BY <1>3, <3>1, <3>2, <4>1 DEF OutOfStep
  <2>5. CASE ret # 1
    <3>1. /\ n >= place'[2] - (IF serialAt' = "write" THEN 1 ELSE 0)
          /\ place'[1] > 1 => n >= Len(patterns) + (IF serialAt' = "write" THEN 0 ELSE 1)
      BY <1>2, <2>2
    <3>2. QED
      BY <1>3, <1>4, <2>1, <2>5, <3>1 DEF OutOfStep
  <2>6. QED
    BY <2>3, <2>4, <2>5
<1>10. ASSUME plugged', late' < Len(patterns) PROVE (InStep \/ \E n \in Nat : OutOfStep(n))'
  <2>1. plugged /\ late < Len(patterns)
    BY <1>10
  <2>2. InStep \/ \E n \in Nat : OutOfStep(n)
    BY <1>1, <2>1 DEF AttemptSound
  <2>3. QED
    BY <1>8, <1>9, <2>1, <2>2
<1>11. QED
  BY <1>6, <1>7, <1>10 DEF AttemptSound

LEMMA SerialReadKeeps ==
  ASSUME SerialIInv, Closed(report), SerialPortRead
  PROVE  SerialIInv' /\ Closed(report')
<1>1. /\ program = "serial" /\ program' = "serial" /\ serialAt = "read"
      /\ UNCHANGED <<opened, plugged, pending, attempt, late, unplugged>>
  BY SerialReads
<1>2. PICK ret \in {-1, 0, 1} :
        /\ IF ret = 1 THEN input # <<>> /\ receiveChar' = Head(input).value
                      ELSE input = <<>> /\ receiveChar' = receiveChar
        /\ foreign' = \/ foreign
                      \/ place # FirstPlace /\ (ret # 1 \/ Head(input).attempt # attempt)
        /\ \/ /\ ~Accepted(receiveChar', ret) /\ serialAt' = "failed" /\ place' = place
              /\ input' = (IF ret = 1 THEN Tail(input) ELSE input)
           \/ /\ Accepted(receiveChar', ret) /\ place = LastPlace /\ serialAt' = "passed"
              /\ place' = place /\ input' = <<>>
           \/ /\ Accepted(receiveChar', ret) /\ place # LastPlace /\ serialAt' = "write"
              /\ place' = NextPlace
              /\ input' = (IF ret = 1 THEN Tail(input) ELSE input)
  BY SerialReads
<1>3. /\ SerialTypes /\ FewOutstanding /\ AttemptSound /\ ByteReturns /\ NoLine(report, "serial")
      /\ late \in Nat
  BY <1>1 DEF SerialIInv, SerialTypes
<1>4. Closed(report') /\ NoLine(report', "serial")
  BY <1>3, SerialReadRows
<1>5. PassedMeansEchoed'
  <2>1. ~PassedLine(report', "serial")
    BY <1>4, NotPrintedNotPassed
  <2>2. QED
    BY <2>1 DEF PassedLine, Reported, PassedMeansEchoed
<1>6. ret = 1 <=> input # <<>>
  BY <1>2
<1>7. foreign' \in BOOLEAN /\ {opened', plugged', unplugged', foreign'} \subseteq BOOLEAN
  BY <1>1, <1>2, <1>3 DEF SerialTypes
<1>8. CASE ~Accepted(receiveChar', ret)
  <2>1. serialAt' = "failed" /\ place' = place /\ input' = (IF ret = 1 THEN Tail(input) ELSE input)
    BY <1>2, <1>8
  <2>2. FewOutstanding' /\ input' \in Seq(Byte)
    <3>1. serialAt' # "read" /\ UNCHANGED <<plugged, pending, late>>
      BY <1>1, <2>1
    <3>2. QED
      BY <1>1, <1>6, <2>1, <3>1, SerialReadLeaves
  <2>3. SerialTypes'
    BY <1>1, <1>3, <1>7, <2>1, <2>2 DEF SerialTypes
  <2>4. ASSUME late = 0, ~unplugged PROVE FALSE
    <3>1. input # <<>> /\ Head(input).value = patterns[place[2]]
      BY <1>1, <1>3, <2>4 DEF ByteReturns
    <3>2. QED
      BY <1>2, <1>6, <1>8, <3>1 DEF Accepted
  <2>5. SoundPortPasses'
    BY <1>1, <2>4 DEF SoundPortPasses
  <2>6. QED
    BY <1>1, <1>4, <1>5, <2>1, <2>2, <2>3, <2>5 DEF SerialIInv, AttemptSound, ByteReturns
<1>9. CASE Accepted(receiveChar', ret) /\ place = LastPlace
  <2>1. serialAt' = "passed" /\ place' = place /\ input' = <<>>
    BY <1>2, <1>9
  <2>2. /\ pending \in Seq(Byte) /\ Outstanding' = pending /\ Len(pending) \in Nat /\ Len(input) \in Nat
        /\ Len(Outstanding) = Len(input) + Len(pending)
    <3>1. pending \in Seq(Byte)
      BY <1>3 DEF SerialTypes
    <3>2. Outstanding' = <<>> \o pending
      BY <1>1, <2>1 DEF Outstanding
    <3>3. QED
      BY <1>3, <3>1, <3>2, BytesAre, ConcatEmptySeq
  <2>3. FewOutstanding'
    <3>1. Len(pending) <= late
      <4>1. input \in Seq(Byte)
        BY <1>3 DEF SerialTypes
      <4>2. CASE input = <<>>
        BY <1>1, <1>3, <2>2, <4>2 DEF FewOutstanding
      <4>3. CASE input # <<>>
        <5>1. Len(input) # 0
          BY <4>1, <4>3, EmptySeq
        <5>2. Len(Outstanding) <= late + 1
          BY <1>1, <1>3 DEF FewOutstanding
        <5>3. QED
          BY <1>3, <2>2, <5>1, <5>2
      <4>4. QED
        BY <4>2, <4>3
    <3>2. ~plugged => pending = <<>>
      <4>1. ASSUME ~plugged PROVE pending = <<>>
        <5>1. Outstanding = <<>>
          BY <1>3, <4>1 DEF FewOutstanding
        <5>2. Len(Outstanding) = 0
          BY <5>1
        <5>3. Len(pending) = 0
          <6>1. \A a, b \in Nat : a + b = 0 => b = 0
            OBVIOUS
          <6>2. QED
            BY <2>2, <5>2, <6>1, Zenon
        <5>4. QED
          BY <2>2, <5>3, EmptySeq
      <4>2. QED
        BY <4>1
    <3>3. Len(Outstanding') <= late' + 0
      BY <1>1, <1>3, <2>2, <3>1
    <3>4. QED
      BY <1>1, <2>1, <2>2, <3>2, <3>3 DEF FewOutstanding
  <2>4. SerialTypes'
    <3>1. <<>> \in Seq(Byte)
      BY EmptySeq
    <3>2. QED
      BY <1>1, <1>3, <1>7, <2>1, <3>1 DEF SerialTypes
  <2>5. late' < Len(patterns) => ~foreign'
    <3>1. ASSUME late < Len(patterns) PROVE ~foreign'
      <4>1. /\ ret = 1 \/ place = FirstPlace
            /\ InStep => ret = 1 /\ Head(input).attempt = attempt
            /\ ~plugged \/ InStep
        BY <1>1, <1>2, <1>9, <3>1, SerialAccepts
      <4>2. place # FirstPlace
        BY <1>3, <1>9, PatternsDiffer DEF LastPlace, FirstPlace
      <4>3. ret = 1 /\ plugged
        <5>1. ret = 1 /\ input # <<>>
          BY <1>6, <4>1, <4>2
        <5>2. Len(Outstanding) # 0
          BY <1>3, <5>1, BytesAre, EmptySeq DEF SerialTypes
        <5>3. QED
          BY <1>3, <5>1, <5>2, EmptySeq DEF FewOutstanding
      <4>4. InStep /\ ~foreign
        BY <4>1, <4>3 DEF InStep
      <4>5. QED
        BY <1>2, <4>1, <4>4
    <3>2. QED
      BY <1>1, <3>1
  <2>6. QED
    BY <1>1, <1>4, <1>5, <2>1, <2>3, <2>4, <2>5
    DEF SerialIInv, AttemptSound, ByteReturns, SoundPortPasses
<1>10. CASE Accepted(receiveChar', ret) /\ place # LastPlace
  <2>1. serialAt' = "write" /\ place' = NextPlace /\ input' = (IF ret = 1 THEN Tail(input) ELSE input)
    BY <1>2, <1>10
  <2>2. FewOutstanding' /\ input' \in Seq(Byte)
    <3>1. serialAt' # "read" /\ UNCHANGED <<plugged, pending, late>>
      BY <1>1, <2>1
    <3>2. QED
      BY <1>1, <1>6, <2>1, <3>1, SerialReadLeaves
  <2>3. SerialTypes'
    <3>1. place' \in (1..Settings) \X (1..Len(patterns))
      BY <1>3, <1>10, <2>1, SerialNextPlace
    <3>2. QED
      BY <1>1, <1>3, <1>7, <2>1, <2>2, <3>1 DEF SerialTypes
  <2>4. AttemptSound'
    BY <1>1, <1>2, <1>10, <2>1, SerialGoesOn
  <2>5. QED
    BY <1>1, <1>4, <1>5, <2>1, <2>2, <2>3, <2>4 DEF SerialIInv, ByteReturns, SoundPortPasses
<1>11. QED
  BY <1>8, <1>9, <1>10

LEMMA SerialReportKeeps ==
  ASSUME SerialIInv, Closed(report), SerialReport
  PROVE  SerialIInv' /\ Closed(report')
<1>1. /\ program = "serial" /\ serialAt \in {"failed", "passed"} /\ program' = "none" /\ serialAt' = "idle"
      /\ report' = Verdict(report, "serial", serialAt = "passed")
      /\ UNCHANGED <<opened, plugged, place, pending, input, attempt, late, unplugged, foreign>>
  BY DEF SerialReport
<1>2. SerialTypes /\ FewOutstanding /\ NoLine(report, "serial")
  BY <1>1 DEF SerialIInv
<1>3. Outstanding' = Outstanding
  BY <1>1 DEF Outstanding
<1>4. SerialTypes' /\ FewOutstanding'
  BY <1>1, <1>2, <1>3 DEF SerialTypes, FewOutstanding
<1>5. Closed(report')
  BY <1>1, VerdictCloses
<1>6. PassedMeansEchoed'
  <2>1. CASE serialAt = "failed"
    <3>1. report' = Verdict(report, "serial", FALSE)
      BY <1>1, <2>1
    <3>2. ~PassedLine(report', "serial")
      BY <1>2, <3>1, FailedNotPassed DEF Closed
    <3>3. QED
      BY <3>2 DEF PassedLine, Reported, PassedMeansEchoed
  <2>2. CASE serialAt = "passed"
    BY <1>1, <2>2 DEF SerialIInv, PassedMeansEchoed
  <2>3. QED
    BY <1>1, <2>1, <2>2
<1>7. QED
  BY <1>1, <1>4, <1>5, <1>6 DEF SerialIInv, AttemptSound, ByteReturns, SoundPortPasses

LEMMA SerialKeeps ==
  ASSUME SerialIInv, Closed(report), SerialNext
  PROVE  /\ SerialIInv' /\ Closed(report') /\ program \in {"ready", "serial"}
         /\ program' \in {"serial", "none"}
<1>1. program \in {"ready", "serial"} /\ program' \in {"serial", "none"}
  BY DEF SerialNext, SerialStart, OpenSerialPort, WriteFails, SerialPortWrite, ReturnLate,
         SerialPortRead, Retry, SerialReport
<1>2. CASE SerialStart
  BY <1>1, <1>2, SerialStartKeeps
<1>3. CASE OpenSerialPort
  BY <1>1, <1>3, SerialOpens
<1>4. CASE WriteFails \/ ReturnLate \/ Retry
  BY <1>1, <1>4, SerialWaits
<1>5. CASE SerialPortWrite
  <2>1. report' = report
    BY <1>5 DEF SerialPortWrite
  <2>2. QED
    BY <1>1, <1>5, <2>1, SerialWriteKeeps
<1>6. CASE SerialPortRead
  BY <1>1, <1>6, SerialReadKeeps
<1>7. CASE SerialReport
  BY <1>1, <1>7, SerialReportKeeps
<1>8. QED
  BY <1>2, <1>3, <1>4, <1>5, <1>6, <1>7 DEF SerialNext

LEMMA SerialRests ==
  ASSUME SerialIInv, program \notin {"serial", "none"}, program' # "serial", UNCHANGED serialVars
  PROVE  SerialIInv'
<1>1. /\ UNCHANGED <<serialAt, opened, plugged, place, pending, input, receiveChar, attempt, late,
                     unplugged, foreign>>
      /\ serialAt = "idle" /\ ~foreign /\ SerialTypes /\ FewOutstanding
  BY DEF serialVars, SerialIInv
<1>2. Outstanding' = Outstanding
  BY <1>1 DEF Outstanding
<1>3. SerialTypes' /\ FewOutstanding'
  BY <1>1, <1>2 DEF SerialTypes, FewOutstanding
<1>4. QED
  BY <1>1, <1>3
  DEF SerialIInv, AttemptSound, ByteReturns, PassedMeansEchoed, SoundPortPasses

LEMMA SerialBegins == Init => SerialIInv
<1>1. ASSUME Init PROVE SerialIInv
  <2>1. /\ serialAt = "idle" /\ opened = FALSE /\ plugged = TRUE /\ place = FirstPlace
        /\ pending = <<>> /\ input = <<>> /\ attempt = 0
        /\ late = 0 /\ unplugged = FALSE /\ foreign = FALSE /\ program = "ready"
    BY <1>1 DEF Init, SerialInit, OutputInit
  <2>2. FirstPlace \in (1..Settings) \X (1..Len(patterns))
    <3>1. Settings \in Nat \ {0} /\ Len(patterns) \in Nat /\ Len(patterns) > 1
      BY SerialAssumption, LenProperties
    <3>2. QED
      BY <3>1 DEF FirstPlace
  <2>3. <<>> \in Seq(Byte) /\ <<>> \o <<>> = <<>> /\ Len(<<>>) = 0
    BY ConcatEmptySeq, EmptySeq
  <2>4. SerialTypes
    BY <2>1, <2>2, <2>3 DEF SerialTypes
  <2>5. FewOutstanding
    BY <2>1, <2>3 DEF FewOutstanding, Outstanding
  <2>6. QED
    BY <2>1, <2>4, <2>5 DEF SerialIInv, AttemptSound, ByteReturns, PassedMeansEchoed, SoundPortPasses
<1>2. QED
  BY <1>1

-----------------------------------------------------------------------------------
(* The drives *)

\* What a place of a drive of n places can hold.
Contents(n, m) ==
  {Junk} \cup {<<"old", q>> : q \in 0..n - 1} \cup {<<"new", k>> : k \in 0..m - 1}

DriveTypes ==
  /\ driveAt \in {"next", "regions", "verdict"} /\ request \in Nat /\ ioFails \in Nat
  /\ \E n \in DriveSizes \cup {BlockSize} : content \in [0..n - 1 -> Contents(n, size)]
  /\ IsFiniteSet(regions) /\ regions \subseteq {"begin", "center", "final"} \X (0..ULongLong - 1)
  /\ equal \in Seq(BOOLEAN) /\ Len(equal) + Cardinality(regions) <= 3
  /\ program = "drive" => deviceSize \in DriveSizes

\* Also between the regions, all that was read back as the pattern is again as it was.
Restored == ioFails = 0 => \A p \in Places \ (unrestored \cup bad) : content[p] = <<"old", p>>

\* While a drive is tested, the results are those of the regions that were tested.
ThreeRegions == {<<"begin", 0>>, <<"center", Center>>, <<"final", Final>>}
Tested(results, left) ==
  (\E k \in DOMAIN results : results[k]) <=> \E r \in ThreeRegions \ left : SoundRegion(r[2])
RegionsRight ==
  driveAt # "next" /\ ioFails = 0 =>
    /\ regions \subseteq ThreeRegions
    /\ Center + size <= deviceSize => Tested(equal, regions)
    /\ driveAt = "verdict" => regions = {}

DriveIInv ==
  /\ DriveTypes /\ Restored /\ RegionsRight /\ DriveVerdictHonest
  /\ program \notin {"drive", "none"} =>
       /\ driveAt = "next" /\ equal = <<>> /\ ioFails = 0 /\ unrestored = {} /\ regions = {}
       /\ content = Fresh(BlockSize)
  /\ program = "none" => driveAt = "next"

\* A line waits for its status only while the regions of its drive are tested.
RowsKept == IF program = "drive" /\ driveAt # "next" THEN Open(report) ELSE Closed(report)

LEMMA Division ==
  ASSUME NEW a \in Nat, NEW b \in Nat \ {0}
  PROVE  a \div b \in Nat
OBVIOUS

LEMMA Product ==
  ASSUME NEW a \in Nat, NEW b \in Nat
  PROVE  a * b \in Nat
OBVIOUS

LEMMA SizePositive ==
  ASSUME request \in Nat
  PROVE  size \in Nat \ {0}
<1> DEFINE d == (2 * request + BlockSize) \div (2 * BlockSize)
           n == d * BlockSize
<1>1. BlockSize \in Nat \ {0}
  BY DriveAssumption
<1>2. 2 * request + BlockSize \in Nat /\ 2 * BlockSize \in Nat \ {0}
  BY <1>1
<1>3. d \in Nat
  BY <1>2, Division
<1>4. n \in Nat
  BY <1>1, <1>3, Product
<1>5. size = IF n = 0 THEN BlockSize ELSE n
  BY DEF size, NearestBlockSize
<1> HIDE DEF n
<1>6. QED
  BY <1>1, <1>4, <1>5

LEMMA PlacesAre ==
  ASSUME DriveTypes
  PROVE  /\ \E n \in DriveSizes \cup {BlockSize} :
              /\ n \in Nat \ {0} /\ Places = 0..n - 1 /\ deviceSize = n
              /\ content \in [0..n - 1 -> Contents(n, size)]
         /\ size \in Nat \ {0} /\ ULongLong \in Nat
<1>1. PICK n \in DriveSizes \cup {BlockSize} : content \in [0..n - 1 -> Contents(n, size)]
  BY DEF DriveTypes
<1>2. n \in Nat \ {0} /\ ULongLong \in Nat
  BY DriveAssumption
<1>3. Places = 0..n - 1
  BY <1>1 DEF Places
<1>4. deviceSize = n
  <2>1. Cardinality(0..n - 1) = IF 0 > n - 1 THEN 0 ELSE n - 1 - 0 + 1
    <3>1. 0 \in Int /\ n - 1 \in Int
      BY <1>2
    <3>2. QED
      BY <3>1, FS_Interval, Zenon
  <2>2. QED
    BY <1>2, <1>3, <2>1 DEF deviceSize
<1>5. QED
  BY <1>1, <1>2, <1>3, <1>4, SizePositive DEF DriveTypes

\* A drive whose places hold what they held at first.
LEMMA FreshIs ==
  ASSUME NEW n \in DriveSizes \cup {BlockSize}, NEW m
  PROVE  /\ Fresh(n) \in [0..n - 1 -> Contents(n, m)] /\ DOMAIN Fresh(n) = 0..n - 1
         /\ \A p \in 0..n - 1 : Fresh(n)[p] = <<"old", p>>
         /\ n \in Nat /\ Cardinality(0..n - 1) = n
<1>1. n \in Nat \ {0}
  BY DriveAssumption
<1>2. Cardinality(0..n - 1) = IF 0 > n - 1 THEN 0 ELSE n - 1 - 0 + 1
  <2>1. 0 \in Int /\ n - 1 \in Int
    BY <1>1
  <2>2. QED
    BY <2>1, FS_Interval, Zenon
<1>3. QED
  BY <1>1, <1>2 DEF Fresh, Contents

\* What is read and written has the kinds of contents there are.
LEMMA SeekNat ==
  ASSUME NEW begin \in Nat
  PROVE  Seek(begin) \in Nat
BY DEF Seek

LEMMA ReadType ==
  ASSUME NEW n \in Nat, NEW drive \in [0..n - 1 -> Contents(n, size)], NEW begin \in Nat,
         NEW bytes \in [0..size - 1 -> Contents(n, size)], size \in Nat
  PROVE  Read(drive, begin, bytes) \in [0..size - 1 -> Contents(n, size)]
<1> DEFINE C == Contents(n, size)
           m == size
           s == Seek(begin)
<1>1. Junk \in C
  BY DEF Contents
<1>2. Read(drive, begin, bytes) =
        IF Beyond(begin) THEN bytes
        ELSE [k \in 0..m - 1 |-> IF s + k \notin DOMAIN drive THEN bytes[k]
                                 ELSE IF s + k \in bad THEN Junk ELSE drive[s + k]]
  BY DEF Read
<1> HIDE DEF C, m, s
<1>3. drive \in [0..n - 1 -> C] /\ bytes \in [0..m - 1 -> C]
  BY DEF C, m
<1>4. QED
  BY <1>1, <1>2, <1>3 DEF C, m

LEMMA WriteType ==
  ASSUME NEW n \in Nat, NEW drive \in [0..n - 1 -> Contents(n, size)], NEW begin \in Nat,
         NEW bytes \in [0..size - 1 -> Contents(n, size)], size \in Nat
  PROVE  Write(drive, begin, bytes) \in [0..n - 1 -> Contents(n, size)]
<1> DEFINE C == Contents(n, size)
           m == size
           s == Seek(begin)
<1>1. Write(drive, begin, bytes) =
        IF Beyond(begin) THEN drive
        ELSE [p \in DOMAIN drive |-> IF p - s \in 0..m - 1 THEN bytes[p - s] ELSE drive[p]]
  BY DEF Write
<1> HIDE DEF C, m, s
<1>2. drive \in [0..n - 1 -> C] /\ bytes \in [0..m - 1 -> C]
  BY DEF C, m
<1>3. QED
  BY <1>1, <1>2 DEF C

LEMMA UninitializedType ==
  ASSUME NEW n \in Nat, NEW old \in Uninitialized
  PROVE  /\ old \in [0..size - 1 -> Contents(n, size)]
         /\ Pattern \in [0..size - 1 -> Contents(n, size)]
<1>1. \A k \in 0..size - 1 : <<"new", k>> \in Contents(n, size) /\ Junk \in Contents(n, size)
  BY DEF Contents
<1>2. old = Pattern \/ old = [k \in 0..size - 1 |-> Junk]
  BY DEF Uninitialized
<1>3. QED
  BY <1>1, <1>2 DEF Pattern

\* What a region's test leaves, whatever call fails.
LEMMA RegionTypes ==
  ASSUME NEW n \in Nat, content \in [0..n - 1 -> Contents(n, size)], size \in Nat,
         NEW begin \in Nat, NEW broken, WriteAndRestore(begin, broken)
  PROVE  /\ content' \in [0..n - 1 -> Contents(n, size)]
         /\ \E same \in BOOLEAN : equal' = Append(equal, same)
<1> DEFINE Saved(old) == IF 1 \in broken THEN old ELSE Read(content, begin, old)
           NowThere    == IF 2 \in broken THEN content ELSE Write(content, begin, Pattern)
           Compared(back) == IF 3 \in broken THEN back ELSE Read(NowThere, begin, back)
           Same(back) == Compared(back) = Pattern
<1>1. PICK old \in Uninitialized, back \in Uninitialized :
        /\ content' = (IF Same(back) /\ 4 \notin broken THEN Write(NowThere, begin, Saved(old)) ELSE NowThere)
        /\ equal' = Append(equal, Same(back))
  BY DEF WriteAndRestore
<1>2. Pattern \in [0..size - 1 -> Contents(n, size)] /\ old \in [0..size - 1 -> Contents(n, size)]
  BY UninitializedType
<1>3. Saved(old) \in [0..size - 1 -> Contents(n, size)]
  BY <1>2, ReadType
<1>4. NowThere \in [0..n - 1 -> Contents(n, size)]
  BY <1>2, WriteType
<1>5. Same(back) \in BOOLEAN
  OBVIOUS
<1> HIDE DEF Saved, NowThere, Same
<1>6. Write(NowThere, begin, Saved(old)) \in [0..n - 1 -> Contents(n, size)]
  BY <1>3, <1>4, WriteType
<1>7. QED
  BY <1>1, <1>4, <1>5, <1>6

\* When no call fails, a region is either read back as the pattern and is again what it was,
\* or is among those that are not restored; and if it lies on the drive, the first is so
\* exactly if it has no faulty place.
Stored(begin, same) ==
  /\ same => content' = content /\ unrestored' = unrestored
  /\ ~same => /\ unrestored' = unrestored \cup (Seek(begin)..Seek(begin) + size - 1)
              /\ \A p \in DOMAIN content \ unrestored' : content'[p] = content[p]
  /\ begin + size <= deviceSize => (same <=> SoundRegion(begin))

LEMMA RegionTested ==
  ASSUME NEW n \in Nat, 2 * n < ULongLong, deviceSize = n, ULongLong \in Nat,
         content \in [0..n - 1 -> Contents(n, size)], size \in Nat \ {0}, NEW begin \in Nat,
         WriteAndRestore(begin, {})
  PROVE  \E same \in BOOLEAN : equal' = Append(equal, same) /\ Stored(begin, same)
<1> DEFINE s == Seek(begin)
           m == size
           C == Contents(n, size)
           Saved(old) == Read(content, begin, old)
           written    == Write(content, begin, Pattern)
           Compared(back) == Read(written, begin, back)
           Same(back) == Compared(back) = Pattern
<1>1. PICK old \in Uninitialized, back \in Uninitialized :
        /\ content' = (IF Same(back) THEN Write(written, begin, Saved(old)) ELSE written)
        /\ equal' = Append(equal, Same(back))
        /\ unrestored' = (IF Same(back) THEN unrestored ELSE unrestored \cup (s..s + m - 1))
  BY DEF WriteAndRestore
<1>2. m \in Nat \ {0} /\ s \in Nat /\ content \in [0..n - 1 -> C]
  BY SeekNat
<1>3. Pattern = [k \in 0..m - 1 |-> <<"new", k>>] /\ \A k \in 0..m - 1 : <<"new", k>> # Junk
  BY DEF Pattern, Junk
<1>4. \A drive, bytes :
        /\ Beyond(begin) => Write(drive, begin, bytes) = drive /\ Read(drive, begin, bytes) = bytes
        /\ ~Beyond(begin) =>
             /\ Write(drive, begin, bytes)
                  = [p \in DOMAIN drive |-> IF p - s \in 0..m - 1 THEN bytes[p - s] ELSE drive[p]]
             /\ Read(drive, begin, bytes)
                  = [k \in 0..m - 1 |-> IF s + k \notin DOMAIN drive THEN bytes[k]
                                        ELSE IF s + k \in bad THEN Junk ELSE drive[s + k]]
  BY DEF Write, Read
<1>5. Same(back) \in BOOLEAN
  OBVIOUS
<1>6. begin + size <= deviceSize => ~Beyond(begin) /\ s = begin
  <2>1. ASSUME begin + size <= deviceSize PROVE ~Beyond(begin) /\ s = begin
    <3>1. begin + size < ULongLong /\ begin + size \in Nat
      BY <2>1
    <3>2. (begin + size) % ULongLong = begin + size
      BY <3>1
    <3>3. ~Beyond(begin)
      BY <2>1, <3>2 DEF Beyond
    <3>4. 2 * begin + 2 < ULongLong
      BY <2>1
    <3>5. ~(begin >= ULongLong \div 2)
      BY <3>4
    <3>6. QED
      BY <3>3, <3>5 DEF Seek
  <2>2. QED
    BY <2>1
<1>7. CASE Beyond(begin)
  <2>1. content' = content
    BY <1>1, <1>4, <1>7
  <2>2. QED
    BY <1>1, <1>5, <1>6, <1>7, <2>1 DEF Stored
<1>8. CASE ~Beyond(begin)
  <2> DEFINE drive == written
             saved == Saved(old)
             compared == Compared(back)
             same == Same(back)
  <2>1. drive = [p \in 0..n - 1 |-> IF p - s \in 0..m - 1 THEN Pattern[p - s] ELSE content[p]]
    BY SMTT(30), <1>2, <1>4, <1>8
  <2>2. saved = [k \in 0..m - 1 |-> IF s + k \notin 0..n - 1 THEN old[k]
                                    ELSE IF s + k \in bad THEN Junk ELSE content[s + k]]
    BY SMTT(30), <1>2, <1>4, <1>8
  <2>3. DOMAIN drive = 0..n - 1
    BY <2>1
  <2>4. compared = [k \in 0..m - 1 |-> IF s + k \notin 0..n - 1 THEN back[k]
                                       ELSE IF s + k \in bad THEN Junk ELSE drive[s + k]]
    BY <1>4, <1>8, <2>3
  <2>5. Write(drive, begin, saved)
          = [p \in 0..n - 1 |-> IF p - s \in 0..m - 1 THEN saved[p - s] ELSE drive[p]]
    BY <1>4, <1>8, <2>3
  <2>6. /\ content' = (IF same THEN Write(drive, begin, saved) ELSE drive)
        /\ equal' = Append(equal, same) /\ same = (compared = Pattern)
        /\ unrestored' = (IF same THEN unrestored ELSE unrestored \cup (s..s + m - 1))
    BY <1>1
  <2> HIDE DEF m, s, C, Saved, written, Compared, Same, drive, saved, compared, same
  <2>7. ASSUME same, NEW k \in 0..m - 1, s + k \in 0..n - 1 PROVE s + k \notin bad
    <3>1. compared[k] = <<"new", k>> /\ <<"new", k>> # Junk
      BY <1>3, <2>6, <2>7
    <3>2. QED
      BY <2>4, <2>7, <3>1
  <2>8. ASSUME same PROVE content' = content
    <3>1. ASSUME NEW p \in 0..n - 1 PROVE Write(drive, begin, saved)[p] = content[p]
      <4>1. CASE p - s \in 0..m - 1
        <5>1. s + (p - s) = p
          BY <1>2
        <5>2. p \notin bad
          BY <2>7, <2>8, <4>1, <5>1
        <5>3. saved[p - s] = content[p]
          BY <2>2, <4>1, <5>1, <5>2
        <5>4. QED
          BY <2>5, <4>1, <5>3
      <4>2. CASE p - s \notin 0..m - 1
        BY <2>1, <2>5, <4>2
      <4>3. QED
        BY <4>1, <4>2
    <3>2. content' = [p \in 0..n - 1 |-> content[p]]
      BY <2>5, <2>6, <2>8, <3>1
    <3>3. QED
      BY <1>2, <3>2
  <2>9. ASSUME ~same, NEW p \in DOMAIN content \ unrestored' PROVE content'[p] = content[p]
    <3>1. p \in 0..n - 1 /\ p \notin s..s + m - 1
      BY <1>2, <2>6, <2>9
    <3>2. p - s \notin 0..m - 1
      BY <1>2, <3>1
    <3>3. QED
      BY <2>1, <2>6, <2>9, <3>1, <3>2
  <2>10. ASSUME begin + m <= n PROVE same <=> SoundRegion(begin)
    <3>1. s = begin
      BY <1>6, <2>10 DEF m
    <3>2. \A k \in 0..m - 1 : s + k \in 0..n - 1
      BY <1>2, <2>10, <3>1
    <3>3. SoundRegion(begin) <=> \A k \in 0..m - 1 : s + k \notin bad
      BY <3>1 DEF SoundRegion, m
    <3>4. ASSUME \A k \in 0..m - 1 : s + k \notin bad PROVE same
      <4>1. ASSUME NEW k \in 0..m - 1 PROVE compared[k] = <<"new", k>>
        <5>1. s + k \in 0..n - 1 /\ s + k \notin bad /\ (s + k) - s = k
          BY <1>2, <3>2, <3>4
        <5>2. compared[k] = drive[s + k]
          BY <2>4, <5>1
        <5>3. drive[s + k] = Pattern[k]
          BY <2>1, <5>1
        <5>4. QED
          BY <1>3, <5>2, <5>3
      <4>2. compared = [k \in 0..m - 1 |-> <<"new", k>>]
        BY <2>4, <4>1
      <4>3. QED
        BY <1>3, <2>6, <4>2
    <3>5. QED
      BY <2>7, <3>2, <3>3, <3>4
  <2>11. Stored(begin, same)
    <3>1. begin + size <= deviceSize => (same <=> SoundRegion(begin))
      BY <2>10 DEF m
    <3>2. ~same => unrestored' = unrestored \cup (Seek(begin)..Seek(begin) + size - 1)
      BY <2>6 DEF s, m
    <3>3. same => unrestored' = unrestored
      BY <2>6
    <3>4. QED
      BY <2>8, <2>9, <3>1, <3>2, <3>3 DEF Stored
  <2>12. same \in BOOLEAN
    BY <2>6
  <2>13. QED
    BY <2>6, <2>11, <2>12
<1>9. QED
  BY <1>7, <1>8

LEMMA DriveEndsKeeps ==
  ASSUME DriveIInv, Closed(report), NEW r, Closed(r), DriveEnds(r), driveAt = "next",
         \/ program = "ready" /\ request' \in Nat
         \/ program = "drive" /\ request' = request /\ r = report
  PROVE  DriveIInv' /\ RowsKept'
<1>1. /\ program' = "none" /\ report' = r
      /\ UNCHANGED <<driveAt, regions, content, bad, equal, ioFails, unrestored>>
  BY DEF DriveEnds
<1>2. RowsKept'
  BY <1>1 DEF RowsKept
<1>3. DriveTypes /\ Restored
  BY DEF DriveIInv
<1>4. Places' = Places /\ deviceSize' = deviceSize
  BY <1>1 DEF Places, deviceSize
<1>5. Restored' /\ RegionsRight'
  BY <1>1, <1>3, <1>4 DEF Restored, RegionsRight
<1>6. CASE program = "ready" /\ request' \in Nat
  <2>1. equal = <<>> /\ content = Fresh(BlockSize)
    BY <1>6 DEF DriveIInv
  <2>2. content' \in [0..BlockSize - 1 -> Contents(BlockSize, size')]
    BY <1>1, <2>1, FreshIs
  <2>3. DriveTypes'
    BY <1>1, <1>3, <1>6, <2>2 DEF DriveTypes
  <2>4. DriveVerdictHonest'
    BY <1>1, <2>1 DEF DriveVerdictHonest
  <2>5. QED
    BY <1>1, <1>2, <1>5, <2>3, <2>4 DEF DriveIInv
<1>7. CASE program = "drive" /\ request' = request /\ r = report
  <2>1. size' = size
    BY <1>7 DEF size, NearestBlockSize
  <2>2. DriveTypes'
    BY <1>1, <1>3, <1>7, <2>1 DEF DriveTypes
  <2>3. DriveVerdictHonest'
    <3>1. Center' = Center /\ Final' = Final /\ \A b : SoundRegion(b)' = SoundRegion(b)
      BY <1>1, <1>4, <2>1 DEF Center, Final, SoundRegion
    <3>2. QED
      BY <1>1, <1>4, <1>7, <2>1, <3>1 DEF DriveVerdictHonest, DriveIInv
  <2>4. QED
    BY <1>1, <1>2, <1>5, <2>2, <2>3 DEF DriveIInv
<1>8. QED
  BY <1>6, <1>7

LEMMA DriveStartKeeps ==
  ASSUME DriveIInv, Closed(report), DriveStart
  PROVE  DriveIInv' /\ RowsKept'
<1>1. program = "ready" /\ request' \in Nat /\ driveAt = "next"
  BY DriveAssumption DEF DriveStart, DriveIInv
<1> DEFINE wrong == Verdict(Before, "Drive Test", FALSE)
           none  == Refused("Drive Test")
<1>2. Closed(wrong) /\ Closed(none)
  BY BeforeClosed, VerdictCloses, DiagnosticKeepsClosed DEF Refused
<1>3. CASE DriveEnds(wrong) \/ DriveEnds(none)
  BY <1>1, <1>2, <1>3, DriveEndsKeeps
<1>4. CASE /\ program' = "drive" /\ report' = Before
           /\ content' \in {Fresh(n) : n \in DriveSizes} /\ bad' \in FaultyPlaces
           /\ driveAt' = "next" /\ ioFails' = 0 /\ regions' = {} /\ equal' = <<>>
           /\ unrestored' = {}
  <2>1. PICK n \in DriveSizes : content' = Fresh(n)
    BY <1>4
  <2>2. /\ content' \in [0..n - 1 -> Contents(n, size')] /\ DOMAIN content' = 0..n - 1
        /\ \A p \in 0..n - 1 : content'[p] = <<"old", p>>
        /\ Cardinality(0..n - 1) = n
    BY <2>1, FreshIs
  <2>3. deviceSize' = n /\ Places' = 0..n - 1
    BY <2>2 DEF deviceSize, Places
  <2>4. IsFiniteSet({}) /\ Cardinality({}) = 0 /\ Len(<<>>) = 0 /\ <<>> \in Seq(BOOLEAN)
    BY FS_EmptySet, EmptySeq
  <2>5. DriveTypes'
    BY <1>1, <1>4, <2>2, <2>3, <2>4 DEF DriveTypes
  <2>6. Restored'
    BY <2>2, <2>3 DEF Restored
  <2>7. QED
    BY <1>4, <2>5, <2>6, BeforeClosed DEF DriveIInv, RegionsRight, DriveVerdictHonest, RowsKept
<1>5. QED
  BY <1>3, <1>4 DEF DriveStart

LEMMA InvalidDriveKeeps ==
  ASSUME DriveIInv, Closed(report), InvalidDrive
  PROVE  DriveIInv' /\ RowsKept'
<1>1. /\ program = "drive" /\ program' = "drive" /\ driveAt = "next" /\ ioFails' = ioFails + 1
      /\ report' = diagnosticPrint(Verdict(report, Head(todo), FALSE), "reason") /\ equal' = <<>>
      /\ UNCHANGED <<driveAt, request, regions, content, bad, unrestored>>
  BY DEF InvalidDrive
<1>2. DriveTypes
  BY DEF DriveIInv
<1>3. Closed(report')
  BY <1>1, VerdictCloses, DiagnosticKeepsClosed
<1>4. size' = size /\ deviceSize' = deviceSize
  BY <1>1 DEF size, NearestBlockSize, deviceSize, Places
<1>5. ioFails' \in Nat /\ ioFails' # 0
  BY <1>1, <1>2 DEF DriveTypes
<1>6. equal' \in Seq(BOOLEAN) /\ Len(equal') + Cardinality(regions') <= 3
  <2>1. Cardinality(regions) \in Nat
    BY <1>2, FS_CardinalityType DEF DriveTypes
  <2>2. Len(equal) \in Nat /\ Len(equal) + Cardinality(regions) <= 3
    BY <1>2, LenProperties DEF DriveTypes
  <2>3. equal' \in Seq(BOOLEAN) /\ Len(equal') = 0
    BY <1>1, EmptySeq
  <2>4. Cardinality(regions') = Cardinality(regions)
    BY <1>1
  <2>5. QED
    BY <2>1, <2>2, <2>3, <2>4
<1>7. DriveTypes'
  BY <1>1, <1>2, <1>4, <1>5, <1>6 DEF DriveTypes
<1>8. QED
  BY <1>1, <1>3, <1>5, <1>7 DEF DriveIInv, Restored, RegionsRight, DriveVerdictHonest, RowsKept

\* Where the regions begin.
LEMMA RegionPlaces ==
  ASSUME DriveTypes, program = "drive"
  PROVE  /\ Center \in 0..ULongLong - 1 /\ Final \in 0..ULongLong - 1 /\ 0 \in 0..ULongLong - 1
         /\ Center + size <= deviceSize => 0 + size <= deviceSize /\ Final + size <= deviceSize
         /\ deviceSize \in Nat /\ 2 * deviceSize < ULongLong /\ ULongLong \in Nat /\ size \in Nat \ {0}
<1>1. /\ deviceSize \in Nat \ {0} /\ size \in Nat \ {0} /\ ULongLong \in Nat
      /\ 2 * deviceSize < ULongLong
  BY PlacesAre, DriveAssumption DEF DriveTypes
<1>2. Center = deviceSize \div 2 /\ Final = (deviceSize - size) % ULongLong
  BY DEF Center, Final
<1>3. Center \in 0..ULongLong - 1
  BY <1>1, <1>2
<1>4. Final \in 0..ULongLong - 1
  <2>1. deviceSize - size \in Int /\ ULongLong \in Nat \ {0}
    BY <1>1
  <2>2. QED
    BY <1>2, <2>1
<1>5. ASSUME Center + size <= deviceSize PROVE 0 + size <= deviceSize /\ Final + size <= deviceSize
  <2>1. 0 + size <= deviceSize /\ deviceSize - size \in Nat /\ deviceSize - size < ULongLong
    BY <1>1, <1>3, <1>5
  <2>2. (deviceSize - size) % ULongLong = deviceSize - size
    BY <1>1, <2>1
  <2>3. QED
    BY <1>1, <1>2, <2>1, <2>2
<1>6. QED
  BY <1>1, <1>3, <1>4, <1>5

LEMMA OneMore ==
  ASSUME NEW S, NEW x, NEW n \in Nat, IsFiniteSet(S), Cardinality(S) \in 0..n
  PROVE  IsFiniteSet(S \cup {x}) /\ Cardinality(S \cup {x}) \in 0..n + 1
<1>1. /\ IsFiniteSet(S \cup {x})
      /\ Cardinality(S \cup {x}) = IF x \in S THEN Cardinality(S) ELSE Cardinality(S) + 1
  BY FS_AddElement
<1>2. QED
  BY <1>1

LEMMA TestBlockDeviceKeeps ==
  ASSUME DriveIInv, Closed(report), TestBlockDevice
  PROVE  DriveIInv' /\ RowsKept'
<1> DEFINE before == IF size # request THEN diagnosticPrint(report, "adjusted") ELSE report
<1>1. /\ program = "drive" /\ program' = "drive" /\ driveAt' = "regions"
      /\ report' = testPrint(before, Head(todo)) /\ content' = Fresh(deviceSize)
      /\ equal' = <<>> /\ unrestored' = {} /\ request' = request /\ bad' = bad
  BY DEF TestBlockDevice
<1>2. PICK c \in {Center, 0}, f \in {Final, 0} :
        /\ regions' = {<<"begin", 0>>, <<"center", c>>, <<"final", f>>}
        /\ ioFails' = ioFails + (IF c # Center \/ f # Final THEN 1 ELSE 0)
  BY DEF TestBlockDevice
<1>3. DriveTypes /\ ioFails \in Nat
  BY DEF DriveIInv, DriveTypes
<1>4. Open(report')
  <2>1. Closed(before)
    BY DiagnosticKeepsClosed
  <2> HIDE DEF before
  <2>2. QED
    BY <1>1, <2>1, LineOpens
<1>5. /\ Center \in 0..ULongLong - 1 /\ Final \in 0..ULongLong - 1 /\ 0 \in 0..ULongLong - 1
      /\ deviceSize \in DriveSizes
  BY <1>1, <1>3, RegionPlaces DEF DriveTypes
<1>6. size' = size
  BY <1>1 DEF size, NearestBlockSize
<1>7. /\ content' \in [0..deviceSize - 1 -> Contents(deviceSize, size')]
      /\ DOMAIN content' = 0..deviceSize - 1
      /\ \A p \in 0..deviceSize - 1 : content'[p] = <<"old", p>>
      /\ Cardinality(0..deviceSize - 1) = deviceSize
  <2> DEFINE n == deviceSize
  <2>1. n \in DriveSizes \cup {BlockSize} /\ content' = Fresh(n)
    BY <1>1, <1>5
  <2> HIDE DEF n
  <2>2. /\ content' \in [0..n - 1 -> Contents(n, size')] /\ DOMAIN content' = 0..n - 1
        /\ \A p \in 0..n - 1 : content'[p] = <<"old", p>>
        /\ Cardinality(0..n - 1) = n
    BY <2>1, FreshIs
  <2>3. QED
    BY <2>2 DEF n
<1>8. deviceSize' = deviceSize /\ Places' = 0..deviceSize - 1
  BY <1>7 DEF deviceSize, Places
<1>9. Center' = Center /\ Final' = Final
  BY <1>6, <1>8 DEF Center, Final
<1>10. ioFails' \in Nat /\ (ioFails' = 0 => ioFails = 0 /\ c = Center /\ f = Final)
  BY <1>2, <1>3
<1>11. IsFiniteSet(regions') /\ Cardinality(regions') <= 3 /\ Cardinality(regions') \in Nat
  <2> DEFINE a == <<"begin", 0>>
             b == <<"center", c>>
             d == <<"final", f>>
  <2>1. regions' = (({} \cup {a}) \cup {b}) \cup {d}
    BY <1>2
  <2> HIDE DEF a, b, d
  <2>2. IsFiniteSet({}) /\ Cardinality({}) = 0
    BY FS_EmptySet
  <2>3. IsFiniteSet({} \cup {a}) /\ Cardinality({} \cup {a}) \in 0..1
    <3> DEFINE S == {}
    <3>1. IsFiniteSet(S) /\ Cardinality(S) \in 0..0
      BY <2>2
    <3> HIDE DEF S
    <3>2. IsFiniteSet(S \cup {a}) /\ Cardinality(S \cup {a}) \in 0..0 + 1
      BY <3>1, OneMore
    <3>3. QED
      BY <3>2 DEF S
  <2>4. IsFiniteSet(({} \cup {a}) \cup {b}) /\ Cardinality(({} \cup {a}) \cup {b}) \in 0..2
    <3> DEFINE S == {} \cup {a}
    <3>1. IsFiniteSet(S) /\ Cardinality(S) \in 0..1
      BY <2>3
    <3> HIDE DEF S
    <3>2. IsFiniteSet(S \cup {b}) /\ Cardinality(S \cup {b}) \in 0..1 + 1
      BY <3>1, OneMore
    <3>3. QED
      BY <3>2 DEF S
  <2>5. QED
    <3> DEFINE S == ({} \cup {a}) \cup {b}
    <3>1. IsFiniteSet(S) /\ Cardinality(S) \in 0..2 /\ regions' = S \cup {d}
      BY <2>1, <2>4
    <3> HIDE DEF S
    <3>2. IsFiniteSet(S \cup {d}) /\ Cardinality(S \cup {d}) \in 0..2 + 1
      BY <3>1, OneMore
    <3>3. QED
      BY <3>1, <3>2
<1>12. regions' \subseteq {"begin", "center", "final"} \X (0..ULongLong - 1)
  BY <1>2, <1>5
<1>13. equal' \in Seq(BOOLEAN) /\ Len(equal') = 0
  BY <1>1, EmptySeq
<1>14. DriveTypes'
  <2>1. Len(equal') + Cardinality(regions') <= 3
    BY <1>11, <1>13
  <2>2. QED
    BY <1>1, <1>3, <1>5, <1>7, <1>8, <1>10, <1>11, <1>12, <1>13, <2>1 DEF DriveTypes
<1>15. RegionsRight'
  <2>1. ASSUME ioFails' = 0 PROVE regions' = ThreeRegions'
    BY <1>2, <1>9, <1>10, <2>1 DEF ThreeRegions
  <2>2. ASSUME ioFails' = 0 PROVE Tested(equal, regions)'
    BY <1>1, <2>1, <2>2 DEF Tested
  <2>3. QED
    BY <1>1, <2>1, <2>2 DEF RegionsRight
<1>16. Restored'
  BY <1>7, <1>8 DEF Restored
<1>17. QED
  BY <1>1, <1>4, <1>14, <1>15, <1>16 DEF DriveIInv, DriveVerdictHonest, RowsKept

\* One more region was tested.
LEMMA ResultAdded ==
  ASSUME NEW results \in Seq(BOOLEAN), NEW same \in BOOLEAN
  PROVE  /\ Append(results, same) \in Seq(BOOLEAN) /\ Len(results) \in Nat
         /\ Len(Append(results, same)) = Len(results) + 1
         /\ (\E k \in DOMAIN Append(results, same) : Append(results, same)[k])
              <=> same \/ \E k \in DOMAIN results : results[k]
<1> DEFINE q == Append(results, same)
<1>1. /\ q \in Seq(BOOLEAN) /\ Len(q) = Len(results) + 1 /\ Len(results) \in Nat
      /\ DOMAIN q = 1..Len(results) + 1 /\ DOMAIN results = 1..Len(results)
      /\ \A k \in 1..Len(results) : q[k] = results[k]
      /\ q[Len(results) + 1] = same
  BY AppendProperties, LenProperties
<1>2. DOMAIN q = DOMAIN results \cup {Len(results) + 1}
  BY <1>1
<1> HIDE DEF q
<1>3. (\E k \in DOMAIN q : q[k]) <=> same \/ \E k \in DOMAIN results : results[k]
  BY <1>1, <1>2, Zenon
<1>4. QED
  BY <1>1, <1>3 DEF q

LEMMA TestRegionKeeps ==
  ASSUME DriveIInv, Open(report), TestRegion
  PROVE  DriveIInv' /\ RowsKept'
<1>1. /\ program = "drive" /\ driveAt = "regions"
      /\ UNCHANGED <<program, report, request, todo, bad>>
  BY DEF TestRegion
<1>2. PICK r \in regions, broken \in {{}, {1}, {2}, {3}, {4}} :
        /\ ioFails' = ioFails + Cardinality(broken)
        /\ WriteAndRestore(r[2], broken)
        /\ regions' = regions \ {r}
        /\ driveAt' = (IF regions' = {} THEN "verdict" ELSE "regions")
  BY DEF TestRegion
<1>3. DriveTypes /\ Restored /\ RegionsRight /\ ioFails \in Nat
  BY DEF DriveIInv, DriveTypes
<1>4. /\ deviceSize \in DriveSizes /\ size \in Nat \ {0} /\ ULongLong \in Nat
      /\ deviceSize \in Nat /\ 2 * deviceSize < ULongLong
      /\ content \in [0..deviceSize - 1 -> Contents(deviceSize, size)] /\ Places = 0..deviceSize - 1
  BY <1>1, <1>3, PlacesAre, DriveAssumption DEF DriveTypes
<1>5. r[2] \in Nat
  <2>1. r \in {"begin", "center", "final"} \X (0..ULongLong - 1)
    BY <1>3 DEF DriveTypes
  <2>2. QED
    BY <1>4, <2>1
<1>6. size' = size
  BY <1>1 DEF size, NearestBlockSize
<1>7. /\ content' \in [0..deviceSize - 1 -> Contents(deviceSize, size)]
      /\ \E same \in BOOLEAN : equal' = Append(equal, same)
  BY <1>2, <1>4, <1>5, RegionTypes
<1>8. Places' = Places /\ deviceSize' = deviceSize
  BY <1>4, <1>7 DEF Places, deviceSize
<1>9. /\ Cardinality(broken) \in Nat /\ (Cardinality(broken) = 0 => broken = {})
  <2>1. Cardinality({}) = 0 /\ \A k : Cardinality({k}) = 1
    BY FS_EmptySet, FS_Singleton
  <2>2. broken = {} \/ \E k : broken = {k}
    BY <1>2, Zenon
  <2>3. (broken = {} /\ Cardinality(broken) = 0) \/ Cardinality(broken) = 1
    BY <2>1, <2>2
  <2>4. QED
    BY <2>3
<1>10. ioFails' \in Nat /\ (ioFails' = 0 => ioFails = 0 /\ broken = {})
  BY <1>2, <1>3, <1>9
<1>11. IsFiniteSet(regions') /\ Len(equal') + Cardinality(regions') <= 3 /\ equal' \in Seq(BOOLEAN)
  <2>1. IsFiniteSet(regions) /\ Cardinality(regions) \in Nat /\ equal \in Seq(BOOLEAN)
        /\ Len(equal) + Cardinality(regions) <= 3
    BY <1>3, FS_CardinalityType DEF DriveTypes
  <2>2. IsFiniteSet(regions') /\ Cardinality(regions') = Cardinality(regions) - 1
    BY <1>2, <2>1, FS_RemoveElement
  <2>3. equal' \in Seq(BOOLEAN) /\ Len(equal') = Len(equal) + 1 /\ Len(equal) \in Nat
    BY <1>7, <2>1, ResultAdded
  <2>4. QED
    BY <2>1, <2>2, <2>3
<1>12. DriveTypes'
  <2>1. driveAt' \in {"next", "regions", "verdict"} /\ regions' \subseteq regions
    BY <1>2
  <2>2. QED
    BY <1>1, <1>3, <1>4, <1>6, <1>7, <1>8, <1>10, <1>11, <2>1 DEF DriveTypes
<1>13. ASSUME ioFails' = 0 PROVE \E same \in BOOLEAN : equal' = Append(equal, same) /\ Stored(r[2], same)
  <2> DEFINE n == deviceSize
  <2>1. WriteAndRestore(r[2], {})
    BY <1>2, <1>10, <1>13
  <2>2. n \in Nat /\ 2 * n < ULongLong /\ deviceSize = n /\ content \in [0..n - 1 -> Contents(n, size)]
    BY <1>4
  <2> HIDE DEF n
  <2>3. QED
    BY <1>4, <1>5, <2>1, <2>2, RegionTested
<1>14. Restored'
  <2>1. ASSUME ioFails' = 0, NEW p \in Places' \ (unrestored' \cup bad') PROVE content'[p] = <<"old", p>>
    <3>1. PICK same \in BOOLEAN : Stored(r[2], same)
      BY <1>13, <2>1
    <3>2. p \in DOMAIN content /\ p \notin unrestored' /\ p \notin bad
      BY <1>1, <1>8, <2>1 DEF Places
    <3>3. content'[p] = content[p] /\ p \notin unrestored
      BY <3>1, <3>2 DEF Stored
    <3>4. QED
      BY <1>3, <1>10, <2>1, <3>2, <3>3 DEF Restored, Places
  <2>2. QED
    BY <2>1 DEF Restored
<1>15. RegionsRight'
  <2>1. /\ Center' = Center /\ Final' = Final /\ ThreeRegions' = ThreeRegions
        /\ \A b : SoundRegion(b)' = SoundRegion(b)
    BY <1>1, <1>6, <1>8 DEF Center, Final, ThreeRegions, SoundRegion
  <2>2. ASSUME ioFails' = 0 PROVE regions \subseteq ThreeRegions /\ regions' \subseteq ThreeRegions /\ r \in ThreeRegions
    BY <1>1, <1>2, <1>3, <1>10, <2>2 DEF RegionsRight
  <2>3. ASSUME ioFails' = 0, Center + size <= deviceSize PROVE Tested(equal', regions')
    <3>1. PICK same \in BOOLEAN : equal' = Append(equal, same) /\ Stored(r[2], same)
      BY <1>13, <2>3
    <3>2. Tested(equal, regions)
      BY <1>1, <1>3, <1>10, <2>3 DEF RegionsRight
    <3>3. r[2] + size <= deviceSize
      <4>1. 0 + size <= deviceSize /\ Final + size <= deviceSize
        BY <1>1, <1>3, <2>3, RegionPlaces
      <4>2. r[2] \in {0, Center, Final}
        BY <2>2, <2>3 DEF ThreeRegions
      <4>3. QED
        BY <2>3, <4>1, <4>2
    <3>4. same <=> SoundRegion(r[2])
      BY <3>1, <3>3 DEF Stored
    <3>5. (\E k \in DOMAIN equal' : equal'[k]) <=> same \/ \E k \in DOMAIN equal : equal[k]
      <4>1. equal \in Seq(BOOLEAN)
        BY <1>3 DEF DriveTypes
      <4>2. QED
        BY <3>1, <4>1, ResultAdded
    <3>6. ThreeRegions \ regions' = (ThreeRegions \ regions) \cup {r}
      BY <1>2, <2>2, <2>3
    <3>7. (\E x \in ThreeRegions \ regions' : SoundRegion(x[2]))
            <=> SoundRegion(r[2]) \/ \E x \in ThreeRegions \ regions : SoundRegion(x[2])
      BY <3>6, Zenon
    <3>8. QED
      BY <3>2, <3>4, <3>5, <3>7, Zenon DEF Tested
  <2>4. ASSUME ioFails' = 0, Center' + size' <= deviceSize' PROVE Tested(equal, regions)'
    <3>1. Tested(equal', regions')
      BY <1>6, <1>8, <2>1, <2>3, <2>4
    <3>2. QED
      BY <2>1, <3>1 DEF Tested
  <2>5. driveAt' = "verdict" => regions' = {}
    BY <1>2
  <2>6. QED
    BY <2>1, <2>2, <2>4, <2>5 DEF RegionsRight
<1>16. driveAt' # "next"
  BY <1>2
<1>17. QED
  BY <1>1, <1>12, <1>14, <1>15, <1>16 DEF DriveIInv, DriveVerdictHonest, RowsKept

LEMMA DriveReportedKeeps ==
  ASSUME DriveIInv, Open(report), DriveReported
  PROVE  DriveIInv' /\ RowsKept'
<1> DEFINE status == IF DriveVerdict THEN "Passed" ELSE "FAILED"
<1>1. /\ program = "drive" /\ program' = "drive" /\ driveAt = "verdict" /\ driveAt' = "next"
      /\ report' = customMessage(report, status)
      /\ UNCHANGED <<request, regions, content, bad, equal, ioFails, unrestored>>
  BY DEF DriveReported
<1>2. /\ Closed(report') /\ report'.dropped = report.dropped
      /\ ~report.dropped => report'.TEST[Len(report'.TEST)].status = <<status>>
  <2>1. status \in Statuses
    BY DEF Statuses
  <2> HIDE DEF status
  <2>2. QED
    BY <1>1, <2>1, StatusCloses
<1>3. /\ size' = size /\ Places' = Places /\ deviceSize' = deviceSize /\ Center' = Center
      /\ Final' = Final /\ \A b : SoundRegion(b)' = SoundRegion(b)
  BY <1>1 DEF size, NearestBlockSize, Places, deviceSize, Center, Final, SoundRegion
<1>4. DriveTypes /\ Restored /\ RegionsRight
  BY DEF DriveIInv
<1>5. DriveTypes' /\ Restored' /\ RegionsRight'
  BY <1>1, <1>3, <1>4 DEF DriveTypes, Restored, RegionsRight
<1>6. DriveVerdictHonest'
  <2>1. ASSUME ioFails' = 0, (Center + size <= deviceSize)', ~report'.dropped
        PROVE  LET passed == \E begin \in {0, Center, Final} : SoundRegion(begin)
               IN  report'.TEST[Len(report'.TEST)].status = <<IF passed THEN "Passed" ELSE "FAILED">>
    <3> DEFINE passed == \E begin \in {0, Center, Final} : SoundRegion(begin)
    <3>1. Tested(equal, regions) /\ regions = {}
      BY <1>1, <1>3, <1>4, <2>1 DEF RegionsRight
    <3>2. (\E r \in ThreeRegions : SoundRegion(r[2])) <=> passed
      BY DEF ThreeRegions
    <3>3. DriveVerdict <=> passed
      BY <3>1, <3>2 DEF Tested, DriveVerdict
    <3>4. QED
      BY <1>2, <2>1, <3>3
  <2>2. QED
    BY <1>3, <2>1 DEF DriveVerdictHonest
<1>7. QED
  BY <1>1, <1>2, <1>5, <1>6 DEF DriveIInv, RowsKept

LEMMA DriveKeeps ==
  ASSUME DriveIInv, RowsKept, DriveNext
  PROVE  /\ DriveIInv' /\ RowsKept' /\ program \in {"ready", "drive"}
         /\ program' \in {"drive", "none"}
<1>1. program \in {"ready", "drive"} /\ program' \in {"drive", "none"}
  BY DEF DriveNext, DriveStart, InvalidDrive, TestBlockDevice, TestRegion, DriveReported, DriveDone,
         DriveEnds
<1>2. CASE DriveStart
  <2>1. Closed(report)
    BY <1>2 DEF RowsKept, DriveStart
  <2>2. QED
    BY <1>1, <1>2, <2>1, DriveStartKeeps
<1>3. CASE InvalidDrive
  <2>1. Closed(report)
    BY <1>3 DEF RowsKept, InvalidDrive
  <2>2. QED
    BY <1>1, <1>3, <2>1, InvalidDriveKeeps
<1>4. CASE TestBlockDevice
  <2>1. Closed(report)
    BY <1>4 DEF RowsKept, TestBlockDevice
  <2>2. QED
    BY <1>1, <1>4, <2>1, TestBlockDeviceKeeps
<1>5. CASE TestRegion
  <2>1. Open(report)
    BY <1>5 DEF RowsKept, TestRegion
  <2>2. QED
    BY <1>1, <1>5, <2>1, TestRegionKeeps
<1>6. CASE DriveReported
  <2>1. Open(report)
    BY <1>6 DEF RowsKept, DriveReported
  <2>2. QED
    BY <1>1, <1>6, <2>1, DriveReportedKeeps
<1>7. CASE DriveDone
  <2>1. Closed(report) /\ program = "drive" /\ driveAt = "next" /\ request' = request /\ DriveEnds(report)
    BY <1>7 DEF RowsKept, DriveDone
  <2>2. QED
    BY <1>1, <2>1, DriveEndsKeeps
<1>8. QED
  BY <1>2, <1>3, <1>4, <1>5, <1>6, <1>7 DEF DriveNext

LEMMA DriveRests ==
  ASSUME DriveIInv, program \notin {"drive", "none"}, program' # "drive", UNCHANGED driveVars
  PROVE  DriveIInv'
<1>1. /\ UNCHANGED <<driveAt, request, regions, content, bad, equal, ioFails, unrestored>>
      /\ driveAt = "next" /\ equal = <<>> /\ ioFails = 0 /\ unrestored = {} /\ regions = {}
      /\ content = Fresh(BlockSize) /\ DriveTypes /\ Restored
  BY DEF driveVars, DriveIInv
<1>2. size' = size /\ Places' = Places
  BY <1>1 DEF size, NearestBlockSize, Places
<1>3. DriveTypes' /\ Restored'
  BY <1>1, <1>2 DEF DriveTypes, Restored
<1>4. QED
  BY <1>1, <1>3 DEF DriveIInv, RegionsRight, DriveVerdictHonest

LEMMA DriveBegins == Init => DriveIInv
<1>1. ASSUME Init PROVE DriveIInv
  <2>1. /\ driveAt = "next" /\ request = 1 /\ content = Fresh(BlockSize) /\ regions = {}
        /\ equal = <<>> /\ ioFails = 0 /\ unrestored = {} /\ program = "ready"
    BY <1>1 DEF Init, DriveInit, OutputInit
  <2>2. /\ content \in [0..BlockSize - 1 -> Contents(BlockSize, size)]
        /\ DOMAIN content = 0..BlockSize - 1
        /\ \A p \in 0..BlockSize - 1 : content[p] = <<"old", p>>
    BY <2>1, FreshIs
  <2>3. IsFiniteSet({}) /\ Cardinality({}) = 0 /\ Len(<<>>) = 0 /\ <<>> \in Seq(BOOLEAN)
    BY FS_EmptySet, EmptySeq
  <2>4. DriveTypes
    BY <2>1, <2>2, <2>3 DEF DriveTypes
  <2>5. Restored
    BY <2>2 DEF Restored, Places
  <2>6. QED
    BY <2>1, <2>4, <2>5 DEF DriveIInv, RegionsRight, DriveVerdictHonest
<1>2. QED
  BY <1>1

-----------------------------------------------------------------------------------
(* All programs *)

Programs == {"ready", "cpu", "drive", "serial", "led", "mouse", "none"}
ProgramsIInv ==
  program \in Programs /\ RowsKept /\ CpuIInv /\ DriveIInv /\ SerialIInv /\ PortIInv

LEMMA ProgramsBegin == Init => ProgramsIInv
<1>1. Init => program \in Programs /\ RowsKept
  BY BeforeClosed DEF Init, OutputInit, Programs, RowsKept
<1>2. QED
  BY <1>1, CpuBegins, DriveBegins, SerialBegins, PortBegins DEF ProgramsIInv

\* Nothing changes.
LEMMA StandingStill ==
  ASSUME ProgramsIInv, UNCHANGED vars
  PROVE  ProgramsIInv'
<1>1. /\ UNCHANGED <<program, report>>
      /\ UNCHANGED cpuVars /\ UNCHANGED driveVars /\ UNCHANGED serialVars
      /\ UNCHANGED ledVars /\ UNCHANGED mouseVars
  BY DEF vars
<1>2. program \in Programs /\ RowsKept /\ CpuIInv /\ DriveIInv /\ SerialIInv /\ PortIInv
  BY DEF ProgramsIInv
<1>3. program' \in Programs /\ RowsKept'
  BY <1>1, <1>2 DEF RowsKept, driveVars
<1>4. CpuIInv'
  <2>1. UNCHANGED <<cpus, procs, forkFails, failing, covered, program, report>>
    BY <1>1 DEF cpuVars
  <2>2. /\ number_of_cpus' = number_of_cpus /\ (AllBound' <=> AllBound) /\ (OneChild' <=> OneChild)
        /\ (StackFit' <=> StackFit)
    <3>1. number_of_cpus' = number_of_cpus
      BY <2>1 DEF number_of_cpus
    <3>2. AllBound' <=> AllBound
      BY <2>1, <3>1 DEF AllBound
    <3>3. OneChild' <=> OneChild
      BY <2>1 DEF OneChild
    <3>4. StackFit' <=> StackFit
      BY <2>1 DEF StackFit
    <3>5. QED
      BY <3>1, <3>2, <3>3, <3>4
  <2>3. CpuTypes'
    BY <1>2, <2>1, <2>2 DEF CpuIInv, CpuTypes
  <2>4. CpuPassHonest'
    BY <1>2, <2>1, <2>2 DEF CpuIInv, CpuPassHonest, Reported
  <2>5. QED
    BY <1>2, <2>1, <2>2, <2>3, <2>4 DEF CpuIInv
<1>5. DriveIInv'
  <2>1. UNCHANGED <<driveAt, request, regions, content, bad, equal, ioFails, unrestored, program, report>>
    BY <1>1 DEF driveVars
  <2>2. /\ size' = size /\ Places' = Places /\ deviceSize' = deviceSize /\ Center' = Center
        /\ Final' = Final /\ \A b : SoundRegion(b)' = SoundRegion(b)
    BY <2>1 DEF size, NearestBlockSize, Places, deviceSize, Center, Final, SoundRegion
  <2>3. ThreeRegions' = ThreeRegions
    BY <2>2 DEF ThreeRegions
  <2>4. Tested(equal, regions)' <=> Tested(equal, regions)
    BY <2>1, <2>2, <2>3 DEF Tested
  <2>5. DriveTypes' /\ Restored' /\ RegionsRight'
    BY <1>2, <2>1, <2>2, <2>3, <2>4 DEF DriveIInv, DriveTypes, Restored, RegionsRight
  <2>6. DriveVerdictHonest'
    BY <1>2, <2>1, <2>2 DEF DriveIInv, DriveVerdictHonest
  <2>7. QED
    BY <1>2, <2>1, <2>5, <2>6 DEF DriveIInv
<1>6. SerialIInv'
  <2>1. UNCHANGED <<serialAt, opened, plugged, place, pending, input, receiveChar, attempt, late,
                    unplugged, foreign, program, report>>
    BY <1>1 DEF serialVars
  <2>2. Outstanding' = Outstanding /\ PatternBefore' = PatternBefore
    BY <2>1 DEF Outstanding, PatternBefore
  <2>3. InStep' = InStep /\ \A n \in Nat : OutOfStep(n)' = OutOfStep(n)
    BY <2>1, <2>2 DEF InStep, OutOfStep
  <2>4. SerialTypes' /\ FewOutstanding' /\ ByteReturns'
    BY <1>2, <2>1, <2>2 DEF SerialIInv, SerialTypes, FewOutstanding, ByteReturns
  <2>5. AttemptSound'
    BY <1>2, <2>1, <2>2, <2>3 DEF SerialIInv, AttemptSound
  <2>6. QED
    BY <1>2, <2>1, <2>4, <2>5 DEF SerialIInv, PassedMeansEchoed, SoundPortPasses, Reported
<1>7. PortIInv'
  <2>1. UNCHANGED <<mutex, mouse, answers, data, program, report>>
    BY <1>1 DEF ledVars, mouseVars
  <2>2. QED
    BY <1>2, <2>1 DEF PortIInv, MousePassHonest, Reported
<1>8. QED
  BY <1>3, <1>4, <1>5, <1>6, <1>7 DEF ProgramsIInv

\* A program that runs leaves what the others test as it was.
LEMMA ProgramsKeep ==
  ASSUME ProgramsIInv, [Next]_vars
  PROVE  ProgramsIInv'
<1>1. program \in Programs /\ RowsKept /\ CpuIInv /\ DriveIInv /\ SerialIInv /\ PortIInv
  BY DEF ProgramsIInv
<1>2. CASE CpuNext /\ UNCHANGED <<driveVars, serialVars, ledVars, mouseVars>>
  <2>0. program \in {"ready", "cpu"}
    BY <1>2 DEF CpuNext, CpuStart, Fork, ForkFails, CpuTestStep, ChildExit, CpuReport
  <2>1. Closed(report)
    BY <1>1, <2>0 DEF RowsKept
  <2>2. CpuIInv' /\ Closed(report') /\ program' \in {"cpu", "none"}
    BY <1>1, <1>2, <2>1, CpuKeeps
  <2>3. DriveIInv' /\ SerialIInv' /\ PortIInv'
    BY <1>1, <1>2, <2>0, <2>2, DriveRests, SerialRests, PortRests
  <2>4. RowsKept' /\ program' \in Programs
    BY <2>2 DEF RowsKept, Programs
  <2>5. QED
    BY <2>2, <2>3, <2>4 DEF ProgramsIInv
<1>3. CASE DriveNext /\ UNCHANGED <<cpuVars, serialVars, ledVars, mouseVars>>
  <2>1. /\ DriveIInv' /\ RowsKept' /\ program \in {"ready", "drive"} /\ program' \in {"drive", "none"}
    BY <1>1, <1>3, DriveKeeps
  <2>2. CpuIInv' /\ SerialIInv' /\ PortIInv'
    BY <1>1, <1>3, <2>1, CpuRests, SerialRests, PortRests
  <2>3. QED
    BY <2>1, <2>2 DEF ProgramsIInv, Programs
<1>4. CASE SerialNext /\ UNCHANGED <<cpuVars, driveVars, ledVars, mouseVars>>
  <2>0. program \in {"ready", "serial"}
    BY <1>4 DEF SerialNext, SerialStart, OpenSerialPort, WriteFails, SerialPortWrite, ReturnLate,
                SerialPortRead, Retry, SerialReport
  <2>1. Closed(report)
    BY <1>1, <2>0 DEF RowsKept
  <2>2. SerialIInv' /\ Closed(report') /\ program' \in {"serial", "none"}
    BY <1>1, <1>4, <2>1, SerialKeeps
  <2>3. CpuIInv' /\ DriveIInv' /\ PortIInv'
    BY <1>1, <1>4, <2>0, <2>2, CpuRests, DriveRests, PortRests
  <2>4. RowsKept' /\ program' \in Programs
    BY <2>2 DEF RowsKept, Programs
  <2>5. QED
    BY <2>2, <2>3, <2>4 DEF ProgramsIInv
<1>5. CASE PortNext /\ UNCHANGED <<cpuVars, driveVars, serialVars>>
  <2>0. program \in {"ready", "led", "mouse"}
    BY <1>5 DEF PortNext, LedStart, LedAnswer, LedChange, ledHandler, MouseStart, MouseRead, MousePolls
  <2>1. Closed(report)
    BY <1>1, <2>0 DEF RowsKept
  <2>2. PortIInv' /\ Closed(report') /\ program' \in {"led", "mouse", "none"}
    BY <1>1, <1>5, <2>1, PortKeeps
  <2>3. CpuIInv' /\ DriveIInv' /\ SerialIInv'
    BY <1>1, <1>5, <2>0, <2>2, CpuRests, DriveRests, SerialRests
  <2>4. RowsKept' /\ program' \in Programs
    BY <2>2 DEF RowsKept, Programs
  <2>5. QED
    BY <2>2, <2>3, <2>4 DEF ProgramsIInv
<1>6. CASE UNCHANGED vars
  BY <1>1, <1>6, StandingStill DEF ProgramsIInv
<1>7. QED
  BY <1>2, <1>3, <1>4, <1>5, <1>6 DEF Next, Ended

LEMMA RowsFollow == ProgramsIInv => RowsInv
<1> SUFFICES ASSUME ProgramsIInv PROVE RowsInv
  OBVIOUS
<1>1. program \in Programs /\ RowsKept /\ CpuTypes /\ DriveTypes /\ SerialTypes /\ PortIInv
      /\ (program = "none" => driveAt = "next")
  BY DEF ProgramsIInv, CpuIInv, DriveIInv, SerialIInv
<1>2. CpuTypeOK
  BY <1>1 DEF CpuTypes, StackFit, FitProcess, CpuTypeOK, Self
<1>3. Len(equal) <= 3
  <2>1. Cardinality(regions) \in Nat /\ Len(equal) \in Nat /\ Len(equal) + Cardinality(regions) <= 3
    BY <1>1, FS_CardinalityType, LenProperties DEF DriveTypes
  <2>2. QED
    BY <2>1
<1>4. \A p \in Places : content[p] = Junk \/ content[p][2] \in Places \cup 0..size - 1
  <2>1. PICK n \in DriveSizes \cup {BlockSize} :
          Places = 0..n - 1 /\ content \in [0..n - 1 -> Contents(n, size)]
    BY <1>1, PlacesAre
  <2>2. ASSUME NEW p \in Places PROVE content[p] = Junk \/ content[p][2] \in Places \cup 0..size - 1
    <3>1. content[p] \in Contents(n, size)
      BY <2>1, <2>2
    <3>2. \A q : <<"old", q>>[2] = q /\ <<"new", q>>[2] = q
      OBVIOUS
    <3>3. QED
      BY <2>1, <3>1, <3>2 DEF Contents
  <2>3. QED
    BY <2>2
<1>5. TypeOK
  BY <1>1, <1>2, <1>3, <1>4 DEF TypeOK, Programs, DriveTypes, SerialTypes, PortIInv
<1>6. OwnStatus
  <2>1. CASE Closed(report)
    <3>1. ~report.dropped => /\ \A k \in DOMAIN report.TEST : Len(report.TEST[k].status) = 1
                             /\ \A k \in DOMAIN report.DIAG : report.DIAG[k].status = <<>>
      BY <2>1 DEF Closed
    <3>2. ASSUME ~report.dropped, NEW k \in DOMAIN report.TEST
          PROVE  /\ Len(report.TEST[k].status) <= 1
                 /\ Len(report.TEST[k].status) = 0 => k = Len(report.TEST)
      <4> DEFINE n == Len(report.TEST[k].status)
      <4>1. n = 1
        BY <3>1, <3>2
      <4> HIDE DEF n
      <4>2. n <= 1 /\ (n = 0 => k = Len(report.TEST))
        BY <4>1
      <4>3. QED
        BY <4>2 DEF n
    <3>3. QED
      BY <3>1, <3>2, Zenon DEF OwnStatus
  <2>2. CASE Open(report)
    <3>1. ~report.dropped =>
            /\ report.TEST[Len(report.TEST)].status = <<>>
            /\ \A k \in DOMAIN report.TEST : k # Len(report.TEST) => Len(report.TEST[k].status) = 1
            /\ \A k \in DOMAIN report.DIAG : report.DIAG[k].status = <<>>
      BY <2>2 DEF Open
    <3>2. Len(<<>>) = 0
      BY EmptyStatus
    <3>3. ASSUME ~report.dropped, NEW k \in DOMAIN report.TEST
          PROVE  /\ Len(report.TEST[k].status) <= 1
                 /\ Len(report.TEST[k].status) = 0 => k = Len(report.TEST)
      <4> DEFINE n == Len(report.TEST[k].status)
      <4>1. n = 1 \/ (n = 0 /\ k = Len(report.TEST))
        BY <3>1, <3>2, <3>3
      <4> HIDE DEF n
      <4>2. n <= 1 /\ (n = 0 => k = Len(report.TEST))
        BY <4>1
      <4>3. QED
        BY <4>2 DEF n
    <3>4. QED
      BY <3>1, <3>3, Zenon DEF OwnStatus
  <2>3. QED
    BY <1>1, <2>1, <2>2 DEF RowsKept
<1>7. AllReported
  BY <1>1 DEF RowsKept, Closed, AllReported
<1>8. QED
  BY <1>5, <1>6, <1>7 DEF RowsInv

\* What a test program reports can be read off its rows: each line has its own status, and
\* when the program has ended no line is without one.
THEOREM EveryLineHasItsStatus == Spec => []RowsInv
<1>1. ProgramsIInv /\ [Next]_vars => ProgramsIInv'
  BY ProgramsKeep
<1>2. QED
  BY <1>1, ProgramsBegin, RowsFollow, PTL DEF Spec

\* When every CPU got a child that was bound to it, the board passes only if each of them ran
\* its tests and none failed.
THEOREM EveryCpuTested == Spec => []CpuPassHonest
<1>1. ProgramsIInv /\ [Next]_vars => ProgramsIInv'
  BY ProgramsKeep
<1>2. ProgramsIInv => CpuPassHonest
  BY DEF ProgramsIInv, CpuIInv
<1>3. QED
  BY <1>1, <1>2, ProgramsBegin, PTL DEF Spec

\* When no call failed, a drive that was tested holds what it held before, but where a region
\* was found unequal or a place is faulty.
THEOREM DrivesRestored == Spec => []DriveRestored
<1>1. ProgramsIInv /\ [Next]_vars => ProgramsIInv'
  BY ProgramsKeep
<1>2. ProgramsIInv => DriveRestored
  BY DEF ProgramsIInv, DriveIInv, Restored, DriveRestored
<1>3. QED
  BY <1>1, <1>2, ProgramsBegin, PTL DEF Spec

\* A drive on which the regions fit passes exactly if one of them has no faulty place.
THEOREM DrivesJudged == Spec => []DriveVerdictHonest
<1>1. ProgramsIInv /\ [Next]_vars => ProgramsIInv'
  BY ProgramsKeep
<1>2. ProgramsIInv => DriveVerdictHonest
  BY DEF ProgramsIInv, DriveIInv
<1>3. QED
  BY <1>1, <1>2, ProgramsBegin, PTL DEF Spec

\* A serial port passes only on bytes that came back to its attempt, and a sound one does
\* pass; a mouse passes only if it answers as a mouse.
THEOREM AnswersRight == Spec => []AnswersJudgedRight
<1>1. ProgramsIInv /\ [Next]_vars => ProgramsIInv'
  BY ProgramsKeep
<1>2. ProgramsIInv => AnswersJudgedRight
  BY DEF ProgramsIInv, SerialIInv, PortIInv, AnswersJudgedRight
<1>3. QED
  BY <1>1, <1>2, ProgramsBegin, PTL DEF Spec

-----------------------------------------------------------------------------------
(* The memory test: its inductive invariant *)

\* The steps of testMemory.
InTest == {"block", "allocate", "write", "read", "free"}

\* The variables keep to their ranges, the driver's table included.
MemoryTypes ==
  /\ free \subseteq Pages /\ others \subseteq Pages
  /\ allocated \in [Zones -> [Blocks -> 0..Cardinality(Pages)]]
  /\ pages \in [Zones -> [Blocks -> Seq(Entry)]]
  /\ lock \in [Zones -> BOOLEAN] /\ contents \in [Pages -> Nat]
  /\ call \in [zone : Zones, block : Blocks \cup {EFAULT}, want : 0..Cardinality(Pages),
               size : 0..Cardinality(Pages), i : 0..ULong - 1, count : 0..ULong - 1,
               more : BOOLEAN]
  /\ fails \in 0..MaxFails
  /\ step \in InTest \cup {"idle", "signal", "signal high"} /\ zone \in Zones
  /\ block \in Blocks \cup {EFAULT} /\ j \in -1..MaxBlocks
  /\ pattern \in Nat /\ nomem \in BOOLEAN /\ failed \in BOOLEAN /\ clean \in BOOLEAN

\* An allocation in progress has a block that is not in use, and counts no more pages
\* than it has, unless its counters went below 0.  When it counts pages of high memory,
\* its first entry points to one.
CallInv ==
  /\ step # "allocate" => call = NoCall
  /\ step = "allocate" =>
       LET here == pages[zone][call.block]
       IN /\ call.zone = zone /\ call.block \in FreeBlocks(zone) /\ call.want > 0
          /\ call.i # ULong - 1 => call.i <= Len(here) /\ call.i <= call.size
          /\ zone = High /\ call.count # ULong - 1 =>
               /\ call.count <= call.want /\ call.count <= PagesPerPage * Len(here)
               /\ here # << >> => here[1].high # << >>

\* What a block reports is there, the first of its pages in any case.
SizesThere ==
  \A b \in Blocks :
    /\ allocated[Low][b] <= Len(pages[Low][b])
    /\ allocated[High][b] <= PagesPerPage * Len(pages[High][b])
    /\ allocated[High][b] > 0 => pages[High][b][1].high # << >>

\* The files of the driver and of its blocks.
EntriesInv ==
  /\ \A z \in Zones, b \in Blocks :
       IF allocated[z][b] > 0 THEN BlockFiles(z, b) \subseteq files \cup unfiled
       ELSE BlockFiles(z, b) \cap files = {}
  /\ entries \in {{}, Range(CreationOrder)}
  /\ ~Loaded => allocated = NoBlocks /\ step # "allocate"

\* A page is in one place at a time.
PagesApart == PagesOnce /\ free \cap others = {}

\* What the pages hold that nobody has written to, and what those of the block hold
\* that was.
ContentsInv ==
  /\ \A p \in free \cup others : contents[p] = Zeros
  /\ step = "allocate" => \A p \in BlockPages(zone, call.block) : contents[p] = Zeros
  /\ step = "write" /\ block \in Blocks =>
       \A p \in BlockPages(zone, block) : contents[p] = Zeros
  /\ step = "read" /\ block \in Blocks =>
       \A p \in 0..allocated[zone][block] - 1 : \A q \in PageAt(zone, block, p) :
         contents[q] = IF q \in faulty \/ ~HasFile("write") THEN Zeros ELSE pattern
  /\ step \in {"allocate", "write", "read"} => pattern > 0

\* The block that is tested has both its files, unless one could not be created.
FiledInv ==
  step \in {"write", "read"} /\ block \in Blocks =>
    BlockFiles(zone, block) \subseteq files \/ halfFiled

\* How far a test is, and that the blocks of a test that found none are the first ones.
ProgressInv ==
  /\ step \in InTest \ {"free"} => j \in 0..BlocksOf[zone] /\ ~nomem
  /\ step = "free" => j \in -1..BlocksOf[zone] + 1
  /\ clean /\ step \in {"block", "allocate"} =>
       \A b \in Blocks : allocated[zone][b] > 0 => b < j
  /\ clean /\ step = "allocate" => call.block <= j
  /\ clean /\ step \in {"write", "read"} =>
       \A b \in Blocks : allocated[zone][b] > 0 => b <= j
  /\ clean /\ step = "free" /\ ~nomem =>
       \A b \in Blocks : allocated[zone][b] > 0 => b < j
  /\ step = "signal high" => \A b \in Blocks : allocated[Low][b] = 0

\* A failure has a faulty page as its cause, or a block that lacks a file, and a faulty page a failure as its effect,
\* but for the block that is not read yet and the last one.
VerdictInv ==
  /\ failed => faulty # {} \/ halfFiled
  /\ clean /\ step \in InTest =>
       \A b \in Blocks : TestedPages(b) \cap faulty # {} =>
         \/ failed
         \/ b = block /\ step \in {"write", "read"}
         \/ b = block /\ step = "free" /\ ~nomem

MemoryIInv ==
  /\ MemoryTypes /\ CallInv /\ SizesThere /\ PagesApart /\ EntriesInv
  /\ ContentsInv /\ FiledInv /\ ProgressInv /\ VerdictInv

\* Some files of the block are created when an allocation ends.
AllocateEnded == \E created : AllocateEnd(created)

\* A set of numbers that is not empty has a least one.
LEMMA MemoryLeast ==
  ASSUME NEW S, S \subseteq Nat, S # {}
  PROVE  \E m \in S : \A k \in S : m <= k
<1>1. PICK m \in S : \A k \in S : ~(<<k, m>> \in OpToRel(<, Nat))
  BY WFMin, NatLessThanWellFounded, Zenon
<1>2. \A k \in S : ~(k < m)
  BY <1>1 DEF OpToRel
<1> QED
  BY <1>2

-----------------------------------------------------------------------------------
(* What the definitions of the page allocator come to *)

\* The constants, and that a number below the modulus is not changed by it.
LEMMA PageConstants ==
  /\ IsFiniteSet(Pages) /\ Cardinality(Pages) \in Nat /\ Pages \subseteq Nat
  /\ ULong \in Nat /\ Cardinality(Pages) * 2 < ULong
  /\ PagesPerPage \in Nat /\ PagesPerPage > 0 /\ MaxBlocks \in Nat /\ MaxBlocks > 0
  /\ MaxFails \in Nat /\ EFAULT \notin Blocks /\ Blocks \subseteq Nat /\ Zones = {Low, High} /\ Low # High
<1>1. IsFiniteSet(Pages) /\ Cardinality(Pages) \in Nat
  BY PageAssumption, FS_Union, FS_CardinalityType DEF Pages
<1>2. Pages \subseteq Nat /\ Cardinality(Pages) * 2 < ULong
  BY PageAssumption DEF Pages
<1>3. EFAULT \notin Blocks /\ Blocks \subseteq Nat /\ Zones = {Low, High} /\ Low # High
  BY PageAssumption DEF EFAULT, Blocks, Zones, Low, High
<1> QED
  BY <1>1, <1>2, <1>3, PageAssumption

LEMMA UnsignedSmall ==
  ASSUME NEW x \in -1..ULong - 1
  PROVE  /\ Unsigned(x) = IF x = -1 THEN ULong - 1 ELSE x
         /\ Unsigned(x) \in 0..ULong - 1
<1>1. ULong \in Nat /\ ULong > 0
  BY PageConstants
<1>2. CASE x = -1
  <2>1. x % ULong = (x + ULong) % ULong
    BY <1>1
  <2>2. (x + ULong) % ULong = x + ULong
    BY <1>1, <1>2
  <2>3. QED
    BY <1>1, <1>2, <2>1, <2>2 DEF Unsigned
<1>3. CASE x # -1
  <2>1. x % ULong = x
    BY <1>1, <1>3
  <2>2. QED
    BY <1>1, <1>3, <2>1 DEF Unsigned
<1> QED
  BY <1>2, <1>3

\* Division by the number of pointers in a page.
LEMMA EntriesFor ==
  ASSUME NEW n \in Nat, NEW l \in Nat, n <= PagesPerPage * l
  PROVE  /\ n \div PagesPerPage \in Nat /\ n \div PagesPerPage <= l
         /\ n >= PagesPerPage => n \div PagesPerPage > 0
<1>1. PagesPerPage \in Nat /\ PagesPerPage > 0
  BY PageConstants
<1> DEFINE d == n \div PagesPerPage
<1>2. d \in Int /\ PagesPerPage * d <= n /\ n < PagesPerPage * d + PagesPerPage
  BY <1>1
<1> HIDE DEF d
<1>3. d >= 0
  <2>1. ASSUME d <= -1 PROVE FALSE
    <3>1. PagesPerPage * d <= PagesPerPage * (-1)
      BY <1>1, <1>2, <2>1
    <3>2. QED
      BY <1>1, <1>2, <3>1
  <2>2. QED
    BY <1>2, <2>1
<1>4. d <= l
  <2>1. ASSUME d >= l + 1 PROVE FALSE
    <3>1. PagesPerPage * d >= PagesPerPage * (l + 1) /\ PagesPerPage * (l + 1) = PagesPerPage * l + PagesPerPage
      BY <1>1, <1>2, <2>1
    <3>2. PagesPerPage * d \in Int /\ PagesPerPage * l \in Int
      BY <1>1, <1>2
    <3>3. QED
      BY <1>1, <1>2, <3>1, <3>2
  <2>2. QED
    BY <1>2, <2>1
<1>5. ASSUME n >= PagesPerPage PROVE d > 0
  <2>1. d = 0 => PagesPerPage * d = 0
    BY <1>1
  <2>2. QED
    BY <1>1, <1>2, <1>3, <1>5, <2>1
<1> QED
  BY <1>2, <1>3, <1>4, <1>5 DEF d

\* A block is a sequence of entries, and its pages are those of its entries.
LEMMA BlockTyped ==
  ASSUME MemoryTypes, NEW z \in Zones, NEW b \in Blocks
  PROVE  /\ pages[z][b] \in Seq(Entry) /\ Len(pages[z][b]) \in Nat
         /\ DOMAIN pages[z][b] = 1..Len(pages[z][b])
         /\ \A k \in 1..Len(pages[z][b]) : pages[z][b][k] \in Entry
         /\ allocated[z][b] \in 0..Cardinality(Pages) /\ allocated[z][b] \in Nat
<1>1. pages[z][b] \in Seq(Entry) /\ allocated[z][b] \in 0..Cardinality(Pages)
  BY Zenon DEF MemoryTypes
<1> HIDE DEF Entry
<1>2. Len(pages[z][b]) \in Nat /\ DOMAIN pages[z][b] = 1..Len(pages[z][b])
  BY <1>1, LenProperties
<1>3. \A k \in 1..Len(pages[z][b]) : pages[z][b][k] \in Entry
  BY <1>1, <1>2, ElementOfSeq
<1> QED
  BY <1>1, <1>2, <1>3, PageConstants

LEMMA EntryTyped ==
  ASSUME NEW e \in Entry
  PROVE  /\ e.page \in Pages /\ Len(e.high) \in 0..PagesPerPage
         /\ DOMAIN e.high = 1..Len(e.high) /\ e.high \in [1..Len(e.high) -> Pages]
         /\ EntryPages(e) = {e.page} \cup {e.high[k] : k \in DOMAIN e.high}
         /\ EntryPages(e) \subseteq Pages
<1>1. e.page \in Pages /\ e.high \in UNION {[1..n -> Pages] : n \in 0..PagesPerPage}
  BY DEF Entry
<1>2. PICK n \in 0..PagesPerPage : e.high \in [1..n -> Pages]
  BY <1>1
<1>3. e.high \in Seq(Pages) /\ Len(e.high) = n
  <2>1. n \in Nat
    BY <1>2, PageConstants
  <2>2. QED
    BY <1>2, <2>1
<1>4. EntryPages(e) = {e.page} \cup {e.high[k] : k \in DOMAIN e.high}
  BY DEF EntryPages, Range
<1> QED
  BY <1>1, <1>2, <1>3, <1>4

LEMMA PagesOfBlock ==
  ASSUME NEW z, NEW b
  PROVE  BlockPages(z, b) = UNION {EntryPages(pages[z][b][k]) : k \in 1..Len(pages[z][b])}
  BY DEF BlockPages, Held

\* A page of a block is found in it at one place at most, and the first one of a block
\* that is not empty is there.
LEMMA PageFound ==
  ASSUME MemoryTypes, NEW z \in Zones, NEW b \in Blocks, NEW p \in Nat
  PROVE  /\ PageAt(z, b, p) \subseteq BlockPages(z, b) /\ PageAt(z, b, p) \subseteq Pages
         /\ \A q, r \in PageAt(z, b, p) : q = r
<1> DEFINE s == pages[z][b]
           k == IF z = High THEN p \div PagesPerPage ELSE p
<1>1. k \in Nat
  BY PageConstants, EntriesFor
<1>2. /\ Len(s) \in Nat /\ \A i \in 1..Len(s) : s[i] \in Entry
      /\ BlockPages(z, b) = UNION {EntryPages(s[i]) : i \in 1..Len(s)}
  BY BlockTyped, PagesOfBlock
<1>3. get_mem_page(z, b, p) = IF k < Len(s) THEN {s[k + 1]} ELSE {}
  BY DEF get_mem_page
<1> HIDE DEF s, k
<1>4. CASE k < Len(s)
  <2> DEFINE e == s[k + 1]
  <2>1. k + 1 \in 1..Len(s) /\ e \in Entry
    BY <1>1, <1>2, <1>4
  <2>2. EntryPages(e) \subseteq BlockPages(z, b)
    BY <1>2, <2>1
  <2> HIDE DEF e
  <2>3. EntryPages(e) \subseteq Pages /\ EntryPages(e) = {e.page} \cup {e.high[i] : i \in DOMAIN e.high}
    BY <2>1, EntryTyped
  <2>4. CASE z = Low
    <3>1. PageAt(z, b, p) = {e.page}
      BY <1>3, <1>4, <2>4 DEF PageAt, e
    <3>2. QED
      BY <2>2, <2>3, <3>1
  <2>5. CASE z # Low
    <3>1. PageAt(z, b, p) = {e.high[i] : i \in {(p % PagesPerPage) + 1} \cap DOMAIN e.high}
      BY <1>3, <1>4, <2>5 DEF PageAt, e
    <3>2. QED
      BY <2>2, <2>3, <3>1
  <2>6. QED
    BY <2>4, <2>5
<1>5. CASE ~(k < Len(s))
  <2>1. PageAt(z, b, p) = {}
    BY <1>3, <1>5 DEF PageAt
  <2>2. QED
    BY <2>1
<1> QED
  BY <1>4, <1>5

LEMMA FirstFound ==
  ASSUME MemoryTypes, SizesThere, NEW z \in Zones, NEW b \in Blocks, allocated[z][b] > 0
  PROVE  PageAt(z, b, 0) # {}
<1> DEFINE s == pages[z][b]
<1>1. Len(s) \in Nat /\ Len(s) > 0 /\ s[1] \in Entry
  <2>1. Len(s) \in Nat /\ allocated[z][b] \in Nat /\ \A i \in 1..Len(s) : s[i] \in Entry
    BY BlockTyped
  <2>2. z = Low => Len(s) > 0
    BY <2>1 DEF SizesThere
  <2>3. z # Low => PagesPerPage * Len(s) > 0
    <3>1. z # Low => z = High /\ allocated[z][b] <= PagesPerPage * Len(s)
      BY PageConstants DEF SizesThere
    <3>2. PagesPerPage * Len(s) \in Int
      BY <2>1, PageConstants
    <3> HIDE DEF s
    <3> QED
      BY <2>1, <3>1, <3>2
  <2>4. z # Low => Len(s) # 0
    BY <2>3, PageConstants
  <2>5. QED
    BY <2>1, <2>2, <2>4
<1>2. z = Low => PageAt(z, b, 0) = {s[1].page}
  BY <1>1, PageConstants DEF PageAt, get_mem_page
<1>3. ASSUME z = High PROVE PageAt(z, b, 0) # {}
  <2>1. s[1].high # << >>
    BY <1>3 DEF SizesThere
  <2>2. DOMAIN s[1].high = 1..Len(s[1].high) /\ s[1].high \in Seq(Pages) /\ Len(s[1].high) \in Nat
    <3>1. /\ Len(s[1].high) \in 0..PagesPerPage /\ s[1].high \in [1..Len(s[1].high) -> Pages]
          /\ DOMAIN s[1].high = 1..Len(s[1].high)
      BY <1>1, EntryTyped
    <3>2. Len(s[1].high) \in Nat
      BY <3>1, PageConstants
    <3> QED
      BY <3>1, <3>2
  <2>3. 1 \in DOMAIN s[1].high
    BY <2>1, <2>2, EmptySeq
  <2>4. 0 \div PagesPerPage = 0 /\ 0 % PagesPerPage = 0
    BY PageConstants
  <2>5. get_mem_page(z, b, 0) = {s[1]}
    BY <1>1, <1>3, <2>4 DEF get_mem_page
  <2>6. z # Low
    BY <1>3, PageConstants
  <2>7. PageAt(z, b, 0) = {s[1].high[i] : i \in {1} \cap DOMAIN s[1].high}
    BY <2>4, <2>5, <2>6 DEF PageAt
  <2>8. QED
    BY <2>3, <2>7
<1> QED
  BY <1>2, <1>3, PageConstants

\* Exactly the blocks that report pages are freed, and no more of them than there is.
LEMMA FreedEntries ==
  ASSUME MemoryTypes, SizesThere, NEW z \in Zones, NEW b \in Blocks
  PROVE  /\ freeCnt(z, b) \in 0..Len(pages[z][b])
         /\ freeCnt(z, b) > 0 <=> allocated[z][b] > 0
<1> DEFINE l == Len(pages[z][b])
           a == allocated[z][b]
<1>1. l \in Nat /\ a \in Nat /\ PagesPerPage \in Nat /\ PagesPerPage > 0
  BY BlockTyped, PageConstants
<1>2. CASE z = Low
  BY <1>1, <1>2 DEF freeCnt, SizesThere
<1>3. CASE z = High
  <2>1. freeCnt(z, b) = IF a \in 1..PagesPerPage - 1 THEN 1 ELSE a \div PagesPerPage
    BY <1>3, PageConstants DEF freeCnt
  <2>2. a <= PagesPerPage * l
    BY <1>3 DEF SizesThere
  <2>3. a \div PagesPerPage \in Nat /\ a \div PagesPerPage <= l
        /\ (a >= PagesPerPage => a \div PagesPerPage > 0)
    BY <1>1, <2>2, EntriesFor
  <2>4. a > 0 => l > 0
    <3>1. l = 0 => PagesPerPage * l = 0
      BY <1>1
    <3>2. QED
      BY <1>1, <2>2, <3>1
  <2>5. a = 0 => a \div PagesPerPage = 0
    BY <1>1
  <2> HIDE DEF a, l
  <2>6. CASE a \in 1..PagesPerPage - 1
    BY <1>1, <2>1, <2>4, <2>6 DEF a, l
  <2>7. CASE a = 0
    BY <1>1, <2>1, <2>3, <2>5, <2>7 DEF a, l
  <2>8. CASE a >= PagesPerPage
    BY <1>1, <2>1, <2>3, <2>8 DEF a, l
  <2>9. QED
    BY <1>1, <2>6, <2>7, <2>8
<1> QED
  BY <1>2, <1>3, PageConstants

LEMMA HeldInBlock ==
  ASSUME MemoryTypes, SizesThere, NEW z \in Zones, NEW b \in Blocks
  PROVE  /\ Held(z, b, freeCnt(z, b)) \subseteq BlockPages(z, b)
         /\ BlockPages(z, b) \subseteq Pages
<1>1. Held(z, b, freeCnt(z, b)) \subseteq BlockPages(z, b)
  BY FreedEntries, BlockTyped DEF Held, BlockPages
<1>2. BlockPages(z, b) \subseteq Pages
  BY PagesOfBlock, BlockTyped, EntryTyped
<1> QED
  BY <1>1, <1>2

-----------------------------------------------------------------------------------
(* The variables keep to their ranges *)

\* What alloc_pages gives out was free.
LEMMA TakenFree ==
  ASSUME NEW S, S \subseteq Pages
  PROVE  FromLow(S) \subseteq S /\ FromHigh(S) \subseteq S
<1>1. ASSUME NEW T, T \subseteq Nat PROVE LowestOf(T) \subseteq T
  <2>1. T # {} => \E m \in T : \A k \in T : m <= k
    BY <1>1, MemoryLeast
  <2>2. T # {} => Min(T) \in T
    BY <1>1, <2>1 DEF Min
  <2> QED
    BY <2>2 DEF LowestOf
<1>2. S \cap LowPages \subseteq Nat /\ S \cap HighPages \subseteq Nat
  BY PageAssumption
<1>3. LowestOf(S \cap LowPages) \subseteq S /\ LowestOf(S \cap HighPages) \subseteq S
  BY <1>1, <1>2
<1> QED
  BY <1>3 DEF FromLow, FromHigh

\* The entries that a call of allocate_pages adds.
LEMMA NewEntry ==
  ASSUME MemoryTypes, NEW p \in FromLow(free), NEW got \in 0..Room,
         NEW high \in [1..got -> free \ {p}]
  PROVE  /\ p \in free /\ p \in Pages /\ got \in 0..PagesPerPage /\ [page |-> p, high |-> high] \in Entry
         /\ Room \in 0..PagesPerPage
         /\ Room # 0 => call.zone = High /\ Room <= call.want - call.count
         /\ call.zone = High /\ call.count < call.want => Room > 0
         /\ high \in Seq(Pages) /\ Len(high) = got /\ DOMAIN high = 1..got
         /\ Range(high) \subseteq free \ {p}
<1>1. FromLow(free) \subseteq free /\ free \subseteq Pages
  BY Zenon, TakenFree DEF MemoryTypes
<1>2. Room \in 0..PagesPerPage /\ (Room # 0 => call.zone = High /\ Room <= call.want - call.count)
      /\ (call.zone = High /\ call.count < call.want => Room > 0)
  <2> DEFINE n == call.want - call.count
  <2>1. n \in Int /\ PagesPerPage \in Nat /\ call.zone \in Zones
    <3>1. call.zone \in Zones /\ call.want \in 0..Cardinality(Pages) /\ call.count \in 0..ULong - 1
      BY Zenon DEF MemoryTypes
    <3> QED
      BY <3>1, PageConstants
  <2> HIDE DEF n
  <2>2. Min({PagesPerPage, n}) = IF PagesPerPage <= n THEN PagesPerPage ELSE n
    BY <2>1 DEF Min
  <2>3. \A m \in Int : Max({0, m}) = IF m <= 0 THEN 0 ELSE m
    BY DEF Max
  <2>4. Room = IF call.zone = Low THEN 0 ELSE Max({0, Min({PagesPerPage, n})})
    BY DEF Room, n
  <2>5. Min({PagesPerPage, n}) \in Int
    BY <2>1, <2>2
  <2>6. Room \in 0..PagesPerPage /\ (Room # 0 => call.zone # Low /\ Room <= n)
        /\ (call.zone # Low /\ n > 0 => Room > 0)
    <3> DEFINE m == Min({PagesPerPage, n})
    <3>1. m \in Int /\ m <= n /\ m <= PagesPerPage /\ (n > 0 => m > 0)
      BY <2>1, <2>2, PageConstants
    <3> HIDE DEF m
    <3>2. Max({0, m}) = IF m <= 0 THEN 0 ELSE m
      BY <2>3, <3>1
    <3>3. CASE call.zone = Low
      BY <2>1, <2>4, <3>3
    <3>4. CASE call.zone # Low
      <4>1. Room = IF m <= 0 THEN 0 ELSE m
        BY <2>4, <3>2, <3>4 DEF m
      <4> QED
        BY <2>1, <3>1, <3>4, <4>1
    <3> QED
      BY <3>3, <3>4
  <2>7. call.count < call.want => n > 0
    <3>1. call.want \in 0..Cardinality(Pages) /\ call.count \in 0..ULong - 1
      BY Zenon DEF MemoryTypes
    <3> QED
      BY <3>1, PageConstants DEF n
  <2> QED
    BY <2>1, <2>6, <2>7, PageConstants DEF n
<1>3. got \in Nat /\ got \in 0..PagesPerPage
  BY <1>2, PageConstants
<1>4. high \in Seq(Pages) /\ Len(high) = got /\ DOMAIN high = 1..got
  BY <1>1, <1>3
<1>5. high \in [1..got -> Pages]
  BY <1>1
<1>6. Range(high) \subseteq free \ {p}
  BY DEF Range
<1>7. [page |-> p, high |-> high] \in Entry
  BY <1>1, <1>3, <1>5 DEF Entry
<1> QED
  BY <1>1, <1>2, <1>3, <1>4, <1>6, <1>7

\* What is granted, and the block it is for.
LEMMA AdmittedFor ==
  ASSUME MemoryTypes, NEW w, AllocateBegin(zone, w)
  PROVE  /\ Granted(zone, w) \in 1..Cardinality(Pages)
         /\ Min(FreeBlocks(zone)) \in FreeBlocks(zone) /\ FreeBlocks(zone) \subseteq Blocks
         /\ \A b \in FreeBlocks(zone) : Min(FreeBlocks(zone)) <= b
         /\ call'.size \in 0..Cardinality(Pages)
<1>1. Granted(zone, w) \in 1..Cardinality(Pages) /\ FreeBlocks(zone) # {}
  BY DEF AllocateBegin, Admitted
<1>2. FreeBlocks(zone) \subseteq Blocks /\ FreeBlocks(zone) \subseteq Nat
  BY PageConstants DEF FreeBlocks
<1>3. \E m \in FreeBlocks(zone) : \A k \in FreeBlocks(zone) : m <= k
  BY <1>1, <1>2, MemoryLeast
<1>4. Min(FreeBlocks(zone)) \in FreeBlocks(zone) /\ \A b \in FreeBlocks(zone) : Min(FreeBlocks(zone)) <= b
  <2> DEFINE S == FreeBlocks(zone)
  <2>1. S \subseteq Nat /\ \E m \in S : \A k \in S : m <= k
    BY <1>2, <1>3
  <2> HIDE DEF S
  <2>2. \E m \in S : \A k \in S \ {m} : m < k
    BY <2>1
  <2>3. Min(S) \in S /\ \A k \in S : Min(S) <= k
    BY <2>1, <2>2 DEF Min
  <2> QED
    BY <2>3 DEF S
<1>5. call'.size \in 0..Cardinality(Pages)
  <2> DEFINE n == Granted(zone, w)
             d == n \div PagesPerPage
  <2>1. call'.size = IF zone = Low THEN n ELSE Max({1, d})
    BY DEF AllocateBegin
  <2>2. n \in 1..Cardinality(Pages)
    BY <1>1
  <2> HIDE DEF n
  <2>3. n \in Nat /\ Cardinality(Pages) \in Nat /\ n <= PagesPerPage * n
    <3>1. n \in Nat /\ Cardinality(Pages) \in Nat /\ PagesPerPage \in Nat /\ PagesPerPage >= 1
      BY <2>2, PageConstants
    <3>2. n * 1 <= n * PagesPerPage
      BY <3>1
    <3> QED
      BY <3>1, <3>2
  <2>4. d \in Nat /\ d <= n
    BY <2>3, EntriesFor
  <2> HIDE DEF d
  <2>5. Max({1, d}) \in {1, d}
    <3>1. Max({1, d}) = IF d <= 1 THEN 1 ELSE d
      BY <2>4 DEF Max
    <3> QED
      BY <3>1
  <2> QED
    BY <2>1, <2>2, <2>3, <2>4, <2>5
<1> QED
  BY <1>1, <1>2, <1>4, <1>5

\* The blocks that are let go.
LEMMA LetGo ==
  ASSUME MemoryTypes, SizesThere, NEW z \in Zones, NEW blocks, let_my_pages_go(z, blocks)
  PROVE  LET gone(y, b) == y = z /\ b \in blocks /\ allocated[y][b] > 0
         IN /\ allocated' = [y \in Zones |-> [b \in Blocks |-> IF gone(y, b) THEN 0 ELSE allocated[y][b]]]
            /\ pages' = [y \in Zones |-> [b \in Blocks |-> IF gone(y, b) THEN << >> ELSE pages[y][b]]]
            /\ files' = files \ UNION {BlockFiles(z, b) : b \in {c \in Blocks : gone(z, c)}}
            /\ free \subseteq free'
            /\ free' \subseteq free \cup UNION {BlockPages(z, b) : b \in {c \in Blocks : gone(z, c)}}
            /\ contents' = [p \in Pages |-> IF p \in free' \ free THEN Zeros
                                           ELSE contents'[p]]
            /\ \A p \in Pages : contents'[p] \in {Zeros, contents[p]}
            /\ \A p \in Pages : (\A b \in Blocks : gone(z, b) => p \notin BlockPages(z, b)) => contents'[p] = contents[p]
            /\ UNCHANGED <<lock, call, entries, fails, kept>>
<1> DEFINE gone(y, b) == y = z /\ b \in blocks /\ allocated[y][b] > 0
           used == {b \in Blocks : b \in blocks /\ freeCnt(z, b) > 0}
           given == UNION {Held(z, b, freeCnt(z, b)) : b \in used}
<1>1. used = {c \in Blocks : gone(z, c)}
  BY FreedEntries
<1>2. /\ allocated' = [allocated EXCEPT ![z] = [b \in Blocks |-> IF b \in used THEN 0 ELSE allocated[z][b]]]
      /\ pages' = [pages EXCEPT ![z] = [b \in Blocks |-> IF b \in used THEN << >> ELSE pages[z][b]]]
      /\ files' = files \ UNION {BlockFiles(z, b) : b \in used}
      /\ free' = free \cup given
      /\ contents' = [p \in Pages |-> IF p \in given THEN Zeros ELSE contents[p]]
      /\ UNCHANGED <<lock, call, entries, fails, kept>>
  BY DEF let_my_pages_go, Cleared
<1>3. given \subseteq UNION {BlockPages(z, b) : b \in used}
  BY HeldInBlock
<1>4. \A b \in Blocks : b \in used <=> gone(z, b)
  BY <1>1
<1> HIDE DEF used, given
<1>5. allocated' = [y \in Zones |-> [b \in Blocks |-> IF gone(y, b) THEN 0 ELSE allocated[y][b]]]
  <2>1. allocated \in [Zones -> [Blocks -> 0..Cardinality(Pages)]]
    BY Zenon DEF MemoryTypes
  <2>2. \A y \in Zones : allocated'[y] = [b \in Blocks |-> IF gone(y, b) THEN 0 ELSE allocated[y][b]]
    <3> SUFFICES ASSUME NEW y \in Zones
                 PROVE  allocated'[y] = [b \in Blocks |-> IF gone(y, b) THEN 0 ELSE allocated[y][b]]
      OBVIOUS
    <3>1. CASE y = z
      BY <1>2, <1>4, <2>1, <3>1
    <3>2. CASE y # z
      BY <1>2, <2>1, <3>2
    <3> QED
      BY <3>1, <3>2
  <2> QED
    BY <1>2, <2>1, <2>2
<1>6. pages' = [y \in Zones |-> [b \in Blocks |-> IF gone(y, b) THEN << >> ELSE pages[y][b]]]
  <2>1. pages \in [Zones -> [Blocks -> Seq(Entry)]]
    BY Zenon DEF MemoryTypes
  <2>2. \A y \in Zones : pages'[y] = [b \in Blocks |-> IF gone(y, b) THEN << >> ELSE pages[y][b]]
    <3> SUFFICES ASSUME NEW y \in Zones
                 PROVE  pages'[y] = [b \in Blocks |-> IF gone(y, b) THEN << >> ELSE pages[y][b]]
      OBVIOUS
    <3>1. CASE y = z
      BY <1>2, <1>4, <2>1, <3>1
    <3>2. CASE y # z
      BY <1>2, <2>1, <3>2
    <3> QED
      BY <3>1, <3>2
  <2> QED
    BY <1>2, <2>1, <2>2
<1>7. \A p \in Pages : (\A b \in Blocks : gone(z, b) => p \notin BlockPages(z, b)) => contents'[p] = contents[p]
  <2> SUFFICES ASSUME NEW p \in Pages, \A b \in Blocks : gone(z, b) => p \notin BlockPages(z, b)
               PROVE  contents'[p] = contents[p]
    OBVIOUS
  <2>1. \A b \in used : b \in Blocks /\ gone(z, b)
    BY <1>1
  <2>2. p \notin given
    BY <1>3, <2>1
  <2> QED
    BY <1>2, <2>2
<1>8. contents' = [p \in Pages |-> IF p \in free' \ free THEN Zeros ELSE contents'[p]]
  BY <1>2
<1> HIDE DEF gone
<1>9. /\ files' = files \ UNION {BlockFiles(z, b) : b \in {c \in Blocks : gone(z, c)}}
      /\ free' \subseteq free \cup UNION {BlockPages(z, b) : b \in {c \in Blocks : gone(z, c)}}
  BY <1>1, <1>2, <1>3
<1> QED
  BY <1>2, <1>5, <1>6, <1>7, <1>8, <1>9 DEF gone

\* What allocate_pages does for one entry.
LEMMA EntryAdded ==
  ASSUME AllocateEntry
  PROVE  \E p \in FromLow(free), got \in 0..Room : \E high \in [1..got -> free \ {p}] :
           /\ TakenHigh(free \ {p}, high)
           /\ got < Room => free = {p} \cup Range(high) \/ fails < MaxFails
           /\ fails' = IF got < Room /\ ~(free = {p} \cup Range(high)) THEN fails + 1 ELSE fails
           /\ free' = free \ ({p} \cup Range(high))
           /\ contents' = [q \in Pages |-> IF q = p /\ call.zone = High THEN Zeros ELSE contents[q]]
           /\ pages' = [pages EXCEPT ![call.zone][call.block] =
                          Append(@, [page |-> p, high |-> high])]
           /\ call' = [call EXCEPT !.i = @ + 1, !.count = CountAfter(got, got < Room)]
  BY Zenon DEF AllocateEntry

\* How a loop of allocate_pages ends early.
LEMMA CutShort ==
  ASSUME AllocateFails \/ MapFails \/ AllocateStops
  PROVE  /\ call' = [call EXCEPT !.i = Unsigned(@ - 1), !.more = FALSE]
         /\ fails' = fails \/ (fails < MaxFails /\ fails' = fails + 1)
         /\ lock' = lock \/ lock' = [lock EXCEPT ![call.zone] = TRUE]
         /\ UNCHANGED <<free, allocated, pages, contents, entries, files>>
<1>1. CASE AllocateFails
  BY <1>1 DEF AllocateFails
<1>2. CASE MapFails
  BY <1>2 DEF MapFails
<1>3. CASE AllocateStops
  BY <1>3 DEF AllocateStops
<1> QED
  BY <1>1, <1>2, <1>3

\* What the end of an allocation does, whichever files it creates.
LEMMA EndDoes ==
  ASSUME AllocateEnded
  PROVE  /\ call # NoCall /\ call' = NoCall /\ UNCHANGED <<free, pages, lock, contents, entries>>
         /\ fails' = fails \/ (fails < MaxFails /\ fails' = fails + 1)
         /\ ~AnyReported => UNCHANGED <<allocated, files>>
         /\ AnyReported => allocated' = [allocated EXCEPT ![call.zone][call.block] = PagesReported]
  BY DEF AllocateEnded, AllocateEnd

\* A block is written, or nothing happens.
LEMMA WriteOrNot ==
  ASSUME WriteBlock
  PROVE  /\ step = "write" /\ step' = "read"
         /\ UNCHANGED <<zone, j, nomem, block, pattern, failed, clean, faulty, others>>
         /\ UNCHANGED <<free, allocated, pages, lock, call, fails, entries, files, unfiled, halfFiled>>
         /\ HasFile("write") \/ UNCHANGED kernel
  BY DEF WriteBlock, WritePages, kernel

\* No step of the driver takes a variable of it out of its range.
LEMMA DriverTyped ==
  ASSUME MemoryTypes, SizesThere, CallInv,
         \/ UNCHANGED kernel
         \/ \E w : AllocateBegin(zone, w)
         \/ AllocateEntry \/ AllocateFails \/ MapFails \/ AllocateStops \/ AllocateEnded
         \/ WriteBlock
         \/ \E z \in Zones : \E blocks : let_my_pages_go(z, blocks)
         \/ OthersTake \/ OthersReturn
         \/ Load \/ (\E k \in 1..Len(CreationOrder) : LoadFails(k)) \/ Unload
  PROVE  /\ free' \subseteq Pages
         /\ allocated' \in [Zones -> [Blocks -> 0..Cardinality(Pages)]]
         /\ pages' \in [Zones -> [Blocks -> Seq(Entry)]]
         /\ lock' \in [Zones -> BOOLEAN] /\ contents' \in [Pages -> Nat]
         /\ call' \in [zone : Zones, block : Blocks \cup {EFAULT}, want : 0..Cardinality(Pages),
                       size : 0..Cardinality(Pages), i : 0..ULong - 1, count : 0..ULong - 1,
                       more : BOOLEAN]
         /\ fails' \in 0..MaxFails
<1> DEFINE Calls == [zone : Zones, block : Blocks \cup {EFAULT}, want : 0..Cardinality(Pages),
                     size : 0..Cardinality(Pages), i : 0..ULong - 1, count : 0..ULong - 1,
                     more : BOOLEAN]
           Goal == /\ free' \subseteq Pages
                   /\ allocated' \in [Zones -> [Blocks -> 0..Cardinality(Pages)]]
                   /\ pages' \in [Zones -> [Blocks -> Seq(Entry)]]
                   /\ lock' \in [Zones -> BOOLEAN] /\ contents' \in [Pages -> Nat]
                   /\ call' \in Calls
                   /\ fails' \in 0..MaxFails
<1> SUFFICES Goal
  OBVIOUS
<1>1. /\ free \subseteq Pages /\ others \subseteq Pages
      /\ allocated \in [Zones -> [Blocks -> 0..Cardinality(Pages)]]
      /\ pages \in [Zones -> [Blocks -> Seq(Entry)]]
      /\ lock \in [Zones -> BOOLEAN] /\ contents \in [Pages -> Nat] /\ call \in Calls
      /\ fails \in 0..MaxFails /\ zone \in Zones /\ pattern \in Nat
  BY Zenon DEF MemoryTypes
<1>2. << >> \in Seq(Entry) /\ Zeros \in Nat /\ 0 \in 0..Cardinality(Pages)
  BY PageConstants DEF Zeros
<1>3. /\ NoBlocks \in [Zones -> [Blocks -> 0..Cardinality(Pages)]]
      /\ NoPages \in [Zones -> [Blocks -> Seq(Entry)]]
      /\ NoCall \in Calls
  <2>1. NoCall \in Calls
    BY PageConstants DEF NoCall
  <2> QED
    BY <1>2, <2>1 DEF NoBlocks, NoPages
<1> HIDE DEF Calls
<1>4. CASE UNCHANGED kernel
  BY <1>1, <1>4 DEF kernel, Calls
<1>5. ASSUME NEW w, AllocateBegin(zone, w) PROVE Goal
  <2> DEFINE n == Granted(zone, w)
             b == Min(FreeBlocks(zone))
  <2>1. /\ n \in 1..Cardinality(Pages) /\ b \in Blocks /\ call'.size \in 0..Cardinality(Pages)
    BY <1>5, AdmittedFor
  <2>2. call' = [zone |-> zone, block |-> b, want |-> n, size |-> call'.size, i |-> 0,
                 count |-> 0, more |-> TRUE]
    BY <1>5 DEF AllocateBegin
  <2>3. /\ pages' = [pages EXCEPT ![zone][b] = << >>]
        /\ UNCHANGED <<free, allocated, lock, contents, fails>>
    BY <1>5 DEF AllocateBegin
  <2> HIDE DEF n, b
  <2>4. pages' \in [Zones -> [Blocks -> Seq(Entry)]]
    BY <1>1, <1>2, <2>1, <2>3
  <2>5. call' \in Calls
    <3> DEFINE s == call'.size
    <3>1. /\ n \in 0..Cardinality(Pages) /\ s \in 0..Cardinality(Pages) /\ b \in Blocks \cup {EFAULT}
          /\ zone \in Zones /\ 0 \in 0..ULong - 1
      BY <1>1, <2>1, PageConstants
    <3>2. call' = [zone |-> zone, block |-> b, want |-> n, size |-> s, i |-> 0, count |-> 0, more |-> TRUE]
      BY <2>2
    <3> HIDE DEF s
    <3> QED
      BY <3>1, <3>2 DEF Calls
  <2> QED
    BY <1>1, <2>3, <2>4, <2>5
<1>6. CASE AllocateEntry
  <2>1. PICK p \in FromLow(free), got \in 0..Room : \E high \in [1..got -> free \ {p}] :
          /\ got < Room => free = {p} \cup Range(high) \/ fails < MaxFails
          /\ fails' = IF got < Room /\ ~(free = {p} \cup Range(high)) THEN fails + 1 ELSE fails
          /\ free' = free \ ({p} \cup Range(high))
          /\ contents' = [q \in Pages |-> IF q = p /\ call.zone = High THEN Zeros ELSE contents[q]]
          /\ pages' = [pages EXCEPT ![call.zone][call.block] = Append(@, [page |-> p, high |-> high])]
          /\ call' = [call EXCEPT !.i = @ + 1, !.count = CountAfter(got, got < Room)]
    BY <1>6, EntryAdded, Zenon
  <2>2. PICK high \in [1..got -> free \ {p}] :
          /\ got < Room => free = {p} \cup Range(high) \/ fails < MaxFails
          /\ fails' = IF got < Room /\ ~(free = {p} \cup Range(high)) THEN fails + 1 ELSE fails
          /\ free' = free \ ({p} \cup Range(high))
          /\ contents' = [q \in Pages |-> IF q = p /\ call.zone = High THEN Zeros ELSE contents[q]]
          /\ pages' = [pages EXCEPT ![call.zone][call.block] = Append(@, [page |-> p, high |-> high])]
          /\ call' = [call EXCEPT !.i = @ + 1, !.count = CountAfter(got, got < Room)]
    BY <2>1
  <2>3. [page |-> p, high |-> high] \in Entry
    BY NewEntry
  <2>4. pages' \in [Zones -> [Blocks -> Seq(Entry)]]
    <3> DEFINE e == [page |-> p, high |-> high]
    <3>1. call.block \in Blocks \/ call.block \notin Blocks
      OBVIOUS
    <3>2. call.zone \in Zones
      BY <1>1 DEF Calls
    <3> HIDE DEF e
    <3>3. ASSUME call.block \in Blocks PROVE pages' \in [Zones -> [Blocks -> Seq(Entry)]]
      <4>1. pages[call.zone][call.block] \in Seq(Entry)
        BY <1>1, <3>2, <3>3
      <4>2. Append(pages[call.zone][call.block], e) \in Seq(Entry)
        BY <2>3, <4>1, AppendProperties DEF e
      <4>3. pages' = [pages EXCEPT ![call.zone][call.block] = Append(pages[call.zone][call.block], e)]
        BY <2>2 DEF e
      <4> HIDE DEF Entry
      <4> QED
        BY <1>1, <3>2, <3>3, <4>2, <4>3
    <3>4. ASSUME call.block \notin Blocks PROVE pages' \in [Zones -> [Blocks -> Seq(Entry)]]
      <4>1. pages' = [pages EXCEPT ![call.zone] = [pages[call.zone] EXCEPT ![call.block] = Append(@, e)]]
        BY <2>2, <1>1, <3>2 DEF e
      <4>2. [pages[call.zone] EXCEPT ![call.block] = Append(@, e)] = pages[call.zone]
        BY <1>1, <3>2, <3>4
      <4> QED
        BY <1>1, <3>2, <4>1, <4>2
    <3> QED
      BY <3>3, <3>4
  <2>5. call' \in Calls
    <3>1. call.i < call.size
      BY Zenon, <1>6 DEF AllocateEntry, InLoop
    <3>2. call.i \in 0..ULong - 1 /\ call.size \in 0..Cardinality(Pages) /\ call.count \in 0..ULong - 1
      BY <1>1 DEF Calls
    <3>3. call.i + 1 \in 0..ULong - 1 /\ 0 \in 0..ULong - 1
      BY <3>1, <3>2, PageConstants
    <3>4. CountAfter(got, got < Room) \in 0..ULong - 1
      <4>1. \A x \in Int : x % ULong \in 0..ULong - 1
        BY PageConstants
      <4>2. got \in Int
        BY NewEntry, PageConstants
      <4>3. call.count + got - (IF got < Room THEN 1 ELSE 0) \in Int
        BY <3>2, <4>2, PageConstants
      <4> QED
        BY <3>3, <4>1, <4>3 DEF CountAfter, Unsigned
    <3> QED
      BY <1>1, <2>2, <3>3, <3>4 DEF Calls
  <2>6. fails' \in 0..MaxFails
    BY <1>1, <2>2, PageConstants
  <2>7. free' \subseteq Pages /\ contents' \in [Pages -> Nat]
    BY <1>1, <1>2, <2>2
  <2>8. lock' = lock /\ allocated' = allocated
    BY Zenon, <1>6 DEF AllocateEntry
  <2> QED
    BY <1>1, <2>4, <2>5, <2>6, <2>7, <2>8
<1>7. CASE AllocateFails \/ MapFails \/ AllocateStops
  <2>1. call' = [call EXCEPT !.i = Unsigned(@ - 1), !.more = FALSE]
    BY <1>7, CutShort
  <2>2. call.i \in 0..ULong - 1 /\ call.zone \in Zones
    BY <1>1 DEF Calls
  <2>3. Unsigned(call.i - 1) \in 0..ULong - 1
    BY <2>2, UnsignedSmall, PageConstants
  <2>4. call' \in Calls
    BY <1>1, <2>1, <2>3 DEF Calls
  <2>5. /\ fails' = fails \/ (fails < MaxFails /\ fails' = fails + 1)
        /\ lock' = lock \/ lock' = [lock EXCEPT ![call.zone] = TRUE]
        /\ UNCHANGED <<free, allocated, pages, contents>>
    BY <1>7, CutShort
  <2>6. fails' \in 0..MaxFails
    BY <1>1, <2>5, PageConstants
  <2>7. lock' \in [Zones -> BOOLEAN]
    BY <1>1, <2>2, <2>5
  <2> QED
    BY <1>1, <2>4, <2>5, <2>6, <2>7
<1>8. CASE AllocateEnded
  <2>1. ASSUME AnyReported
        PROVE  allocated' \in [Zones -> [Blocks -> 0..Cardinality(Pages)]]
    <3>1. PagesReported \notin {0, ULong - 1} /\ call # NoCall
      BY <1>8, <2>1, EndDoes DEF AnyReported
    <3>2. step = "allocate" /\ call.zone = zone /\ call.block \in Blocks
      BY <3>1 DEF CallInv, FreeBlocks
    <3>3. /\ call.i \in 0..ULong - 1 /\ call.count \in 0..ULong - 1 /\ Cardinality(Pages) \in Nat
          /\ call.want \in 0..Cardinality(Pages) /\ call.size \in 0..Cardinality(Pages)
      BY <1>1, PageConstants DEF Calls
    <3>4. PagesReported \in 0..Cardinality(Pages)
      <4>1. CASE zone = High
        BY <3>1, <3>2, <3>3, <4>1, PageConstants DEF PagesReported, CallInv
      <4>2. CASE zone # High
        BY <3>1, <3>2, <3>3, <4>2, PageConstants DEF PagesReported, CallInv
      <4> QED
        BY <4>1, <4>2
    <3>5. allocated' = [allocated EXCEPT ![zone][call.block] = PagesReported]
      BY <1>8, <2>1, <3>2, EndDoes
    <3> QED
      BY <1>1, <3>2, <3>4, <3>5
  <2>2. ~AnyReported => allocated' = allocated
    BY <1>8, EndDoes
  <2>3. /\ call' = NoCall /\ UNCHANGED <<free, pages, lock, contents>>
        /\ fails' = fails \/ (fails < MaxFails /\ fails' = fails + 1)
    BY <1>8, EndDoes
  <2>4. fails' \in 0..MaxFails
    BY <1>1, <2>3, PageConstants
  <2> QED
    BY <1>1, <1>3, <2>1, <2>2, <2>3, <2>4
<1>9. CASE WriteBlock
  <2>1. UNCHANGED <<free, allocated, pages, lock, call, fails>>
    BY <1>9, WriteOrNot
  <2>2. ASSUME HasFile("write") PROVE contents' \in [Pages -> Nat]
    <3>1. contents' = [q \in Pages |->
                        IF q \in Written(zone, block, block_size(zone, block), faulty)
                        THEN pattern ELSE contents[q]]
      BY <1>9, <2>2 DEF WriteBlock, WritePages
    <3> QED
      BY <1>1, <3>1
  <2>3. UNCHANGED kernel => contents' = contents
    BY DEF kernel
  <2> QED
    BY <1>1, <1>9, <2>1, <2>2, <2>3, WriteOrNot
<1>10. ASSUME NEW z \in Zones, NEW blocks, let_my_pages_go(z, blocks) PROVE Goal
  <2> DEFINE gone(y, b) == y = z /\ b \in blocks /\ allocated[y][b] > 0
  <2>1. /\ allocated' = [y \in Zones |-> [b \in Blocks |-> IF gone(y, b) THEN 0 ELSE allocated[y][b]]]
        /\ pages' = [y \in Zones |-> [b \in Blocks |-> IF gone(y, b) THEN << >> ELSE pages[y][b]]]
        /\ free' \subseteq free \cup UNION {BlockPages(z, b) : b \in {c \in Blocks : gone(z, c)}}
        /\ UNCHANGED <<lock, call, fails>>
    BY <1>10, LetGo
  <2>2. contents' \in [Pages -> Nat]
    <3>1. contents' = [p \in Pages |-> IF p \in free' \ free THEN Zeros ELSE contents'[p]]
      BY <1>10, LetGo
    <3>2. \A p \in Pages : contents'[p] \in {Zeros, contents[p]}
      BY <1>10, LetGo
    <3>3. \A p \in Pages : contents'[p] \in Nat
      BY <1>1, <1>2, <3>2
    <3> QED
      BY <1>2, <3>1, <3>3
  <2>3. \A b \in Blocks : BlockPages(z, b) \subseteq Pages
    BY HeldInBlock
  <2> HIDE DEF gone
  <2>4. free' \subseteq Pages
    BY <1>1, <2>1, <2>3
  <2> QED
    BY <1>1, <1>2, <2>1, <2>2, <2>4
<1>11. CASE OthersTake
  BY <1>1, <1>11 DEF OthersTake
<1>12. CASE OthersReturn
  BY <1>1, <1>12 DEF OthersReturn
<1>13. CASE Load
  BY <1>1, <1>3, <1>13 DEF Load
<1>14. ASSUME NEW k \in 1..Len(CreationOrder), LoadFails(k) PROVE Goal
  BY <1>1, <1>14 DEF LoadFails
<1>15. CASE Unload
  <2> DEFINE used == {zb \in Zones \X Blocks : freeCnt(zb[1], zb[2]) > 0}
             given == UNION {Held(zb[1], zb[2], freeCnt(zb[1], zb[2])) : zb \in used}
  <2>1. /\ free' = free \cup given
        /\ contents' = [p \in Pages |-> IF p \in given THEN Zeros ELSE contents[p]]
        /\ allocated' = NoBlocks /\ pages' = NoPages
        /\ lock' = [z \in Zones |-> FALSE] /\ UNCHANGED <<call, fails>>
    BY <1>15 DEF Unload, Cleared
  <2>2. given \subseteq Pages
    <3>1. \A z \in Zones, b \in Blocks : Held(z, b, freeCnt(z, b)) \subseteq Pages
      BY HeldInBlock
    <3> QED
      BY <3>1
  <2> HIDE DEF given
  <2> QED
    BY <1>1, <1>2, <1>3, <2>1, <2>2
<1> QED
  BY <1>4, <1>5, <1>6, <1>7, <1>8, <1>9, <1>10, <1>11, <1>12, <1>13, <1>14, <1>15 DEF Calls

\* The constants of the test.
LEMMA TestConstants ==
  \A z \in Zones : BlocksOf[z] \in Nat /\ BlocksOf[z] > 0 /\ BlocksOf[z] + 1 <= MaxBlocks
<1>1. \A z \in Zones : BlocksOf[z] \in Nat \ {0} /\ BlocksOf[z] < MaxBlocks
  BY TestAssumption
<1> QED
  BY <1>1, PageConstants

\* A request either begins an allocation or is refused.
LEMMA Requested ==
  ASSUME NextBlock
  PROVE  /\ step = "block" /\ pattern' = pattern + 1
         /\ UNCHANGED <<zone, j, nomem, buffer, failed, clean, faulty, others>>
         /\ \/ (\E w : AllocateBegin(zone, w)) /\ step' = "allocate" /\ block' = block
            \/ step' = "write" /\ block' = EFAULT /\ UNCHANGED kernel
  BY DEF NextBlock, Request

\* Every step has a step of the driver, or none.
LEMMA DriverSteps ==
  ASSUME MemoryTypes, [MemoryNext]_memoryVars
  PROVE  \/ UNCHANGED kernel
         \/ \E w : AllocateBegin(zone, w)
         \/ AllocateEntry \/ AllocateFails \/ MapFails \/ AllocateStops \/ AllocateEnded
         \/ WriteBlock
         \/ \E z \in Zones : \E blocks : let_my_pages_go(z, blocks)
         \/ OthersTake \/ OthersReturn
         \/ Load \/ (\E k \in 1..Len(CreationOrder) : LoadFails(k)) \/ Unload
<1>0. zone \in Zones /\ Low \in Zones /\ High \in Zones
  BY Zenon DEF MemoryTypes, Zones
<1>1. CASE UNCHANGED memoryVars
  BY <1>1 DEF memoryVars
<1>2. CASE TestMemory \/ NoMemory \/ ReadBlock \/ Signal
  BY <1>2 DEF TestMemory, NoMemory, ReadBlock, Signal
<1>3. CASE NextBlock
  BY <1>3, Requested
<1>4. CASE Allocating
  BY <1>4 DEF Allocating
<1>5. CASE Allocated
  BY <1>5 DEF Allocated, AllocateEnded
<1>6. CASE WriteBlock
  BY <1>6
<1>7. CASE FreeMemory
  <2>1. \E blocks : let_my_pages_go(zone, blocks)
    BY <1>7 DEF FreeMemory
  <2> QED
    BY <1>0, <2>1
<1>8. CASE HandleSignal
  <2>1. \E z \in {Low, High} : let_my_pages_go(z, Blocks)
    BY Zenon, <1>8 DEF HandleSignal
  <2> QED
    BY <1>0, <2>1
<1>9. CASE OthersTake \/ OthersReturn
  BY <1>9
<1>10. CASE LoadDriver
  BY <1>10 DEF LoadDriver
<1> QED
  BY <1>1, <1>2, <1>3, <1>4, <1>5, <1>6, <1>7, <1>8, <1>9, <1>10 DEF MemoryNext, ProgramStep

\* What could not be created is not forgotten.
LEMMA HistoryGrows ==
  ASSUME MemoryTypes, [MemoryNext]_memoryVars
  PROVE  unfiled \subseteq unfiled' /\ (halfFiled => halfFiled')
<1> DEFINE Goal == unfiled \subseteq unfiled' /\ (halfFiled => halfFiled')
<1>1. CASE UNCHANGED kernel \/ WriteBlock \/ OthersTake \/ OthersReturn
  BY <1>1, WriteOrNot DEF kernel, OthersTake, OthersReturn
<1>2. ASSUME NEW w, AllocateBegin(zone, w) PROVE Goal
  BY <1>2 DEF AllocateBegin
<1>3. CASE AllocateEntry \/ AllocateFails \/ MapFails \/ AllocateStops
  <2>1. AllocateEntry => UNCHANGED <<unfiled, halfFiled>>
    BY Zenon DEF AllocateEntry
  <2>2. AllocateFails \/ MapFails \/ AllocateStops => UNCHANGED <<unfiled, halfFiled>>
    BY DEF AllocateFails, MapFails, AllocateStops
  <2> QED
    BY <1>3, <2>1, <2>2
<1>4. CASE AllocateEnded
  BY <1>4 DEF AllocateEnded, AllocateEnd
<1>5. ASSUME NEW z \in Zones, NEW blocks, let_my_pages_go(z, blocks) PROVE Goal
  BY <1>5 DEF let_my_pages_go
<1>6. CASE Load \/ Unload
  BY <1>6 DEF Load, Unload
<1>7. ASSUME NEW k \in 1..Len(CreationOrder), LoadFails(k) PROVE Goal
  BY <1>7 DEF LoadFails
<1> QED
  BY <1>1, <1>2, <1>3, <1>4, <1>5, <1>6, <1>7, DriverSteps, Zenon

LEMMA ProgramTyped ==
  ASSUME MemoryTypes, CallInv, ProgressInv, [MemoryNext]_memoryVars
  PROVE  /\ others' \subseteq Pages
         /\ step' \in InTest \cup {"idle", "signal", "signal high"} /\ zone' \in Zones
         /\ block' \in Blocks \cup {EFAULT} /\ j' \in -1..MaxBlocks
         /\ pattern' \in Nat /\ nomem' \in BOOLEAN /\ failed' \in BOOLEAN /\ clean' \in BOOLEAN
<1> DEFINE Goal == /\ others' \subseteq Pages
                   /\ step' \in InTest \cup {"idle", "signal", "signal high"} /\ zone' \in Zones
                   /\ block' \in Blocks \cup {EFAULT} /\ j' \in -1..MaxBlocks
                   /\ pattern' \in Nat /\ nomem' \in BOOLEAN /\ failed' \in BOOLEAN /\ clean' \in BOOLEAN
<1>0. /\ others \subseteq Pages /\ free \subseteq Pages
      /\ step \in InTest \cup {"idle", "signal", "signal high"} /\ zone \in Zones
      /\ block \in Blocks \cup {EFAULT} /\ j \in -1..MaxBlocks
      /\ pattern \in Nat /\ nomem \in BOOLEAN /\ failed \in BOOLEAN /\ clean \in BOOLEAN
      /\ Zeros \in Nat /\ 0 \in -1..MaxBlocks /\ MaxBlocks \in Nat
  <2>1. /\ others \subseteq Pages /\ free \subseteq Pages
        /\ step \in InTest \cup {"idle", "signal", "signal high"} /\ zone \in Zones
        /\ block \in Blocks \cup {EFAULT} /\ j \in -1..MaxBlocks
        /\ pattern \in Nat /\ nomem \in BOOLEAN /\ failed \in BOOLEAN /\ clean \in BOOLEAN
    BY Zenon DEF MemoryTypes
  <2>2. Zeros \in Nat /\ 0 \in -1..MaxBlocks /\ MaxBlocks \in Nat
    BY PageConstants DEF Zeros
  <2> QED
    BY Zenon, <2>1, <2>2
<1>1. CASE UNCHANGED memoryVars
  BY Zenon, <1>0, <1>1 DEF memoryVars, memtest
<1>2. CASE TestMemory
  <2>1. zone' \in Zones
    BY <1>2, <1>0, PageConstants DEF TestMemory, OtherZone
  <2>2. clean' \in BOOLEAN /\ failed' \in BOOLEAN
    BY <1>2, <1>0 DEF TestMemory, NoneAllocated
  <2>3. \/ UNCHANGED <<step, j, nomem, block, pattern>>
        \/ step' = "block" /\ j' = 0 /\ nomem' = FALSE /\ pattern' = Zeros /\ block' = EFAULT
    BY <1>2 DEF TestMemory, locals
  <2>4. others' = others
    BY <1>2 DEF TestMemory
  <2> QED
    BY Zenon, <1>0, <2>1, <2>2, <2>3, <2>4 DEF InTest
<1>3. CASE NextBlock
  <2>1. \/ step' = "allocate" /\ block' = block
        \/ step' = "write" /\ block' = EFAULT
    BY <1>3, Requested
  <2>2. pattern' = pattern + 1 /\ UNCHANGED <<zone, j, nomem, failed, clean, others>>
    BY <1>3, Requested
  <2>3. pattern' \in Nat
    <3>1. pattern \in Nat /\ pattern' = pattern + 1
      BY <1>0, <2>2, Zenon
    <3> QED
      BY <3>1
  <2>4. step' \in InTest \cup {"idle", "signal", "signal high"} /\ block' \in Blocks \cup {EFAULT}
    BY Zenon, <1>0, <2>1 DEF InTest
  <2> QED
    BY Zenon, <1>0, <2>2, <2>3, <2>4
<1>4. CASE NoMemory
  <2>1. j \in 0..BlocksOf[zone] /\ BlocksOf[zone] \in Nat
    BY <1>0, <1>4, TestConstants DEF NoMemory, ProgressInv, InTest
  <2>2. j' = j - 1 /\ step' = "free" /\ nomem' = TRUE /\ UNCHANGED <<zone, block, pattern, failed, clean, others>>
    BY <1>4 DEF NoMemory
  <2>3. j' \in -1..MaxBlocks
    <3> DEFINE n == BlocksOf[zone]
    <3>1. j \in 0..n /\ n \in Nat /\ j \in -1..MaxBlocks /\ MaxBlocks \in Nat /\ j' = j - 1
      BY Zenon, <1>0, <2>1, <2>2
    <3> HIDE DEF n
    <3> QED
      BY <3>1
  <2> QED
    BY Zenon, <1>0, <2>2, <2>3 DEF InTest
<1>5. CASE Allocating
  BY Zenon, <1>0, <1>5 DEF Allocating, memtest
<1>6. CASE Allocated
  <2>1. (\A created : Result(created) \in {EFAULT, call.block}) /\ call.block \in Blocks \cup {EFAULT}
    BY Zenon DEF MemoryTypes, Result
  <2> QED
    BY Zenon, <1>0, <1>6, <2>1 DEF Allocated, InTest
<1>7. CASE WriteBlock
  BY <1>0, <1>7 DEF WriteBlock, InTest
<1>8. CASE ReadBlock
  <2>1. j \in 0..BlocksOf[zone] /\ BlocksOf[zone] \in Nat /\ BlocksOf[zone] + 1 <= MaxBlocks
    BY <1>0, <1>8, TestConstants DEF ReadBlock, ProgressInv, InTest
  <2>2. j' = j + 1 /\ step' \in {"free", "block"} /\ UNCHANGED <<zone, nomem, block, pattern, clean, others>>
    BY <1>8 DEF ReadBlock
  <2>3. j' \in -1..MaxBlocks
    <3> DEFINE n == BlocksOf[zone]
    <3>1. j \in 0..n /\ n \in Nat /\ n + 1 <= MaxBlocks /\ MaxBlocks \in Nat /\ j' = j + 1
      BY Zenon, <1>0, <2>1, <2>2
    <3> HIDE DEF n
    <3> QED
      BY <3>1
  <2>4. failed' \in BOOLEAN
    BY <1>8 DEF ReadBlock
  <2> QED
    BY Zenon, <1>0, <2>2, <2>3, <2>4 DEF InTest
<1>9. CASE FreeMemory
  BY <1>0, <1>9 DEF FreeMemory, LocalsEnd
<1>10. CASE Signal
  BY Zenon, <1>0, <1>10 DEF Signal, LocalsEnd
<1>11. CASE HandleSignal
  <2>1. step' \in {"signal high", "idle"} /\ zone' \in {zone, High}
        /\ UNCHANGED <<j, nomem, block, pattern, failed, clean, others>>
    BY Zenon, <1>11 DEF HandleSignal, locals
  <2> QED
    BY Zenon, <1>0, <2>1, PageConstants
<1>12. CASE OthersTake
  <2>1. /\ UNCHANGED <<step, zone, j, nomem, block, pattern, failed, clean>>
        /\ \E p : free' = free \ {p} /\ others' = others \cup {p} /\ p \in FromLow(free) \cup FromHigh(free)
    BY <1>12 DEF OthersTake, memtest
  <2>2. FromLow(free) \cup FromHigh(free) \subseteq free
    BY Zenon, <1>0, TakenFree
  <2> QED
    BY Zenon, <1>0, <2>1, <2>2
<1>13. CASE OthersReturn
  <2>1. /\ UNCHANGED <<step, zone, j, nomem, block, pattern, failed, clean>>
        /\ others' \subseteq others
    BY <1>13 DEF OthersReturn, memtest
  <2> QED
    BY Zenon, <1>0, <2>1
<1>14. CASE LoadDriver
  BY <1>0, <1>14 DEF LoadDriver, memtest
<1> QED
  BY Zenon, <1>1, <1>2, <1>3, <1>4, <1>5, <1>6, <1>7, <1>8, <1>9, <1>10, <1>11, <1>12, <1>13, <1>14
  DEF MemoryNext, ProgramStep

\* Every step keeps the variables to their ranges.
LEMMA MemoryTypesKept ==
  ASSUME MemoryTypes, SizesThere, CallInv, ProgressInv, [MemoryNext]_memoryVars
  PROVE  MemoryTypes'
<1>1. /\ free' \subseteq Pages
      /\ allocated' \in [Zones -> [Blocks -> 0..Cardinality(Pages)]]
      /\ pages' \in [Zones -> [Blocks -> Seq(Entry)]]
      /\ lock' \in [Zones -> BOOLEAN] /\ contents' \in [Pages -> Nat]
      /\ call' \in [zone : Zones, block : Blocks \cup {EFAULT}, want : 0..Cardinality(Pages),
                    size : 0..Cardinality(Pages), i : 0..ULong - 1, count : 0..ULong - 1,
                    more : BOOLEAN]
      /\ fails' \in 0..MaxFails
  BY DriverSteps, DriverTyped, Zenon
<1>2. /\ others' \subseteq Pages
      /\ step' \in InTest \cup {"idle", "signal", "signal high"} /\ zone' \in Zones
      /\ block' \in Blocks \cup {EFAULT} /\ j' \in -1..MaxBlocks
      /\ pattern' \in Nat /\ nomem' \in BOOLEAN /\ failed' \in BOOLEAN /\ clean' \in BOOLEAN
  BY ProgramTyped, Zenon
<1> QED
  BY <1>1, <1>2, Zenon DEF MemoryTypes

-----------------------------------------------------------------------------------
(* An allocation, and the sizes that blocks report *)

\* An allocation goes on only in a test that waits for it, for a block of its zone.
LEMMA CallOpen ==
  ASSUME MemoryTypes, CallInv, call # NoCall \/ InLoop
  PROVE  /\ step = "allocate" /\ call.zone = zone /\ zone \in Zones /\ call.block \in Blocks
         /\ call.block # EFAULT /\ allocated[zone][call.block] = 0 /\ call.want > 0
         /\ call.want \in 0..Cardinality(Pages) /\ call.size \in 0..Cardinality(Pages)
         /\ call.i \in 0..ULong - 1 /\ call.count \in 0..ULong - 1
<1>1. step = "allocate"
  <2>1. call = NoCall => ~InLoop
    BY DEF NoCall, InLoop
  <2> QED
    BY <2>1 DEF CallInv
<1>2. call.zone = zone /\ call.block \in FreeBlocks(zone) /\ call.want > 0
  BY <1>1 DEF CallInv
<1>3. /\ call.want \in 0..Cardinality(Pages) /\ call.size \in 0..Cardinality(Pages)
      /\ call.i \in 0..ULong - 1 /\ call.count \in 0..ULong - 1 /\ zone \in Zones
  BY Zenon DEF MemoryTypes
<1> QED
  BY <1>1, <1>2, <1>3, PageConstants DEF FreeBlocks

\* The block in progress grows by one entry.
EntryGrown(p, got, high) ==
  LET e    == [page |-> p, high |-> high]
      here == pages[zone][call.block]
  IN /\ e \in Entry /\ TakenHigh(free \ {p}, high) /\ p \in free /\ p \in Pages
     /\ Range(high) \subseteq free \ {p} /\ EntryPages(e) = {p} \cup Range(high)
     /\ free' = free \ EntryPages(e)
     /\ contents' = [q \in Pages |-> IF q = p /\ zone = High THEN Zeros ELSE contents[q]]
     /\ \A z \in Zones, b \in Blocks :
          pages'[z][b] = IF z = zone /\ b = call.block THEN Append(here, e) ELSE pages[z][b]
     /\ Len(Append(here, e)) = Len(here) + 1
     /\ \A k \in 1..Len(here) : Append(here, e)[k] = here[k]
     /\ Append(here, e)[Len(here) + 1] = e
     /\ call' = [call EXCEPT !.i = @ + 1, !.count = CountAfter(got, got < Room)]

LEMMA BlockGrows ==
  ASSUME MemoryTypes, CallInv, AllocateEntry
  PROVE  \E p \in FromLow(free), got \in 0..Room : \E high \in [1..got -> free \ {p}] :
           EntryGrown(p, got, high)
<1>0. step = "allocate" /\ call.zone = zone /\ zone \in Zones /\ call.block \in Blocks
  BY CallOpen DEF AllocateEntry
<1>1. PICK p \in FromLow(free), got \in 0..Room : \E high \in [1..got -> free \ {p}] :
          /\ TakenHigh(free \ {p}, high)
          /\ free' = free \ ({p} \cup Range(high))
          /\ contents' = [q \in Pages |-> IF q = p /\ call.zone = High THEN Zeros ELSE contents[q]]
          /\ pages' = [pages EXCEPT ![call.zone][call.block] = Append(@, [page |-> p, high |-> high])]
          /\ call' = [call EXCEPT !.i = @ + 1, !.count = CountAfter(got, got < Room)]
  BY EntryAdded, Zenon
<1>2. PICK high \in [1..got -> free \ {p}] :
          /\ TakenHigh(free \ {p}, high)
          /\ free' = free \ ({p} \cup Range(high))
          /\ contents' = [q \in Pages |-> IF q = p /\ call.zone = High THEN Zeros ELSE contents[q]]
          /\ pages' = [pages EXCEPT ![call.zone][call.block] = Append(@, [page |-> p, high |-> high])]
          /\ call' = [call EXCEPT !.i = @ + 1, !.count = CountAfter(got, got < Room)]
  BY <1>1
<1> DEFINE e == [page |-> p, high |-> high]
           here == pages[zone][call.block]
<1>3. e \in Entry /\ p \in free /\ p \in Pages /\ Range(high) \subseteq free \ {p}
  BY NewEntry
<1>4. EntryPages(e) = {p} \cup Range(high)
  BY DEF EntryPages
<1>5. here \in Seq(Entry)
  BY <1>0, BlockTyped
<1>6. pages' = [pages EXCEPT ![zone][call.block] = Append(here, e)]
  BY <1>0, <1>2
<1>7. pages \in [Zones -> [Blocks -> Seq(Entry)]]
  BY Zenon DEF MemoryTypes
<1> HIDE DEF e, here, Entry
<1>8. /\ Len(Append(here, e)) = Len(here) + 1
      /\ \A k \in 1..Len(here) : Append(here, e)[k] = here[k]
      /\ Append(here, e)[Len(here) + 1] = e
  BY <1>3, <1>5, AppendProperties
<1>9. \A z \in Zones, b \in Blocks :
         pages'[z][b] = IF z = zone /\ b = call.block THEN Append(here, e) ELSE pages[z][b]
  BY <1>0, <1>6, <1>7
<1>10. contents' = [q \in Pages |-> IF q = p /\ zone = High THEN Zeros ELSE contents[q]]
  BY <1>0, <1>2
<1>11. free' = free \ EntryPages(e)
  BY <1>2, <1>4
<1>12. EntryGrown(p, got, high)
  <2>1. TakenHigh(free \ {p}, high) /\ call' = [call EXCEPT !.i = @ + 1, !.count = CountAfter(got, got < Room)]
    BY <1>2
  <2> QED
    BY <1>3, <1>4, <1>8, <1>9, <1>10, <1>11, <2>1, Zenon DEF e, here, EntryGrown
<1> QED
  BY <1>12

\* The pages of high memory that an entry adds are counted, one less when one is missing.
LEMMA Counting ==
  ASSUME MemoryTypes, CallInv, call.zone = High, NEW p \in FromLow(free), NEW got \in 0..Room,
         NEW high \in [1..got -> free \ {p}], InLoop
  PROVE  LET after == CountAfter(got, got < Room)
         IN after # ULong - 1 =>
              /\ call.count # ULong - 1 /\ after <= call.count + got /\ after <= call.want
              /\ call.count = 0 => got > 0
<1> DEFINE n == call.count
           w == call.want
           C == Cardinality(Pages)
           less == IF got < Room THEN 1 ELSE 0
<1>1. n \in 0..ULong - 1 /\ w \in 0..C /\ w > 0 /\ C \in Nat /\ C * 2 < ULong /\ ULong \in Nat
  BY CallOpen, PageConstants
<1>2. /\ got \in Nat /\ Room \in Nat /\ got <= Room
      /\ Room # 0 => Room <= w - n
      /\ n < w => Room > 0
  <2>1. /\ got \in 0..PagesPerPage /\ Room \in 0..PagesPerPage /\ got \in 0..Room
        /\ Room # 0 => Room <= call.want - call.count
        /\ call.count < call.want => Room > 0
    <3>1. /\ got \in 0..PagesPerPage /\ Room \in 0..PagesPerPage
          /\ Room # 0 => call.zone = High /\ Room <= call.want - call.count
          /\ call.zone = High /\ call.count < call.want => Room > 0
      BY NewEntry, Zenon
    <3> QED
      BY <3>1
  <2> QED
    BY <2>1, PageConstants
<1>3. CountAfter(got, got < Room) = Unsigned(n + got - less)
  BY PageConstants DEF CountAfter
<1>4. n # ULong - 1 => n <= w
  BY CallOpen DEF CallInv
<1> HIDE DEF n, w, C, less
<1>5. n + got - less \in -1..ULong - 1 /\ less \in {0, 1} /\ (got = Room => less = 0) /\ (got # Room => less = 1)
  BY <1>1, <1>2, <1>4 DEF less
<1>6. Unsigned(n + got - less) = IF n + got - less = -1 THEN ULong - 1 ELSE n + got - less
  BY <1>5, UnsignedSmall
<1>7. CASE n = ULong - 1
  <2>1. Room = 0
    BY <1>1, <1>2, <1>7
  <2>2. got = 0 /\ less = 0
    BY <1>2, <1>5, <2>1
  <2> QED
    BY <1>1, <1>3, <1>5, <1>6, <1>7, <2>2
<1>8. CASE n # ULong - 1
  <2>1. n + got <= w
    BY <1>1, <1>2, <1>4, <1>8
  <2>2. n = 0 /\ got = 0 => less = 1
    BY <1>1, <1>2, <1>5
  <2> DEFINE m == n + got - less
             after == Unsigned(m)
  <2>3. ASSUME after # ULong - 1 PROVE after <= n + got /\ after <= w /\ (n = 0 => got > 0)
    <3>1. m # -1 /\ after = m
      BY <1>6, <2>3
    <3>2. n \in Int /\ got \in Int /\ less \in {0, 1} /\ w \in Int /\ got >= 0
      BY <1>1, <1>2, <1>5
    <3> HIDE DEF after
    <3> QED
      BY <2>1, <2>2, <3>1, <3>2
  <2> QED
    BY <1>3, <1>8, <2>3 DEF n, w
<1> QED
  BY <1>7, <1>8

\* What is known of the allocation in progress stays true.
LEMMA CallKept ==
  ASSUME MemoryTypes, CallInv, SizesThere, [MemoryNext]_memoryVars
  PROVE  CallInv'
<1>0. /\ zone \in Zones /\ pages \in [Zones -> [Blocks -> Seq(Entry)]]
      /\ allocated \in [Zones -> [Blocks -> 0..Cardinality(Pages)]]
  BY Zenon DEF MemoryTypes
<1>1. CASE UNCHANGED memoryVars
  BY <1>1 DEF memoryVars, memtest, kernel, CallInv, FreeBlocks
<1>2. CASE TestMemory
  BY <1>2 DEF TestMemory, CallInv, kernel
<1>3. CASE NextBlock
  <2>1. CASE step' = "allocate" /\ \E w : AllocateBegin(zone, w)
    <3>1. PICK w : AllocateBegin(zone, w)
      BY <2>1
    <3> DEFINE n == Granted(zone, w)
               b == Min(FreeBlocks(zone))
               places == call'.size
    <3>2. n \in 1..Cardinality(Pages) /\ b \in FreeBlocks(zone) /\ b \in Blocks /\ places \in 0..Cardinality(Pages)
      BY <3>1, AdmittedFor
    <3>3. /\ call' = [zone |-> zone, block |-> b, want |-> n, size |-> places, i |-> 0,
                      count |-> 0, more |-> TRUE]
          /\ pages' = [pages EXCEPT ![zone][b] = << >>]
          /\ UNCHANGED allocated
      BY <3>1 DEF AllocateBegin
    <3> HIDE DEF n, b, places
    <3>4. /\ call'.zone = zone /\ call'.block = b /\ call'.want = n /\ call'.size = places
          /\ call'.i = 0 /\ call'.count = 0
      BY <3>3
    <3>5. zone' = zone /\ pages'[zone][b] = << >> /\ FreeBlocks(zone)' = FreeBlocks(zone)
      BY <1>0, <1>3, <3>2, <3>3, Requested DEF FreeBlocks
    <3>6. n > 0 /\ 0 <= places /\ Len(<< >>) = 0 /\ 0 <= n /\ PagesPerPage * 0 = 0
      BY <3>2, PageConstants
    <3> QED
      BY <2>1, <3>2, <3>4, <3>5, <3>6 DEF CallInv
  <2>2. CASE step' = "write" /\ UNCHANGED kernel
    BY <1>3, <2>2, Requested DEF CallInv, kernel
  <2> QED
    BY <1>3, <2>1, <2>2, Requested
<1>4. CASE NoMemory
  BY <1>4 DEF NoMemory, CallInv, kernel
<1>5. CASE AllocateEntry /\ UNCHANGED memtest
  <2>0. /\ InLoop /\ call.i < call.size /\ UNCHANGED <<step, zone, allocated>>
    BY <1>5 DEF AllocateEntry, InLoop, memtest
  <2>1. /\ step = "allocate" /\ call.zone = zone /\ call.block \in Blocks /\ allocated[zone][call.block] = 0
        /\ call.want > 0 /\ call.size \in 0..Cardinality(Pages) /\ call.i \in 0..ULong - 1
        /\ call.count \in 0..ULong - 1
    BY <2>0, CallOpen
  <2> DEFINE here == pages[zone][call.block]
  <2>2. PICK p \in FromLow(free), got \in 0..Room : \E high \in [1..got -> free \ {p}] :
           EntryGrown(p, got, high)
    BY <1>5, BlockGrows, Zenon
  <2>3. PICK high \in [1..got -> free \ {p}] : EntryGrown(p, got, high)
    BY <2>2
  <2> DEFINE e == [page |-> p, high |-> high]
             after == Append(here, e)
             count == CountAfter(got, got < Room)
  <2>4. /\ pages'[zone][call.block] = after /\ Len(after) = Len(here) + 1 /\ Len(here) \in Nat
        /\ \A k \in 1..Len(here) : after[k] = here[k]
        /\ after[Len(here) + 1] = e
    BY <1>0, <2>1, <2>3, BlockTyped DEF EntryGrown
  <2>5. call \in [zone : Zones, block : Blocks \cup {EFAULT}, want : 0..Cardinality(Pages),
                  size : 0..Cardinality(Pages), i : 0..ULong - 1, count : 0..ULong - 1, more : BOOLEAN]
    BY Zenon DEF MemoryTypes
  <2>6. /\ call'.zone = call.zone /\ call'.block = call.block /\ call'.want = call.want
        /\ call'.size = call.size /\ call'.i = call.i + 1 /\ call'.count = count
    <3>1. call' = [call EXCEPT !.i = call.i + 1, !.count = count]
      BY <2>3 DEF EntryGrown
    <3> HIDE DEF count
    <3> QED
      BY <2>5, <3>1
  <2>7. e.high = high /\ Len(high) = got /\ got \in 0..PagesPerPage
    BY NewEntry
  <2>8. FreeBlocks(zone)' = FreeBlocks(zone) /\ call.block \in FreeBlocks(zone)
    BY <2>0, <2>1 DEF FreeBlocks
  <2> HIDE DEF e, after, here, count
  <2>9. call'.i <= Len(after) /\ call'.i <= call'.size
    <3>1. call.i # ULong - 1
      BY <2>0, <2>1, PageConstants
    <3>2. call.i <= Len(here)
      BY <2>1, <3>1 DEF CallInv, here
    <3> QED
      BY <2>0, <2>1, <2>4, <2>6, <3>2, PageConstants
  <2>10. ASSUME zone = High, count # ULong - 1
         PROVE  /\ count <= call.want /\ count <= PagesPerPage * Len(after)
                /\ after[1].high # << >>
    <3>1. /\ call.count # ULong - 1 /\ count <= call.count + got /\ count <= call.want
          /\ call.count = 0 => got > 0
      BY <2>0, <2>1, <2>10, Counting DEF count
    <3>2. /\ call.count <= PagesPerPage * Len(here)
          /\ here # << >> => here[1].high # << >>
      BY <2>1, <2>10, <3>1 DEF CallInv, here
    <3>3. PagesPerPage * Len(after) = PagesPerPage * Len(here) + PagesPerPage
      BY <2>4, PageConstants
    <3>4. PagesPerPage * Len(here) \in Int /\ got \in Int /\ PagesPerPage \in Int /\ ULong \in Int
      BY <2>4, <2>7, PageConstants
    <3>5. count \in Int
      <4>1. \A x \in Int : x % ULong \in Int
        BY PageConstants
      <4>2. call.count + got - (IF got < Room THEN 1 ELSE 0) \in Int
        BY <2>1, <3>4
      <4> QED
        BY <4>1, <4>2 DEF count, CountAfter, Unsigned
    <3>6. count <= PagesPerPage * Len(after)
      <4> DEFINE x == PagesPerPage * Len(here)
                 y == PagesPerPage * Len(after)
      <4>1. x \in Int /\ y = x + PagesPerPage /\ call.count <= x /\ count <= call.count + got
            /\ got <= PagesPerPage /\ call.count \in Int
        BY <2>1, <2>7, <3>1, <3>2, <3>3, <3>4, PageConstants
      <4> HIDE DEF x, y
      <4>2. count <= y
        BY <4>1, <3>4, <3>5
      <4> QED
        BY <4>2 DEF y
    <3>7. after[1].high # << >>
      <4>1. CASE Len(here) = 0
        <5>1. PagesPerPage * Len(here) = 0
          BY <4>1, PageConstants
        <5>2. call.count = 0
          BY <2>1, <3>2, <5>1, PageConstants
        <5>3. after[1].high = high /\ Len(high) > 0
          BY <2>4, <2>7, <3>1, <4>1, <5>2
        <5> QED
          BY <5>3
      <4>2. CASE Len(here) # 0
        <5>1. here # << >> /\ 1 \in 1..Len(here)
          BY <2>4, <4>2
        <5> QED
          BY <2>4, <3>2, <5>1
      <4> QED
        BY <4>1, <4>2
    <3> QED
      BY <3>1, <3>6, <3>7
  <2> QED
    BY <2>0, <2>1, <2>4, <2>6, <2>8, <2>9, <2>10 DEF CallInv
<1>6. CASE (AllocateFails \/ MapFails \/ AllocateStops) /\ UNCHANGED memtest
  <2>0. InLoop /\ UNCHANGED <<step, zone, allocated, pages>>
    BY <1>6, CutShort DEF AllocateFails, MapFails, AllocateStops, memtest
  <2>1. /\ step = "allocate" /\ call.zone = zone /\ call.block \in Blocks /\ allocated[zone][call.block] = 0
        /\ call.want > 0 /\ call.size \in 0..Cardinality(Pages) /\ call.i \in 0..ULong - 1
        /\ call.count \in 0..ULong - 1
    BY <2>0, CallOpen
  <2>2. call' = [call EXCEPT !.i = Unsigned(call.i - 1), !.more = FALSE]
    BY <1>6, CutShort
  <2>3. call \in [zone : Zones, block : Blocks \cup {EFAULT}, want : 0..Cardinality(Pages),
                  size : 0..Cardinality(Pages), i : 0..ULong - 1, count : 0..ULong - 1, more : BOOLEAN]
    BY Zenon DEF MemoryTypes
  <2>4. /\ call'.zone = call.zone /\ call'.block = call.block /\ call'.want = call.want
        /\ call'.size = call.size /\ call'.i = Unsigned(call.i - 1) /\ call'.count = call.count
    BY <2>2, <2>3
  <2>5. Unsigned(call.i - 1) = IF call.i = 0 THEN ULong - 1 ELSE call.i - 1
    BY <2>1, UnsignedSmall, PageConstants
  <2>6. FreeBlocks(zone)' = FreeBlocks(zone) /\ call.block \in FreeBlocks(zone)
    BY <2>0, <2>1 DEF FreeBlocks
  <2>7. call'.i # ULong - 1 => call'.i <= Len(pages[zone][call.block]) /\ call'.i <= call.size
    <3>1. call.i # ULong - 1
      BY <2>0, <2>1, PageConstants DEF InLoop
    <3>2. call.i <= Len(pages[zone][call.block]) /\ call.i <= call.size
      BY <2>1, <3>1 DEF CallInv
    <3>3. Len(pages[zone][call.block]) \in Nat /\ call.size \in Nat
      BY <1>0, <2>1, BlockTyped, PageConstants
    <3> QED
      BY <2>1, <2>4, <2>5, <3>2, <3>3
  <2>8. zone = High /\ call.count # ULong - 1 =>
               /\ call.count <= call.want /\ call.count <= PagesPerPage * Len(pages[zone][call.block])
               /\ pages[zone][call.block] # << >> => pages[zone][call.block][1].high # << >>
    BY <2>1 DEF CallInv
  <2> QED
    BY <2>0, <2>1, <2>4, <2>6, <2>7, <2>8 DEF CallInv
<1>7. CASE Allocated
  BY <1>7 DEF Allocated, AllocateEnd, CallInv
<1>8. CASE WriteBlock
  BY <1>8, WriteOrNot DEF CallInv
<1>9. CASE ReadBlock
  BY <1>9 DEF ReadBlock, CallInv, kernel
<1>10. CASE FreeMemory
  BY <1>10 DEF FreeMemory, let_my_pages_go, CallInv
<1>11. CASE Signal
  BY <1>11 DEF Signal, CallInv, kernel
<1>12. CASE HandleSignal
  BY Zenon, <1>12 DEF HandleSignal, let_my_pages_go, CallInv
<1>13. CASE OthersTake \/ OthersReturn
  <2>1. UNCHANGED <<step, zone, call, pages, allocated>>
    BY <1>13 DEF OthersTake, OthersReturn, memtest
  <2> QED
    BY <2>1 DEF CallInv, FreeBlocks
<1>14. CASE LoadDriver
  <2>1. step = "idle" /\ UNCHANGED <<step, call>>
    BY <1>14 DEF LoadDriver, Load, LoadFails, Unload, memtest
  <2> QED
    BY <2>1 DEF CallInv
<1> QED
  BY <1>1, <1>2, <1>3, <1>4, <1>5, <1>6, <1>7, <1>8, <1>9, <1>10, <1>11, <1>12, <1>13, <1>14
  DEF MemoryNext, ProgramStep, Allocating

\* A size that does not change with its block, or becomes 0, is right.
LEMMA SizesFrame ==
  ASSUME MemoryTypes, SizesThere, pages' \in [Zones -> [Blocks -> Seq(Entry)]],
         \A z \in Zones, b \in Blocks :
           \/ allocated'[z][b] = allocated[z][b] /\ pages'[z][b] = pages[z][b]
           \/ allocated'[z][b] = 0
  PROVE  SizesThere'
<1> SUFFICES ASSUME NEW b \in Blocks
             PROVE  /\ allocated'[Low][b] <= Len(pages'[Low][b])
                    /\ allocated'[High][b] <= PagesPerPage * Len(pages'[High][b])
                    /\ allocated'[High][b] > 0 => pages'[High][b][1].high # << >>
  BY DEF SizesThere
<1> HIDE DEF Entry
<1>1. Len(pages'[Low][b]) \in Nat /\ Len(pages'[High][b]) \in Nat
  <2>1. \A z \in Zones : pages'[z][b] \in Seq(Entry)
    OBVIOUS
  <2> QED
    BY <2>1, PageConstants, LenProperties
<1>2. PagesPerPage * Len(pages'[High][b]) >= 0
  BY <1>1, PageConstants
<1>3. allocated'[Low][b] <= Len(pages'[Low][b])
  BY <1>1, PageConstants DEF SizesThere
<1>4. /\ allocated'[High][b] <= PagesPerPage * Len(pages'[High][b])
      /\ allocated'[High][b] > 0 => pages'[High][b][1].high # << >>
  <2> DEFINE x == PagesPerPage * Len(pages'[High][b])
             y == PagesPerPage * Len(pages[High][b])
  <2>1. /\ allocated[High][b] <= y
        /\ allocated[High][b] > 0 => pages[High][b][1].high # << >>
    BY DEF SizesThere
  <2>2. x >= 0
    BY <1>2
  <2>3. \/ allocated'[High][b] = allocated[High][b] /\ pages'[High][b] = pages[High][b]
        \/ allocated'[High][b] = 0
    BY PageConstants
  <2>4. CASE allocated'[High][b] = allocated[High][b] /\ pages'[High][b] = pages[High][b]
    BY <2>1, <2>4
  <2>5. CASE allocated'[High][b] = 0
    <3> HIDE DEF x
    <3>1. 0 <= x /\ ~(0 > 0)
      BY <1>1, <2>2, PageConstants DEF x
    <3> QED
      BY <2>5, <3>1 DEF x
  <2> QED
    BY <2>3, <2>4, <2>5
<1> QED
  BY <1>3, <1>4

\* What an allocation reports at its end.
LEMMA EndReported ==
  ASSUME MemoryTypes, CallInv, NEW created, AllocateEnd(created), AnyReported
  PROVE  /\ step = "allocate" /\ zone \in Zones /\ call.block \in Blocks
         /\ allocated[zone][call.block] = 0 /\ call.zone = zone
         /\ \A z \in Zones, b \in Blocks :
              allocated'[z][b] = IF z = zone /\ b = call.block THEN PagesReported ELSE allocated[z][b]
         /\ PagesReported \in Nat /\ PagesReported > 0
         /\ zone = Low => PagesReported <= Len(pages[Low][call.block])
         /\ zone = High => /\ PagesReported <= PagesPerPage * Len(pages[High][call.block])
                           /\ pages[High][call.block][1].high # << >>
         /\ UNCHANGED <<pages, free, contents>>
         /\ created \subseteq BlockFiles(zone, call.block) /\ files' = files \cup created
         /\ unfiled' = unfiled \cup (BlockFiles(zone, call.block) \ created)
         /\ created \notin {{}, BlockFiles(zone, call.block)} => halfFiled'
<1>1. PagesReported \notin {0, ULong - 1} /\ call # NoCall
  BY DEF AllocateEnd, AnyReported
<1>2. /\ step = "allocate" /\ call.zone = zone /\ zone \in Zones /\ call.block \in Blocks
      /\ allocated[zone][call.block] = 0
      /\ call.i \in 0..ULong - 1 /\ call.count \in 0..ULong - 1
  BY <1>1, CallOpen
<1>3. PagesReported \in Nat /\ PagesReported > 0
  BY <1>1, <1>2, PageConstants DEF PagesReported
<1>4. /\ allocated' = [allocated EXCEPT ![zone][call.block] = PagesReported]
      /\ UNCHANGED <<pages, free, contents>>
      /\ created \subseteq BlockFiles(zone, call.block) /\ files' = files \cup created
      /\ unfiled' = unfiled \cup (BlockFiles(zone, call.block) \ created)
      /\ created \notin {{}, BlockFiles(zone, call.block)} => halfFiled'
  BY <1>2 DEF AllocateEnd
<1>5. allocated \in [Zones -> [Blocks -> 0..Cardinality(Pages)]]
  BY Zenon DEF MemoryTypes
<1>6. \A z \in Zones, b \in Blocks :
         allocated'[z][b] = IF z = zone /\ b = call.block THEN PagesReported ELSE allocated[z][b]
  BY <1>2, <1>4, <1>5
<1>7. zone = Low => PagesReported <= Len(pages[Low][call.block])
  BY <1>1, <1>2, PageConstants DEF PagesReported, CallInv
<1>8. ASSUME zone = High
      PROVE  /\ PagesReported <= PagesPerPage * Len(pages[High][call.block])
             /\ pages[High][call.block][1].high # << >>
  <2> DEFINE here == pages[High][call.block]
  <2>1. PagesReported = call.count
    BY <1>2, <1>8 DEF PagesReported
  <2>2. call.count <= PagesPerPage * Len(here) /\ (here # << >> => here[1].high # << >>)
    BY <1>1, <1>2, <1>8, <2>1 DEF CallInv
  <2>3. here # << >>
    <3>1. here = << >> => PagesPerPage * Len(here) = 0
      BY PageConstants
    <3> QED
      BY <1>2, <1>3, <2>1, <2>2, <3>1
  <2> QED
    BY <2>1, <2>2, <2>3
<1> QED
  BY <1>1, <1>2, <1>3, <1>4, <1>6, <1>7, <1>8

\* Blocks of a program that are let go, one by one.
LEMMA LetGoEach ==
  ASSUME MemoryTypes, SizesThere, NEW z \in Zones, NEW blocks, let_my_pages_go(z, blocks)
  PROVE  \A y \in Zones, b \in Blocks :
           LET gone == y = z /\ b \in blocks /\ allocated[y][b] > 0
           IN /\ allocated'[y][b] = IF gone THEN 0 ELSE allocated[y][b]
              /\ pages'[y][b] = IF gone THEN << >> ELSE pages[y][b]
<1> DEFINE gone(y, b) == y = z /\ b \in blocks /\ allocated[y][b] > 0
<1>1. /\ allocated' = [y \in Zones |-> [b \in Blocks |-> IF gone(y, b) THEN 0 ELSE allocated[y][b]]]
      /\ pages' = [y \in Zones |-> [b \in Blocks |-> IF gone(y, b) THEN << >> ELSE pages[y][b]]]
  BY LetGo
<1> HIDE DEF gone
<1>2. \A y \in Zones, b \in Blocks :
        /\ allocated'[y][b] = IF gone(y, b) THEN 0 ELSE allocated[y][b]
        /\ pages'[y][b] = IF gone(y, b) THEN << >> ELSE pages[y][b]
  BY <1>1
<1> QED
  BY <1>2 DEF gone

LEMMA SizesKept ==
  ASSUME MemoryTypes, CallInv, SizesThere, MemoryTypes', [MemoryNext]_memoryVars
  PROVE  SizesThere'
<1>0. pages' \in [Zones -> [Blocks -> Seq(Entry)]] /\ zone \in Zones
  BY Zenon DEF MemoryTypes
<1> DEFINE Same(z, b) == allocated'[z][b] = allocated[z][b] /\ pages'[z][b] = pages[z][b]
           None(z, b) == allocated'[z][b] = 0
<1>1. CASE UNCHANGED kernel \/ OthersTake \/ OthersReturn
  <2>1. UNCHANGED <<allocated, pages>>
    BY <1>1 DEF kernel, OthersTake, OthersReturn
  <2> QED
    BY <1>0, <2>1, SizesFrame
<1>2. ASSUME NEW w, AllocateBegin(zone, w) PROVE SizesThere'
  <2> DEFINE c == Min(FreeBlocks(zone))
  <2>1. c \in FreeBlocks(zone) /\ c \in Blocks
    BY <1>2, AdmittedFor
  <2>2. pages' = [pages EXCEPT ![zone][c] = << >>] /\ allocated' = allocated
    BY <1>2 DEF AllocateBegin
  <2>3. allocated[zone][c] = 0
    BY <2>1 DEF FreeBlocks
  <2> HIDE DEF c
  <2>4. \A z \in Zones, b \in Blocks : Same(z, b) \/ None(z, b)
    <3>1. pages \in [Zones -> [Blocks -> Seq(Entry)]]
      BY Zenon DEF MemoryTypes
    <3> QED
      BY <1>0, <2>1, <2>2, <2>3, <3>1
  <2> QED
    BY <1>0, <2>4, SizesFrame
<1>3. CASE AllocateEntry
  <2>1. zone \in Zones /\ call.block \in Blocks /\ allocated[zone][call.block] = 0 /\ allocated' = allocated
    BY <1>3, CallOpen DEF AllocateEntry
  <2>2. \A z \in Zones, b \in Blocks : Same(z, b) \/ None(z, b)
    <3>1. PICK p \in FromLow(free), got \in 0..Room : \E high \in [1..got -> free \ {p}] :
           EntryGrown(p, got, high)
      BY <1>3, BlockGrows, Zenon
    <3>2. PICK high \in [1..got -> free \ {p}] : EntryGrown(p, got, high)
      BY <3>1
    <3>3. \A z \in Zones, b \in Blocks : pages'[z][b] = pages[z][b] \/ (z = zone /\ b = call.block)
      BY <3>2 DEF EntryGrown
    <3> QED
      BY <2>1, <3>3
  <2> QED
    BY <1>0, <2>2, SizesFrame
<1>4. CASE AllocateFails \/ MapFails \/ AllocateStops
  <2>1. UNCHANGED <<allocated, pages>>
    BY <1>4, CutShort
  <2> QED
    BY <1>0, <2>1, SizesFrame
<1>5. CASE AllocateEnded
  <2>0. PICK created : AllocateEnd(created)
    BY <1>5 DEF AllocateEnded
  <2>1. CASE ~AnyReported
    <3>1. UNCHANGED <<allocated, pages>>
      BY <1>5, <2>1, EndDoes
    <3> QED
      BY <1>0, <3>1, SizesFrame
  <2>2. CASE AnyReported
    <3>1. /\ zone \in {Low, High} /\ call.block \in Blocks /\ pages' = pages
          /\ \A z \in Zones, b \in Blocks :
              allocated'[z][b] = IF z = zone /\ b = call.block THEN PagesReported ELSE allocated[z][b]
          /\ zone = Low => PagesReported <= Len(pages[Low][call.block])
          /\ zone = High => /\ PagesReported <= PagesPerPage * Len(pages[High][call.block])
                           /\ pages[High][call.block][1].high # << >>
      BY <1>0, <2>0, <2>2, EndReported, PageConstants
    <3>2. ASSUME NEW b \in Blocks
          PROVE  /\ allocated'[Low][b] <= Len(pages[Low][b])
                 /\ allocated'[High][b] <= PagesPerPage * Len(pages[High][b])
                 /\ allocated'[High][b] > 0 => pages[High][b][1].high # << >>
      <4>1. /\ allocated[Low][b] <= Len(pages[Low][b])
            /\ allocated[High][b] <= PagesPerPage * Len(pages[High][b])
            /\ allocated[High][b] > 0 => pages[High][b][1].high # << >>
        BY DEF SizesThere
      <4>2. Low \in Zones /\ High \in Zones /\ Low # High
        BY PageConstants
      <4>3. CASE b = call.block
        BY <3>1, <4>1, <4>2, <4>3
      <4>4. CASE b # call.block
        BY <3>1, <4>1, <4>2, <4>4
      <4> QED
        BY <4>3, <4>4
    <3> QED
      BY <3>1, <3>2 DEF SizesThere
  <2> QED
    BY <2>1, <2>2
<1>6. CASE WriteBlock
  <2>1. UNCHANGED <<allocated, pages>>
    BY <1>6, WriteOrNot
  <2> QED
    BY <1>0, <2>1, SizesFrame
<1>7. ASSUME NEW z \in Zones, NEW blocks, let_my_pages_go(z, blocks) PROVE SizesThere'
  <2>1. \A y \in Zones, b \in Blocks : Same(y, b) \/ None(y, b)
    BY <1>7, LetGoEach
  <2> QED
    BY <1>0, <2>1, SizesFrame
<1>8. CASE Load \/ Unload
  <2>1. \A z \in Zones, b \in Blocks : None(z, b)
    BY <1>8 DEF Load, Unload, NoBlocks
  <2> QED
    BY <1>0, <2>1, SizesFrame
<1>9. ASSUME NEW k \in 1..Len(CreationOrder), LoadFails(k) PROVE SizesThere'
  <2>1. UNCHANGED <<allocated, pages>>
    BY <1>9 DEF LoadFails
  <2> QED
    BY <1>0, <2>1, SizesFrame
<1> QED
  BY <1>1, <1>2, <1>3, <1>4, <1>5, <1>6, <1>7, <1>8, <1>9, DriverSteps, Zenon

\* The files of different blocks are different ones.
LEMMA FilesApart ==
  ASSUME NEW z, NEW b, NEW y, NEW c, BlockFiles(z, b) \cap BlockFiles(y, c) # {}
  PROVE  z = y /\ b = c
  BY DEF BlockFiles

\* Loading that fails leaves no entry, whichever it fails at.
LEMMA LoadUndone ==
  ASSUME NEW k \in 1..Len(CreationOrder)
  PROVE  {CreationOrder[i] : i \in 1..k - 1}
           \ {UnwindOrder[i] : i \in Len(UnwindOrder) - k + 2..Len(UnwindOrder)} = {}
<1>1. Len(CreationOrder) = 12 /\ Len(UnwindOrder) = 11
  BY DEF CreationOrder, UnwindOrder
<1>2. \A i \in 1..11 : CreationOrder[i] = UnwindOrder[12 - i]
  <2>1. /\ CreationOrder[1] = UnwindOrder[11] /\ CreationOrder[2] = UnwindOrder[10]
        /\ CreationOrder[3] = UnwindOrder[9] /\ CreationOrder[4] = UnwindOrder[8]
        /\ CreationOrder[5] = UnwindOrder[7] /\ CreationOrder[6] = UnwindOrder[6]
        /\ CreationOrder[7] = UnwindOrder[5] /\ CreationOrder[8] = UnwindOrder[4]
        /\ CreationOrder[9] = UnwindOrder[3] /\ CreationOrder[10] = UnwindOrder[2]
        /\ CreationOrder[11] = UnwindOrder[1]
    BY DEF CreationOrder, UnwindOrder
  <2> QED
    <3> SUFFICES ASSUME NEW i \in 1..11 PROVE CreationOrder[i] = UnwindOrder[12 - i]
      OBVIOUS
    <3>1. i \in {1, 2, 3, 4, 5, 6, 7, 8, 9, 10, 11}
      OBVIOUS
    <3>2. CASE i = 1
      <4>1. 12 - i = 11
        BY <3>2
      <4> QED
        BY <2>1, <3>2, <4>1
    <3>3. CASE i = 2
      <4>1. 12 - i = 10
        BY <3>3
      <4> QED
        BY <2>1, <3>3, <4>1
    <3>4. CASE i = 3
      <4>1. 12 - i = 9
        BY <3>4
      <4> QED
        BY <2>1, <3>4, <4>1
    <3>5. CASE i = 4
      <4>1. 12 - i = 8
        BY <3>5
      <4> QED
        BY <2>1, <3>5, <4>1
    <3>6. CASE i = 5
      <4>1. 12 - i = 7
        BY <3>6
      <4> QED
        BY <2>1, <3>6, <4>1
    <3>7. CASE i = 6
      <4>1. 12 - i = 6
        BY <3>7
      <4> QED
        BY <2>1, <3>7, <4>1
    <3>8. CASE i = 7
      <4>1. 12 - i = 5
        BY <3>8
      <4> QED
        BY <2>1, <3>8, <4>1
    <3>9. CASE i = 8
      <4>1. 12 - i = 4
        BY <3>9
      <4> QED
        BY <2>1, <3>9, <4>1
    <3>10. CASE i = 9
      <4>1. 12 - i = 3
        BY <3>10
      <4> QED
        BY <2>1, <3>10, <4>1
    <3>11. CASE i = 10
      <4>1. 12 - i = 2
        BY <3>11
      <4> QED
        BY <2>1, <3>11, <4>1
    <3>12. CASE i = 11
      <4>1. 12 - i = 1
        BY <3>12
      <4> QED
        BY <2>1, <3>12, <4>1
    <3> QED
      BY <3>1, <3>2, <3>3, <3>4, <3>5, <3>6, <3>7, <3>8, <3>9, <3>10, <3>11, <3>12
<1>3. k \in 1..12
  BY <1>1
<1>4. \A i \in 1..k - 1 : i \in 1..11 /\ 12 - i \in 11 - k + 2..11
  BY <1>3
<1> QED
  BY <1>1, <1>2, <1>4

\* The files of the driver and of its blocks are those that there should be.
LEMMA EntriesKept ==
  ASSUME MemoryTypes, CallInv, SizesThere, EntriesInv, [MemoryNext]_memoryVars
  PROVE  EntriesInv'
<1> DEFINE Right(z, b) == IF allocated[z][b] > 0 THEN BlockFiles(z, b) \subseteq files \cup unfiled
                          ELSE BlockFiles(z, b) \cap files = {}
           RightNext(z, b) == IF allocated'[z][b] > 0 THEN BlockFiles(z, b) \subseteq files' \cup unfiled'
                              ELSE BlockFiles(z, b) \cap files' = {}
           DriverRight == entries' \in {{}, Range(CreationOrder)} /\ (~Loaded' => allocated' = NoBlocks)
<1>0. /\ \A z \in Zones, b \in Blocks : Right(z, b)
      /\ entries \in {{}, Range(CreationOrder)}
      /\ ~Loaded => allocated = NoBlocks /\ step # "allocate"
      /\ \A z \in Zones, b \in Blocks : allocated[z][b] \in Nat
      /\ unfiled \subseteq unfiled'
  BY BlockTyped, HistoryGrows DEF EntriesInv
<1>1. Range(CreationOrder) # {}
  <2>1. CreationOrder[1] \in Range(CreationOrder)
    <3>1. 1 \in DOMAIN CreationOrder
      BY DEF CreationOrder
    <3> QED
      BY <3>1 DEF Range
  <2> QED
    BY <2>1
<1>2. \A z \in Zones, b \in Blocks : NoBlocks[z][b] = 0
  BY DEF NoBlocks
<1>3. (\A z \in Zones, b \in Blocks : RightNext(z, b)) /\ DriverRight
  <2>1. CASE UNCHANGED <<allocated, files, entries>>
    BY <1>0, <2>1 DEF Loaded
  <2>2. CASE UNCHANGED kernel \/ AllocateEntry \/ OthersTake \/ OthersReturn
    <3>1. UNCHANGED <<allocated, files, entries>>
      BY Zenon, <2>2 DEF kernel, AllocateEntry, OthersTake, OthersReturn
    <3> QED
      BY <2>1, <3>1
  <2>3. CASE AllocateFails \/ MapFails \/ AllocateStops
    BY <2>1, <2>3, CutShort
  <2>4. ASSUME NEW w, AllocateBegin(zone, w) PROVE UNCHANGED <<allocated, files, entries>>
    BY <2>4 DEF AllocateBegin
  <2>5. WriteBlock => UNCHANGED <<allocated, files, entries>>
    BY WriteOrNot
  <2>6. CASE AllocateEnded
    <3>0. PICK created : AllocateEnd(created)
      BY <2>6 DEF AllocateEnded
    <3>1. entries' = entries /\ (~AnyReported => UNCHANGED <<allocated, files, entries>>)
      BY <2>6, EndDoes
    <3>2. CASE AnyReported
      <4>1. /\ step = "allocate" /\ zone \in Zones /\ call.block \in Blocks
            /\ \A z \in Zones, b \in Blocks :
                 allocated'[z][b] = IF z = zone /\ b = call.block THEN PagesReported ELSE allocated[z][b]
            /\ PagesReported > 0 /\ files' = files \cup created
            /\ created \subseteq BlockFiles(zone, call.block)
            /\ unfiled' = unfiled \cup (BlockFiles(zone, call.block) \ created)
        BY <3>0, <3>2, EndReported
      <4>2. ASSUME NEW z \in Zones, NEW b \in Blocks PROVE RightNext(z, b)
        <5>1. CASE z = zone /\ b = call.block
          BY <4>1, <5>1
        <5>2. CASE ~(z = zone /\ b = call.block)
          <6>1. BlockFiles(z, b) \cap BlockFiles(zone, call.block) = {}
            BY <5>2, FilesApart
          <6>2. Right(z, b) /\ allocated'[z][b] = allocated[z][b]
            BY <1>0, <4>1, <5>2
          <6> QED
            BY <4>1, <6>1, <6>2
        <5> QED
          BY <5>1, <5>2
      <4> QED
        BY <1>0, <3>1, <4>1, <4>2 DEF Loaded
    <3> QED
      BY <2>1, <3>1, <3>2
  <2>7. ASSUME NEW z \in Zones, NEW blocks, let_my_pages_go(z, blocks)
        PROVE  (\A y \in Zones, b \in Blocks : RightNext(y, b)) /\ DriverRight
    <3> DEFINE gone(y, b) == y = z /\ b \in blocks /\ allocated[y][b] > 0
    <3>1. /\ files' = files \ UNION {BlockFiles(z, b) : b \in {c \in Blocks : gone(z, c)}}
          /\ entries' = entries
      BY <2>7, LetGo
    <3>2. \A y \in Zones, b \in Blocks : allocated'[y][b] = IF gone(y, b) THEN 0 ELSE allocated[y][b]
      BY <2>7, LetGoEach
    <3>3. Loaded
      BY <2>7 DEF let_my_pages_go
    <3>4. ASSUME NEW y \in Zones, NEW b \in Blocks PROVE RightNext(y, b)
      <4>1. CASE gone(y, b)
        <5>1. y = z /\ allocated'[y][b] = 0
          BY <3>2, <4>1
        <5>2. BlockFiles(y, b) \cap files' = {}
          BY <3>1, <4>1, <5>1
        <5> QED
          BY <5>1, <5>2
      <4>2. CASE ~gone(y, b)
        <5>1. \A c \in {d \in Blocks : gone(z, d)} : BlockFiles(z, c) \cap BlockFiles(y, b) = {}
          BY <4>2, FilesApart
        <5>2. allocated'[y][b] = allocated[y][b] /\ Right(y, b)
          BY <1>0, <3>2, <4>2
        <5> HIDE DEF gone
        <5>3. BlockFiles(y, b) \cap files' = BlockFiles(y, b) \cap files
          BY <3>1, <5>1
        <5> QED
          BY <1>0, <5>2, <5>3
      <4> QED
        BY <4>1, <4>2
    <3> QED
      BY <1>0, <3>1, <3>3, <3>4 DEF Loaded
  <2>8. CASE Load
    <3>1. /\ ~Loaded /\ allocated' = NoBlocks /\ files' = files /\ entries' = Range(CreationOrder)
      BY <2>8 DEF Load
    <3> QED
      BY <1>0, <1>1, <3>1 DEF Loaded
  <2>9. ASSUME NEW k \in 1..Len(CreationOrder), LoadFails(k)
        PROVE  (\A y \in Zones, b \in Blocks : RightNext(y, b)) /\ DriverRight
    <3>1. entries' = {} /\ ~Loaded /\ UNCHANGED <<allocated, files>>
      BY <2>9, LoadUndone DEF LoadFails
    <3> QED
      BY <1>0, <3>1 DEF Loaded
  <2>10. CASE Unload
    <3> DEFINE used == {zb \in Zones \X Blocks : freeCnt(zb[1], zb[2]) > 0}
    <3>1. /\ Loaded /\ allocated' = NoBlocks /\ entries' = entries \ Range(CreationOrder)
          /\ files' = files \ UNION {BlockFiles(zb[1], zb[2]) : zb \in used}
      BY <2>10 DEF Unload
    <3>2. entries' = {}
      BY <1>0, <3>1
    <3>3. ASSUME NEW z \in Zones, NEW b \in Blocks PROVE BlockFiles(z, b) \cap files' = {}
      <4>1. CASE allocated[z][b] > 0
        <5>1. <<z, b>> \in used
          BY <4>1, FreedEntries
        <5>2. BlockFiles(z, b) \subseteq UNION {BlockFiles(zb[1], zb[2]) : zb \in used}
          BY <5>1
        <5> QED
          BY <3>1, <5>2
      <4>2. CASE ~(allocated[z][b] > 0)
        BY <1>0, <3>1, <4>2
      <4> QED
        BY <4>1, <4>2
    <3> QED
      BY <1>2, <3>1, <3>2, <3>3
  <2> HIDE DEF RightNext, DriverRight
  <2> QED
    <3>1. UNCHANGED <<allocated, files, entries>> =>
            (\A y \in Zones, b \in Blocks : RightNext(y, b)) /\ DriverRight
      BY <2>1
    <3> QED
      BY <3>1, <2>2, <2>3, <2>4, <2>5, <2>6, <2>7, <2>8, <2>9, <2>10, DriverSteps, Zenon
<1>4. ~Loaded' => step' # "allocate"
  <2>1. ASSUME step' = "allocate" PROVE Loaded'
    <3>1. CASE step = "allocate"
      <4>1. entries' = entries
        <5>1. ~LoadDriver
          BY <3>1 DEF LoadDriver
        <5>2. CASE UNCHANGED memoryVars
          BY <5>2 DEF memoryVars, kernel
        <5>3. CASE Signal \/ OthersTake \/ OthersReturn
          BY <5>3 DEF Signal, kernel, OthersTake, OthersReturn
        <5>4. CASE ProgramStep
          BY Zenon, <5>4, CutShort DEF ProgramStep, TestMemory, NextBlock, Request, NoMemory, Allocating, Allocated, AllocateBegin,
             AllocateEntry, AllocateEnd, WriteBlock, WritePages, ReadBlock, FreeMemory,
             HandleSignal, let_my_pages_go, kernel
        <5> QED
          BY <5>1, <5>2, <5>3, <5>4 DEF MemoryNext
      <4> QED
        BY <1>0, <3>1, <4>1 DEF Loaded
    <3>2. CASE step # "allocate"
      <4>1. NextBlock
        <5>1. ~InLoop
          BY <3>2, CallOpen
        <5> QED
          BY Zenon, <2>1, <3>2, <5>1 DEF MemoryNext, memoryVars, memtest, ProgramStep, TestMemory, NoMemory, Allocating,
             AllocateEntry, AllocateFails, MapFails, AllocateStops, Allocated, WriteBlock, ReadBlock,
             FreeMemory, HandleSignal, Signal, OthersTake, OthersReturn, LoadDriver
      <4>2. PICK w : AllocateBegin(zone, w)
        BY <2>1, <4>1, Requested
      <4> QED
        BY <4>2 DEF AllocateBegin, Loaded
    <3> QED
      BY <3>1, <3>2
  <2> QED
    BY <2>1
<1> QED
  BY <1>3, <1>4 DEF EntriesInv

-----------------------------------------------------------------------------------
(* A page is in one place at a time *)

\* Blocks that lose their pages, and pages that are free or not, leave the others apart
\* as long as no page of a block that stays is given out.
LEMMA ApartFrame ==
  ASSUME PagesOnce,
         \A z \in Zones, b \in Blocks : pages'[z][b] = pages[z][b] \/ pages'[z][b] = << >>,
         \A z \in Zones, b \in Blocks :
           pages'[z][b] = pages[z][b] => BlockPages(z, b) \cap (free' \cup others') = {}
  PROVE  PagesOnce'
<1>1. \A z \in Zones, b \in Blocks :
        /\ pages'[z][b] = pages[z][b] => BlockPages(z, b)' = BlockPages(z, b)
        /\ pages'[z][b] = << >> => BlockPages(z, b)' = {} /\ DOMAIN pages'[z][b] = {}
  <2> SUFFICES ASSUME NEW z \in Zones, NEW b \in Blocks
               PROVE  /\ pages'[z][b] = pages[z][b] => BlockPages(z, b)' = BlockPages(z, b)
                      /\ pages'[z][b] = << >> => BlockPages(z, b)' = {} /\ DOMAIN pages'[z][b] = {}
    OBVIOUS
  <2>1. BlockPages(z, b)' = UNION {EntryPages(pages'[z][b][k]) : k \in 1..Len(pages'[z][b])}
    BY DEF BlockPages, Held
  <2>2. BlockPages(z, b) = UNION {EntryPages(pages[z][b][k]) : k \in 1..Len(pages[z][b])}
    BY DEF BlockPages, Held
  <2>3. Len(<< >>) = 0 /\ DOMAIN << >> = {} /\ 1..0 = {}
    OBVIOUS
  <2>4. pages'[z][b] = << >> => BlockPages(z, b)' = {}
    <3>1. ASSUME pages'[z][b] = << >>
          PROVE  {EntryPages(pages'[z][b][k]) : k \in 1..Len(pages'[z][b])} = {}
      BY <2>3, <3>1
    <3> QED
      BY <2>1, <3>1
  <2> QED
    BY <2>1, <2>2, <2>3, <2>4
<1> DEFINE Apart(z, b, k) ==
             LET entry == pages[z][b][k]
             IN /\ IsInjective(entry.high) /\ entry.page \notin Range(entry.high)
                /\ \A i \in DOMAIN pages[z][b] \ {k} :
                     EntryPages(entry) \cap EntryPages(pages[z][b][i]) = {}
           ApartNext(z, b, k) ==
             LET entry == pages'[z][b][k]
             IN /\ IsInjective(entry.high) /\ entry.page \notin Range(entry.high)
                /\ \A i \in DOMAIN pages'[z][b] \ {k} :
                     EntryPages(entry) \cap EntryPages(pages'[z][b][i]) = {}
<1>2. \A z \in Zones, b \in Blocks : \A k \in DOMAIN pages'[z][b] : ApartNext(z, b, k)
  <2> SUFFICES ASSUME NEW z \in Zones, NEW b \in Blocks, NEW k \in DOMAIN pages'[z][b]
               PROVE  ApartNext(z, b, k)
    OBVIOUS
  <2>1. pages'[z][b] = pages[z][b]
    BY <1>1
  <2>2. k \in DOMAIN pages[z][b] => Apart(z, b, k)
    BY DEF PagesOnce
  <2> QED
    BY <2>1, <2>2
<1>3. \A z \in Zones, b \in Blocks : BlockPages(z, b)' \cap (free' \cup others') = {}
  BY <1>1
<1>4. \A z, y \in Zones, b, c \in Blocks :
        <<z, b>> # <<y, c>> => BlockPages(z, b)' \cap BlockPages(y, c)' = {}
  BY <1>1 DEF PagesOnce
<1> HIDE DEF Apart, ApartNext
<1>5. PagesOnce' <=>
        /\ \A z \in Zones, b \in Blocks : BlockPages(z, b)' \cap (free' \cup others') = {}
        /\ \A z, y \in Zones, b, c \in Blocks :
             <<z, b>> # <<y, c>> => BlockPages(z, b)' \cap BlockPages(y, c)' = {}
        /\ \A z \in Zones, b \in Blocks : \A k \in DOMAIN pages'[z][b] : ApartNext(z, b, k)
  BY DEF PagesOnce, ApartNext
<1> QED
  BY <1>2, <1>3, <1>4, <1>5

\* The pages of an entry are different ones.
LEMMA TakenOnce ==
  ASSUME NEW S, S \subseteq Pages, NEW n \in Nat, NEW high \in [1..n -> Pages], TakenHigh(S, high)
  PROVE  IsInjective(high)
<1>1. DOMAIN high = 1..n
  OBVIOUS
<1>2. ASSUME NEW i \in 1..n, NEW k \in 1..n, i < k PROVE high[i] # high[k]
  <2> DEFINE before == {high[m] : m \in 1..k - 1}
  <2>1. high[k] \in FromHigh(S \ before)
    BY <1>1 DEF TakenHigh
  <2>2. FromHigh(S \ before) \subseteq S \ before
    BY TakenFree
  <2>3. high[i] \in before
    BY <1>2
  <2> HIDE DEF before
  <2> QED
    BY <2>1, <2>2, <2>3
<1> SUFFICES ASSUME NEW i \in 1..n, NEW k \in 1..n, high[i] = high[k], i # k PROVE FALSE
  BY <1>1 DEF IsInjective
<1>3. i < k \/ k < i
  OBVIOUS
<1> QED
  BY <1>2, <1>3

\* A new entry is apart from all that there is.
LEMMA ApartGrows ==
  ASSUME MemoryTypes, CallInv, PagesApart, AllocateEntry, others' = others
  PROVE  PagesApart'
<1>1. step = "allocate" /\ zone \in Zones /\ call.block \in Blocks
  BY CallOpen DEF AllocateEntry
<1>2. PICK p \in FromLow(free), got \in 0..Room : \E high \in [1..got -> free \ {p}] :
           EntryGrown(p, got, high)
  BY BlockGrows, Zenon
<1>3. PICK high \in [1..got -> free \ {p}] : EntryGrown(p, got, high)
  BY <1>2
<1> DEFINE e == [page |-> p, high |-> high]
           here == pages[zone][call.block]
           l == Len(here)
           after == Append(here, e)
<1>4. /\ e \in Entry /\ TakenHigh(free \ {p}, high) /\ p \in free /\ p \in Pages
      /\ Range(high) \subseteq free \ {p} /\ EntryPages(e) = {p} \cup Range(high)
      /\ free' = free \ EntryPages(e)
      /\ \A z \in Zones, b \in Blocks :
           pages'[z][b] = IF z = zone /\ b = call.block THEN after ELSE pages[z][b]
      /\ Len(after) = l + 1
      /\ \A k \in 1..l : after[k] = here[k]
      /\ after[l + 1] = e
  BY <1>3 DEF EntryGrown
<1>5. e.high = high /\ e.page = p /\ EntryPages(e) \subseteq free
  BY <1>4
<1>6. IsInjective(high)
  <2>1. free \ {p} \subseteq Pages /\ got \in Nat
    <3>1. got \in 0..PagesPerPage
      BY NewEntry
    <3>2. got \in Nat
      BY <3>1, PageConstants
    <3> QED
      BY Zenon, <3>2 DEF MemoryTypes
  <2>2. high \in [1..got -> Pages]
    BY <2>1
  <2> QED
    BY <1>4, <2>1, <2>2, TakenOnce
<1>7. l \in Nat /\ here \in Seq(Entry) /\ DOMAIN here = 1..l
  BY <1>1, BlockTyped
<1>8. after \in Seq(Entry) /\ DOMAIN after = 1..l + 1
  BY <1>4, <1>7, AppendProperties, LenProperties
<1> HIDE DEF e, after, here, l
<1>9. \A z \in Zones, b \in Blocks :
        BlockPages(z, b)' = IF z = zone /\ b = call.block THEN BlockPages(z, b) \cup EntryPages(e)
                            ELSE BlockPages(z, b)
  <2> SUFFICES ASSUME NEW z \in Zones, NEW b \in Blocks
               PROVE  BlockPages(z, b)' = IF z = zone /\ b = call.block
                                          THEN BlockPages(z, b) \cup EntryPages(e)
                                          ELSE BlockPages(z, b)
    OBVIOUS
  <2>1. BlockPages(z, b)' = UNION {EntryPages(pages'[z][b][k]) : k \in 1..Len(pages'[z][b])}
    BY DEF BlockPages, Held
  <2>2. BlockPages(z, b) = UNION {EntryPages(pages[z][b][k]) : k \in 1..Len(pages[z][b])}
    BY DEF BlockPages, Held
  <2>3. CASE z = zone /\ b = call.block
    <3>1. pages'[z][b] = after /\ pages[z][b] = here
      BY <1>4, <2>3 DEF here
    <3>2. {EntryPages(after[k]) : k \in 1..l + 1} = {EntryPages(here[k]) : k \in 1..l} \cup {EntryPages(e)}
      <4>1. 1..l + 1 = (1..l) \cup {l + 1}
        BY <1>7
      <4> QED
        BY <1>4, <4>1
    <3>3. BlockPages(z, b)' = UNION {EntryPages(after[k]) : k \in 1..l + 1}
      BY <1>4, <2>1, <3>1
    <3>4. BlockPages(z, b) = UNION {EntryPages(here[k]) : k \in 1..l}
      BY <2>2, <3>1 DEF l
    <3> DEFINE X == {EntryPages(after[k]) : k \in 1..l + 1}
               Y == {EntryPages(here[k]) : k \in 1..l}
    <3>5. X = Y \cup {EntryPages(e)} /\ BlockPages(z, b)' = UNION X /\ BlockPages(z, b) = UNION Y
      BY <3>2, <3>3, <3>4
    <3> HIDE DEF X, Y
    <3> QED
      BY <2>3, <3>5
  <2>4. CASE ~(z = zone /\ b = call.block)
    <3>1. pages'[z][b] = pages[z][b]
      BY <1>4, <2>4
    <3> QED
      BY <2>1, <2>2, <2>4, <3>1
  <2> QED
    BY <2>3, <2>4
<1>10. \A z \in Zones, b \in Blocks : BlockPages(z, b) \cap (free \cup others) = {}
  BY DEF PagesApart, PagesOnce
<1>11. free \cap others = {} /\ free' \cap others' = {} /\ EntryPages(e) \cap (free' \cup others') = {}
       /\ free' \cup others' \subseteq free \cup others
  BY <1>4, <1>5 DEF PagesApart
<1>12. \A z \in Zones, b \in Blocks : BlockPages(z, b)' \cap (free' \cup others') = {}
  BY <1>9, <1>10, <1>11
<1>13. ASSUME NEW z \in Zones, NEW y \in Zones, NEW b \in Blocks, NEW c \in Blocks, <<z, b>> # <<y, c>>
       PROVE  BlockPages(z, b)' \cap BlockPages(y, c)' = {}
  <2>1. BlockPages(z, b) \cap BlockPages(y, c) = {}
    BY <1>13 DEF PagesApart, PagesOnce
  <2>2. BlockPages(z, b) \cap EntryPages(e) = {} /\ BlockPages(y, c) \cap EntryPages(e) = {}
    BY <1>5, <1>10
  <2> QED
    BY <1>9, <1>13, <2>1, <2>2
<1> DEFINE Apart(s, k) ==
             /\ IsInjective(s[k].high) /\ s[k].page \notin Range(s[k].high)
             /\ \A i \in DOMAIN s \ {k} : EntryPages(s[k]) \cap EntryPages(s[i]) = {}
<1>14. \A z \in Zones, b \in Blocks : \A k \in DOMAIN pages[z][b] : Apart(pages[z][b], k)
  BY DEF PagesApart, PagesOnce
<1>15. \A k \in 1..l + 1 : Apart(after, k)
  <2>1. \A k \in 1..l : Apart(here, k) /\ EntryPages(here[k]) \cap EntryPages(e) = {}
    <3>1. \A k \in 1..l : Apart(here, k)
      BY <1>1, <1>7, <1>14 DEF here
    <3>2. \A k \in 1..l : EntryPages(here[k]) \subseteq BlockPages(zone, call.block)
      BY PagesOfBlock DEF here, l
    <3> QED
      BY <1>1, <1>5, <1>10, <3>1, <3>2
  <2> SUFFICES ASSUME NEW k \in 1..l + 1 PROVE Apart(after, k)
    OBVIOUS
  <2>2. CASE k = l + 1
    <3>1. after[k] = e /\ e.high = high /\ e.page = p /\ p \notin Range(high)
      BY <1>4, <1>5, <2>2
    <3>2. ASSUME NEW i \in DOMAIN after \ {k} PROVE EntryPages(after[k]) \cap EntryPages(after[i]) = {}
      <4>1. i \in 1..l
        BY <1>7, <1>8, <2>2
      <4> QED
        BY <1>4, <2>1, <3>1, <4>1
    <3> QED
      BY <1>6, <3>1, <3>2
  <2>3. CASE k # l + 1
    <3>1. k \in 1..l /\ after[k] = here[k]
      BY <1>4, <1>7, <2>3
    <3>2. Apart(here, k) /\ EntryPages(here[k]) \cap EntryPages(e) = {}
      BY <2>1, <3>1
    <3>3. ASSUME NEW i \in DOMAIN after \ {k} PROVE EntryPages(after[k]) \cap EntryPages(after[i]) = {}
      <4>1. CASE i = l + 1
        BY <1>4, <3>1, <3>2, <4>1
      <4>2. CASE i # l + 1
        <5>1. i \in 1..l /\ i # k /\ after[i] = here[i] /\ i \in DOMAIN here \ {k}
          BY <1>4, <1>7, <1>8, <4>2
        <5> QED
          BY <3>1, <3>2, <5>1
      <4> QED
        BY <4>1, <4>2
    <3> QED
      BY <3>1, <3>2, <3>3
  <2> QED
    BY <2>2, <2>3
<1>16. \A z \in Zones, b \in Blocks : \A k \in DOMAIN pages'[z][b] : Apart(pages'[z][b], k)
  <2> SUFFICES ASSUME NEW z \in Zones, NEW b \in Blocks
               PROVE  \A k \in DOMAIN pages'[z][b] : Apart(pages'[z][b], k)
    OBVIOUS
  <2>1. CASE z = zone /\ b = call.block
    BY <1>4, <1>8, <1>15, <2>1
  <2>2. CASE ~(z = zone /\ b = call.block)
    <3>1. pages'[z][b] = pages[z][b]
      BY <1>4, <2>2
    <3> QED
      BY <1>14, <3>1
  <2> QED
    BY <2>1, <2>2
<1>17. PagesOnce'
  BY <1>12, <1>13, <1>16 DEF PagesOnce
<1> QED
  BY <1>11, <1>17 DEF PagesApart

\* Every step leaves every page in one place.
LEMMA ApartKept ==
  ASSUME MemoryTypes, CallInv, SizesThere, PagesApart, MemoryTypes', [MemoryNext]_memoryVars
  PROVE  PagesApart'
<1>0. /\ \A z \in Zones, b \in Blocks : BlockPages(z, b) \cap (free \cup others) = {}
      /\ \A z, y \in Zones, b, c \in Blocks :
           <<z, b>> # <<y, c>> => BlockPages(z, b) \cap BlockPages(y, c) = {}
      /\ free \cap others = {} /\ PagesOnce
  BY DEF PagesApart, PagesOnce
<1>1. others' = others \/ OthersTake \/ OthersReturn
  <2>1. ASSUME ProgramStep PROVE others' = others
    BY Zenon, <2>1 DEF ProgramStep, TestMemory, NextBlock, NoMemory, Allocating, Allocated, WriteBlock, ReadBlock,
       FreeMemory, HandleSignal
  <2> QED
    BY <2>1 DEF MemoryNext, memoryVars, Signal, LoadDriver
<1>2. CASE UNCHANGED <<pages, free, others>>
  BY <1>0, <1>2, ApartFrame DEF PagesApart
<1>3. CASE OthersTake
  <2>1. PICK p \in FromLow(free) \cup FromHigh(free) : free' = free \ {p} /\ others' = others \cup {p}
    BY <1>3 DEF OthersTake
  <2>2. p \in free
    BY Zenon, TakenFree DEF MemoryTypes
  <2>3. pages' = pages
    BY <1>3 DEF OthersTake
  <2>4. free' \cup others' = free \cup others /\ free' \cap others' = {}
    BY <1>0, <2>1, <2>2
  <2> QED
    BY <1>0, <2>3, <2>4, ApartFrame DEF PagesApart
<1>4. CASE OthersReturn
  <2>1. PICK p \in others : free' = free \cup {p} /\ others' = others \ {p}
    BY <1>4 DEF OthersReturn
  <2>2. pages' = pages
    BY <1>4 DEF OthersReturn
  <2>3. free' \cup others' = free \cup others /\ free' \cap others' = {}
    BY <1>0, <2>1
  <2> QED
    BY <1>0, <2>2, <2>3, ApartFrame DEF PagesApart
<1>5. CASE others' = others
  <2>1. CASE UNCHANGED kernel \/ AllocateEnded
    <3>1. UNCHANGED <<pages, free>>
      BY <2>1, EndDoes DEF kernel
    <3> QED
      BY <1>2, <1>5, <3>1
  <2>2. ASSUME NEW w, AllocateBegin(zone, w) PROVE PagesApart'
    <3> DEFINE c == Min(FreeBlocks(zone))
    <3>1. c \in Blocks /\ zone \in Zones
      BY Zenon, <2>2, AdmittedFor DEF MemoryTypes
    <3>2. pages' = [pages EXCEPT ![zone][c] = << >>] /\ free' = free
      BY <2>2 DEF AllocateBegin
    <3> HIDE DEF c
    <3>3. \A z \in Zones, b \in Blocks : pages'[z][b] = pages[z][b] \/ pages'[z][b] = << >>
      <4>1. pages \in [Zones -> [Blocks -> Seq(Entry)]]
        BY Zenon DEF MemoryTypes
      <4> QED
        BY <3>1, <3>2, <4>1
    <3> QED
      BY <1>0, <1>5, <3>2, <3>3, ApartFrame DEF PagesApart
  <2>3. CASE AllocateEntry
    BY <1>5, <2>3, ApartGrows
  <2>4. CASE AllocateFails \/ MapFails \/ AllocateStops
    BY <1>2, <1>5, <2>4, CutShort
  <2>5. CASE WriteBlock
    <3>1. UNCHANGED <<pages, free>>
      BY <2>5, WriteOrNot
    <3> QED
      BY <1>2, <1>5, <3>1
  <2>6. ASSUME NEW z \in Zones, NEW blocks, let_my_pages_go(z, blocks) PROVE PagesApart'
    <3> DEFINE gone(y, b) == y = z /\ b \in blocks /\ allocated[y][b] > 0
               lost == UNION {BlockPages(z, b) : b \in {c \in Blocks : gone(z, c)}}
    <3>1. free' \subseteq free \cup lost
      BY <2>6, LetGo
    <3>2. \A y \in Zones, b \in Blocks : pages'[y][b] = IF gone(y, b) THEN << >> ELSE pages[y][b]
      BY <2>6, LetGoEach
    <3>3. lost \cap others = {}
      BY <1>0
    <3>4. ASSUME NEW y \in Zones, NEW b \in Blocks, pages'[y][b] = pages[y][b]
          PROVE  BlockPages(y, b) \cap lost = {}
      <4>1. CASE gone(y, b)
        <5>1. pages[y][b] = << >>
          BY <3>2, <3>4, <4>1
        <5>2. BlockPages(y, b) = {}
          <6>1. {EntryPages(pages[y][b][k]) : k \in 1..Len(pages[y][b])} = {}
            BY <5>1
          <6> QED
            BY <6>1, PagesOfBlock
        <5> QED
          BY <5>2
      <4>2. CASE ~gone(y, b)
        <5>1. ASSUME NEW c \in Blocks, gone(z, c) PROVE BlockPages(z, c) \cap BlockPages(y, b) = {}
          <6>1. <<z, c>> # <<y, b>>
            BY <4>2, <5>1
          <6> QED
            BY <1>0, <6>1
        <5> QED
          BY <5>1
      <4> QED
        BY <4>1, <4>2
    <3> HIDE DEF gone, lost
    <3>5. \A y \in Zones, b \in Blocks :
            pages'[y][b] = pages[y][b] => BlockPages(y, b) \cap (free' \cup others') = {}
      BY <1>0, <1>5, <3>1, <3>4
    <3>6. free' \cap others' = {}
      BY <1>0, <1>5, <3>1, <3>3
    <3> QED
      BY <1>0, <3>2, <3>5, <3>6, ApartFrame DEF PagesApart
  <2>7. CASE Load
    <3>1. pages' = NoPages /\ free' = free
      BY <2>7 DEF Load
    <3>2. \A z \in Zones, b \in Blocks : pages'[z][b] = << >>
      BY <3>1 DEF NoPages
    <3> QED
      BY <1>0, <1>5, <3>1, <3>2, ApartFrame DEF PagesApart
  <2>8. ASSUME NEW k \in 1..Len(CreationOrder), LoadFails(k) PROVE PagesApart'
    <3>1. UNCHANGED <<pages, free>>
      BY <2>8 DEF LoadFails
    <3> QED
      BY <1>2, <1>5, <3>1
  <2>9. CASE Unload
    <3> DEFINE used == {zb \in Zones \X Blocks : freeCnt(zb[1], zb[2]) > 0}
               given == UNION {Held(zb[1], zb[2], freeCnt(zb[1], zb[2])) : zb \in used}
    <3>1. pages' = NoPages /\ free' = free \cup given
      BY <2>9 DEF Unload
    <3>2. given \cap others = {}
      <4>1. \A z \in Zones, b \in Blocks : Held(z, b, freeCnt(z, b)) \cap others = {}
        <5>1. \A z \in Zones, b \in Blocks : Held(z, b, freeCnt(z, b)) \subseteq BlockPages(z, b)
          BY HeldInBlock
        <5> QED
          BY <1>0, <5>1
      <4>2. \A zb \in used : Held(zb[1], zb[2], freeCnt(zb[1], zb[2])) \cap others = {}
        BY <4>1
      <4> QED
        BY <4>2
    <3> HIDE DEF given
    <3>3. free' \cap others' = {}
      BY <1>0, <1>5, <3>1, <3>2
    <3>4. \A z \in Zones, b \in Blocks : pages'[z][b] = << >>
      BY <3>1 DEF NoPages
    <3>5. PagesOnce'
      <4>1. \A z \in Zones, b \in Blocks : BlockPages(z, b)' = {} /\ DOMAIN pages'[z][b] = {}
        <5> SUFFICES ASSUME NEW z \in Zones, NEW b \in Blocks
                     PROVE  BlockPages(z, b)' = {} /\ DOMAIN pages'[z][b] = {}
          OBVIOUS
        <5>1. BlockPages(z, b)' = UNION {EntryPages(pages'[z][b][k]) : k \in 1..Len(pages'[z][b])}
          BY DEF BlockPages, Held
        <5>2. pages'[z][b] = << >> /\ Len(<< >>) = 0 /\ DOMAIN << >> = {}
          BY <3>4
        <5>3. {EntryPages(pages'[z][b][k]) : k \in 1..Len(pages'[z][b])} = {}
          BY <5>2
        <5> QED
          BY <5>1, <5>2, <5>3
      <4> QED
        BY <4>1 DEF PagesOnce
    <3> QED
      BY <3>3, <3>5 DEF PagesApart
  <2> QED
    <3> HIDE <1>0, <1>2
    <3> QED
      BY <1>3, <1>4, <2>1, <2>2, <2>3, <2>4, <2>5, <2>6, <2>7, <2>8, <2>9, DriverSteps, Zenon
<1> QED
  BY <1>1, <1>3, <1>4, <1>5

-----------------------------------------------------------------------------------
(* What the pages hold *)

\* A block the program writes, or none.
LEMMA WrittenPages ==
  ASSUME MemoryTypes, step = "write", WriteBlock, HasFile("write")
  PROVE  LET span == block_size(zone, block)
         IN /\ contents' = [q \in Pages |-> IF q \in Written(zone, block, span, faulty) THEN pattern
                                            ELSE contents[q]]
            /\ block \in Blocks => /\ span = allocated[zone][block]
                                   /\ Written(zone, block, span, faulty) \subseteq BlockPages(zone, block)
            /\ block \notin Blocks => Written(zone, block, span, faulty) = {}
<1> DEFINE span == block_size(zone, block)
<1>0. zone \in Zones
  BY DEF MemoryTypes
<1>1. contents' = [q \in Pages |-> IF q \in Written(zone, block, span, faulty) THEN pattern
                                   ELSE contents[q]]
  BY DEF WriteBlock, WritePages
<1>2. CASE block \in Blocks
  <2>1. span = allocated[zone][block] /\ allocated[zone][block] \in Nat
    BY <1>0, <1>2, BlockTyped DEF block_size
  <2>2. \A p \in 0..span - 1 : PageAt(zone, block, p) \subseteq BlockPages(zone, block)
    <3>1. \A p \in 0..span - 1 : p \in Nat
      BY <2>1
    <3> QED
      BY <1>0, <1>2, <3>1, PageFound
  <2>3. Written(zone, block, span, faulty) \subseteq BlockPages(zone, block)
    BY <2>2 DEF Written
  <2> QED
    BY <1>1, <1>2, <2>1, <2>3
<1>3. CASE block \notin Blocks
  <2>1. span = 0
    BY <1>3 DEF block_size
  <2>2. 0..span - 1 = {}
    BY <2>1
  <2>3. Written(zone, block, span, faulty) = {}
    BY <2>2 DEF Written
  <2> QED
    BY <1>1, <1>3, <2>3
<1> QED
  BY <1>2, <1>3

\* Pages that are in no block hold nothing.
LEMMA ClearedKept ==
  ASSUME MemoryTypes, CallInv, SizesThere, PagesApart, [MemoryNext]_memoryVars,
         \A p \in free \cup others : contents[p] = Zeros
  PROVE  \A p \in free' \cup others' : contents'[p] = Zeros
<1> DEFINE Goal == \A p \in free' \cup others' : contents'[p] = Zeros
<1>0. free \subseteq Pages /\ others \subseteq Pages /\ contents \in [Pages -> Nat] /\ zone \in Zones
  BY Zenon DEF MemoryTypes
<1>1. others' = others \/ OthersTake \/ OthersReturn
  <2>1. ASSUME ProgramStep PROVE others' = others
    BY Zenon, <2>1 DEF ProgramStep, TestMemory, NextBlock, NoMemory, Allocating, Allocated, WriteBlock, ReadBlock,
       FreeMemory, HandleSignal
  <2> QED
    BY <2>1 DEF MemoryNext, memoryVars, Signal, LoadDriver
<1>2. CASE UNCHANGED <<contents, free, others>>
  BY <1>2
<1>3. CASE OthersTake
  <2>1. PICK p \in FromLow(free) \cup FromHigh(free) : free' = free \ {p} /\ others' = others \cup {p}
    BY <1>3 DEF OthersTake
  <2>2. p \in free
    BY Zenon, TakenFree DEF MemoryTypes
  <2>3. contents' = contents
    BY <1>3 DEF OthersTake
  <2> QED
    BY <2>1, <2>2, <2>3
<1>4. CASE OthersReturn
  BY <1>4 DEF OthersReturn
<1>5. CASE others' = others
  <2>1. CASE UNCHANGED kernel \/ AllocateEnded
    <3>1. UNCHANGED <<contents, free>>
      BY <2>1, EndDoes DEF kernel
    <3> QED
      BY <1>2, <1>5, <3>1
  <2>2. ASSUME NEW w, AllocateBegin(zone, w) PROVE Goal
    BY <1>5, <2>2 DEF AllocateBegin
  <2>3. CASE AllocateEntry
    <3>1. PICK p \in FromLow(free), got \in 0..Room : \E high \in [1..got -> free \ {p}] :
           EntryGrown(p, got, high)
      BY <2>3, BlockGrows, Zenon
    <3>2. PICK high \in [1..got -> free \ {p}] : EntryGrown(p, got, high)
      BY <3>1
    <3>3. /\ free' \subseteq free
          /\ contents' = [q \in Pages |-> IF q = p /\ zone = High THEN Zeros ELSE contents[q]]
      BY <3>2 DEF EntryGrown
    <3> QED
      BY <1>0, <1>5, <3>3
  <2>4. CASE AllocateFails \/ MapFails \/ AllocateStops
    BY <1>2, <1>5, <2>4, CutShort
  <2>5. CASE WriteBlock /\ HasFile("write")
    <3>1. step = "write" /\ free' = free
      BY <2>5, WriteOrNot
    <3> DEFINE W == Written(zone, block, block_size(zone, block), faulty)
    <3>2. /\ contents' = [q \in Pages |-> IF q \in W THEN pattern ELSE contents[q]]
          /\ block \in Blocks => W \subseteq BlockPages(zone, block)
          /\ block \notin Blocks => W = {}
      BY <2>5, <3>1, WrittenPages
    <3>3. block \in Blocks => BlockPages(zone, block) \cap (free \cup others) = {}
      BY <1>0 DEF PagesApart, PagesOnce
    <3> HIDE DEF W
    <3>4. W \cap (free \cup others) = {}
      BY <3>2, <3>3
    <3> QED
      BY <1>0, <1>5, <3>1, <3>2, <3>4
  <2>6. ASSUME NEW z \in Zones, NEW blocks, let_my_pages_go(z, blocks) PROVE Goal
    <3>1. contents' = [p \in Pages |-> IF p \in free' \ free THEN Zeros ELSE contents'[p]]
      BY <2>6, LetGo
    <3>2. \A p \in Pages : contents'[p] \in {Zeros, contents[p]}
      BY <2>6, LetGo
    <3>3. free' \subseteq Pages
      <4>1. free' \subseteq free \cup UNION {BlockPages(z, b) : b \in Blocks}
        <5>1. free' \subseteq free \cup
                UNION {BlockPages(z, b) : b \in {c \in Blocks : c \in blocks /\ allocated[z][c] > 0}}
          <6>1. free' \subseteq free \cup
                  UNION {BlockPages(z, b) : b \in {c \in Blocks : z = z /\ c \in blocks /\ allocated[z][c] > 0}}
            BY <2>6, LetGo
          <6> QED
            BY <6>1
        <5> QED
          BY <5>1
      <4>2. \A b \in Blocks : BlockPages(z, b) \subseteq Pages
        BY HeldInBlock
      <4> QED
        BY <1>0, <4>1, <4>2
    <3>4. ASSUME NEW p \in free' \cup others' PROVE contents'[p] = Zeros
      <4>1. p \in Pages
        BY <1>0, <1>5, <3>3
      <4>2. CASE p \in free' \ free
        BY <3>1, <4>1, <4>2
      <4>3. CASE p \notin free' \ free
        <5>1. p \in free \cup others
          BY <1>5, <4>3
        <5> QED
          BY <3>2, <4>1, <5>1
      <4> QED
        BY <4>2, <4>3
    <3> QED
      BY <3>4
  <2>7. CASE Load
    BY <1>5, <2>7 DEF Load
  <2>8. ASSUME NEW k \in 1..Len(CreationOrder), LoadFails(k) PROVE Goal
    BY <1>5, <2>8 DEF LoadFails
  <2>9. CASE Unload
    <3> DEFINE used == {zb \in Zones \X Blocks : freeCnt(zb[1], zb[2]) > 0}
               given == UNION {Held(zb[1], zb[2], freeCnt(zb[1], zb[2])) : zb \in used}
    <3>1. free' = free \cup given /\ contents' = [p \in Pages |-> IF p \in given THEN Zeros ELSE contents[p]]
      BY <2>9 DEF Unload, Cleared
    <3>2. given \subseteq Pages
      <4>1. \A z \in Zones, b \in Blocks : Held(z, b, freeCnt(z, b)) \subseteq Pages
        BY HeldInBlock
      <4>2. \A zb \in used : Held(zb[1], zb[2], freeCnt(zb[1], zb[2])) \subseteq Pages
        BY <4>1
      <4> QED
        BY <4>2
    <3> HIDE DEF given
    <3> QED
      BY <1>0, <1>5, <3>1, <3>2
  <2> QED
    <3> HIDE <1>0, <1>2
    <3> QED
      BY <1>3, <1>4, <2>1, <2>2, <2>3, <2>4, <2>5, <2>6, <2>7, <2>8, <2>9, DriverSteps, WriteOrNot,
         Zenon
<1> QED
  BY <1>1, <1>3, <1>4, <1>5

\* What a step may be that leads to the allocation, the writing or the reading of a block.
LEMMA StepsTo ==
  ASSUME MemoryTypes, CallInv, [MemoryNext]_memoryVars, step' \in {"allocate", "write", "read"}
  PROVE  \/ NextBlock \/ (Allocating /\ step = "allocate") \/ Allocated \/ WriteBlock
         \/ UNCHANGED <<step, zone, j, nomem, block, pattern, failed, clean, faulty,
                        allocated, pages, contents, call, files>>
<1>1. CASE UNCHANGED memoryVars \/ OthersTake \/ OthersReturn
  BY <1>1 DEF memoryVars, memtest, kernel, OthersTake, OthersReturn
<1>2. CASE TestMemory
  BY <1>2 DEF TestMemory
<1>3. CASE NoMemory \/ ReadBlock \/ FreeMemory \/ HandleSignal \/ Signal
  BY Zenon, <1>3 DEF NoMemory, ReadBlock, FreeMemory, HandleSignal, Signal
<1>4. CASE LoadDriver
  BY <1>4 DEF LoadDriver, memtest
<1>5. CASE Allocating
  <2>1. InLoop
    BY Zenon, <1>5 DEF Allocating, AllocateEntry, AllocateFails, MapFails, AllocateStops
  <2> QED
    BY <1>5, <2>1, CallOpen
<1> QED
  BY <1>1, <1>2, <1>3, <1>4, <1>5 DEF MemoryNext, ProgramStep

\* Blocks whose entries do not change have the same pages at the same places.
LEMMA PlacesFrame ==
  ASSUME NEW z, NEW b, pages'[z][b] = pages[z][b]
  PROVE  /\ BlockPages(z, b)' = BlockPages(z, b)
         /\ \A p : PageAt(z, b, p)' = PageAt(z, b, p)
  BY DEF BlockPages, Held, PageAt, get_mem_page

\* Every step keeps what is known of the pages' contents.
LEMMA ContentsKept ==
  ASSUME MemoryTypes, CallInv, SizesThere, PagesApart, ContentsInv, [MemoryNext]_memoryVars
  PROVE  ContentsInv'
<1>0. /\ zone \in Zones /\ pages \in [Zones -> [Blocks -> Seq(Entry)]]
      /\ contents \in [Pages -> Nat] /\ pattern \in Nat
  BY Zenon DEF MemoryTypes
<1>1. \A p \in free' \cup others' : contents'[p] = Zeros
  BY ClearedKept DEF ContentsInv
<1>2. ASSUME step' = "allocate" PROVE \A p \in BlockPages(zone, call.block)' : contents'[p] = Zeros
  <2>0. CASE NextBlock
    <3>1. PICK w : AllocateBegin(zone, w)
      BY <1>2, <2>0, Requested
    <3>2. PICK b \in Blocks : b = Min(FreeBlocks(zone))
      BY <3>1, AdmittedFor
    <3>3. call'.block = b /\ pages' = [pages EXCEPT ![zone][b] = << >>] /\ zone' = zone
      BY <2>0, <3>1, <3>2, Requested DEF AllocateBegin
    <3>4. pages'[zone][b] = << >>
      BY <1>0, <3>2, <3>3
    <3>5. BlockPages(zone, b)' = {}
      BY <3>3, <3>4 DEF BlockPages, Held
    <3> QED
      BY <3>3, <3>5 DEF BlockPages, Held
  <2>1. CASE Allocating /\ step = "allocate" /\ AllocateEntry
    <3>0. zone' = zone /\ call.block \in Blocks
      <4>1. InLoop /\ zone' = zone
        BY Zenon, <2>1 DEF Allocating, memtest, AllocateEntry
      <4> QED
        BY <4>1, CallOpen
    <3>1. PICK p \in FromLow(free), got \in 0..Room : \E high \in [1..got -> free \ {p}] :
           EntryGrown(p, got, high)
      BY <2>1, BlockGrows, Zenon
    <3>2. PICK high \in [1..got -> free \ {p}] : EntryGrown(p, got, high)
      BY <3>1
    <3> DEFINE here == pages[zone][call.block]
               e == [page |-> p, high |-> high]
               after == Append(here, e)
    <3>3. /\ pages'[zone][call.block] = after /\ Len(after) = Len(here) + 1 /\ Len(here) \in Nat
          /\ \A k \in 1..Len(here) : after[k] = here[k]
          /\ after[Len(here) + 1] = e /\ EntryPages(e) \subseteq free
          /\ \A q \in Pages : contents'[q] \in {Zeros, contents[q]}
      <4>1. Len(here) \in Nat
        BY <1>0, <3>0, BlockTyped
      <4>2. EntryPages(e) = {p} \cup Range(high) /\ p \in free /\ Range(high) \subseteq free \ {p}
        BY <3>2 DEF EntryGrown
      <4>3. contents' = [q \in Pages |-> IF q = p /\ zone = High THEN Zeros ELSE contents[q]]
        BY <3>2 DEF EntryGrown
      <4>4. /\ \A z \in Zones, b \in Blocks :
                 pages'[z][b] = IF z = zone /\ b = call.block THEN after ELSE pages[z][b]
            /\ Len(after) = Len(here) + 1
            /\ \A k \in 1..Len(here) : after[k] = here[k]
            /\ after[Len(here) + 1] = e
        BY <3>2 DEF EntryGrown
      <4> HIDE DEF after, e, here
      <4>5. pages'[zone][call.block] = after
        BY <1>0, <3>0, <4>4
      <4> QED
        BY <4>1, <4>2, <4>3, <4>4, <4>5
    <3>4. call'.block = call.block
      <4>1. call' = [call EXCEPT !.i = @ + 1, !.count = CountAfter(got, got < Room)]
        BY <3>2 DEF EntryGrown
      <4>2. DOMAIN call = {"zone", "block", "want", "size", "i", "count", "more"}
        BY Zenon DEF MemoryTypes
      <4> QED
        BY <4>1, <4>2
    <3> HIDE DEF here, e, after
    <3>5. BlockPages(zone, call.block)' = UNION {EntryPages(after[k]) : k \in 1..Len(after)}
      BY <3>0, <3>3, <3>4 DEF BlockPages, Held, EntryPages
    <3>6. BlockPages(zone, call.block) = UNION {EntryPages(here[k]) : k \in 1..Len(here)}
      BY DEF BlockPages, Held, here
    <3>7. BlockPages(zone, call.block) \subseteq Pages /\ free \subseteq Pages
      BY Zenon, <1>0, <3>0, HeldInBlock DEF MemoryTypes
    <3>8. ASSUME NEW k \in 1..Len(after), NEW q \in EntryPages(after[k]) PROVE contents'[q] = Zeros
      <4>1. CASE k = Len(here) + 1
        <5>1. q \in free /\ q \in Pages
          BY <3>3, <3>7, <3>8, <4>1
        <5> QED
          BY <3>3, <5>1 DEF ContentsInv
      <4>2. CASE k # Len(here) + 1
        <5>1. k \in 1..Len(here)
          BY <3>3, <3>8, <4>2
        <5>2. q \in BlockPages(zone, call.block) /\ q \in Pages
          BY <3>3, <3>6, <3>7, <3>8, <5>1
        <5> QED
          BY <2>1, <3>3, <5>2 DEF ContentsInv
      <4> QED
        BY <4>1, <4>2
    <3> QED
      BY <3>5, <3>8
  <2>2. CASE Allocating /\ step = "allocate" /\ (AllocateFails \/ MapFails \/ AllocateStops)
    <3>1. UNCHANGED <<pages, contents>> /\ call' = [call EXCEPT !.i = Unsigned(@ - 1), !.more = FALSE]
      BY <2>2, CutShort
    <3>2. DOMAIN call = {"zone", "block", "want", "size", "i", "count", "more"}
      BY Zenon DEF MemoryTypes
    <3>3. call'.block = call.block /\ zone' = zone
      BY <2>2, <3>1, <3>2 DEF Allocating, memtest
    <3>4. BlockPages(zone, call.block)' = BlockPages(zone, call.block)
      BY <3>1, <3>3 DEF BlockPages, Held, EntryPages
    <3> QED
      BY <2>2, <3>1, <3>4 DEF ContentsInv
  <2>3. CASE Allocated \/ WriteBlock
    BY <1>2, <2>3 DEF Allocated, WriteBlock
  <2>4. CASE UNCHANGED <<step, zone, j, nomem, block, pattern, failed, clean, faulty,
                         allocated, pages, contents, call, files>>
    <3>1. BlockPages(zone, call.block)' = BlockPages(zone, call.block)
      BY <2>4 DEF BlockPages, Held, EntryPages
    <3> QED
      BY <1>2, <2>4, <3>1 DEF ContentsInv
  <2>5. Allocating => AllocateEntry \/ AllocateFails \/ MapFails \/ AllocateStops
    BY DEF Allocating
  <2> QED
    BY <1>2, <2>0, <2>1, <2>2, <2>3, <2>4, <2>5, StepsTo
<1>3. ASSUME step' = "write", block' \in Blocks
      PROVE  \A p \in BlockPages(zone, block)' : contents'[p] = Zeros
  <2>1. CASE NextBlock
    BY <1>3, <2>1, Requested, PageConstants
  <2>2. CASE Allocating \/ WriteBlock
    <3>1. CASE Allocating /\ step = "allocate"
      BY <1>3, <3>1 DEF Allocating, memtest
    <3> QED
      <4>1. Allocating => InLoop
        BY Zenon DEF Allocating, AllocateEntry, AllocateFails, MapFails, AllocateStops
      <4> QED
        BY <1>3, <2>2, <3>1, <4>1, CallOpen DEF WriteBlock
  <2>3. CASE Allocated
    <3>1. PICK created : block' = Result(created) /\ zone' = zone /\ AllocateEnd(created)
      BY <2>3 DEF Allocated
    <3>2. created # {} /\ block' = call.block
      BY <1>3, <3>1, PageConstants DEF Result
    <3>3. step = "allocate" /\ UNCHANGED <<pages, contents>>
      <4>1. AnyReported
        BY <3>1, <3>2 DEF AllocateEnd
      <4> QED
        BY <3>1, <4>1, EndReported
    <3>4. BlockPages(zone, block)' = BlockPages(zone, call.block)
      BY <3>1, <3>2, <3>3 DEF BlockPages, Held, EntryPages
    <3> QED
      BY <3>3, <3>4 DEF ContentsInv
  <2>4. CASE UNCHANGED <<step, zone, j, nomem, block, pattern, failed, clean, faulty,
                         allocated, pages, contents, call, files>>
    <3>1. BlockPages(zone, block)' = BlockPages(zone, block)
      BY <2>4 DEF BlockPages, Held, EntryPages
    <3> QED
      BY <1>3, <2>4, <3>1 DEF ContentsInv
  <2> QED
    BY <1>3, <2>1, <2>2, <2>3, <2>4, StepsTo
<1>4. ASSUME step' = "read", block' \in Blocks
      PROVE  \A p \in 0..allocated'[zone'][block'] - 1 : \A q \in PageAt(zone, block, p)' :
               contents'[q] = IF q \in faulty' \/ ~HasFile("write")' THEN Zeros ELSE pattern'
  <2>1. CASE NextBlock \/ Allocated
    BY <1>4, <2>1, Requested DEF Allocated
  <2>2. CASE Allocating
    <3>1. Allocating => InLoop
      BY DEF Allocating, AllocateEntry, AllocateFails, MapFails, AllocateStops
    <3> QED
      BY <1>4, <2>2, <3>1, CallOpen DEF Allocating, memtest
  <2>3. CASE WriteBlock
    <3>1. /\ step = "write" /\ UNCHANGED <<zone, block, pattern, faulty, pages, allocated>>
          /\ HasFile("write")' = HasFile("write")
      BY <2>3, WriteOrNot DEF HasFile
    <3> DEFINE span == allocated[zone][block]
               W == Written(zone, block, span, faulty)
    <3>2. ASSUME HasFile("write")
          PROVE  /\ contents' = [q \in Pages |-> IF q \in W THEN pattern ELSE contents[q]]
                 /\ W = (UNION {PageAt(zone, block, p) : p \in 0..span - 1}) \ faulty
      <4>1. block \in Blocks /\ block_size(zone, block) = span
        BY <1>4, <3>1 DEF block_size
      <4>2. contents' = [q \in Pages |-> IF q \in Written(zone, block, block_size(zone, block), faulty)
                                         THEN pattern ELSE contents[q]]
        BY <2>3, <3>1, <3>2, WrittenPages
      <4> QED
        BY <4>1, <4>2 DEF Written
    <3>3. \A p \in 0..span - 1 : /\ PageAt(zone, block, p)' = PageAt(zone, block, p)
                                 /\ PageAt(zone, block, p) \subseteq BlockPages(zone, block)
                                 /\ PageAt(zone, block, p) \subseteq Pages
      <4>1. \A p \in 0..span - 1 : p \in Nat
        BY <1>0, <1>4, <3>1, BlockTyped
      <4>2. \A p \in 0..span - 1 : PageAt(zone, block, p)' = PageAt(zone, block, p)
        BY <3>1 DEF PageAt, get_mem_page
      <4> QED
        BY <1>0, <1>4, <3>1, <4>1, <4>2, PageFound
    <3>4. \A q \in BlockPages(zone, block) : contents[q] = Zeros
      BY <1>4, <3>1 DEF ContentsInv
    <3> HIDE DEF W
    <3>5. ASSUME NEW p \in 0..span - 1, NEW q \in PageAt(zone, block, p)
          PROVE  contents'[q] = IF q \in faulty \/ ~HasFile("write") THEN Zeros ELSE pattern
      <4>1. q \in Pages /\ contents[q] = Zeros
        BY <3>3, <3>4, <3>5
      <4>2. ASSUME HasFile("write") PROVE q \in W <=> q \notin faulty
        <5>1. q \in UNION {PageAt(zone, block, r) : r \in 0..span - 1}
          BY <3>5
        <5> QED
          BY <3>2, <4>2, <5>1
      <4>3. ~HasFile("write") => contents' = contents
        BY <2>3, WriteOrNot DEF kernel
      <4> QED
        BY <3>2, <4>1, <4>2, <4>3
    <3> QED
      BY <3>1, <3>3, <3>5
  <2>4. CASE UNCHANGED <<step, zone, j, nomem, block, pattern, failed, clean, faulty,
                         allocated, pages, contents, call, files>>
    <3>1. /\ \A p : PageAt(zone, block, p)' = PageAt(zone, block, p)
          /\ HasFile("write")' = HasFile("write")
      BY <2>4 DEF PageAt, get_mem_page, HasFile
    <3> QED
      BY <1>4, <2>4, <3>1 DEF ContentsInv
  <2> QED
    BY <1>4, <2>1, <2>2, <2>3, <2>4, StepsTo
<1>5. ASSUME step' \in {"allocate", "write", "read"} PROVE pattern' > 0
  <2>1. CASE NextBlock
    BY <1>0, <2>1, Requested
  <2>2. CASE Allocating /\ step = "allocate"
    BY <2>2 DEF Allocating, memtest, ContentsInv
  <2>3. CASE Allocated
    <3>1. AllocateEnded /\ pattern' = pattern
      BY <2>3 DEF Allocated, AllocateEnded
    <3>2. step = "allocate"
      BY <3>1, CallOpen, EndDoes
    <3> QED
      BY <3>1, <3>2 DEF ContentsInv
  <2>4. CASE WriteBlock
    BY <2>4, WriteOrNot DEF ContentsInv
  <2> QED
    BY <1>5, <2>1, <2>2, <2>3, <2>4, StepsTo DEF ContentsInv
<1> QED
  BY <1>1, <1>2, <1>3, <1>4, <1>5 DEF ContentsInv

\* The block that is tested keeps its files.
LEMMA FiledKept ==
  ASSUME MemoryTypes, CallInv, FiledInv, [MemoryNext]_memoryVars
  PROVE  FiledInv'
<1> SUFFICES ASSUME step' \in {"write", "read"}, block' \in Blocks
             PROVE  BlockFiles(zone', block') \subseteq files' \/ halfFiled'
  BY DEF FiledInv, BlockFiles
<1>0. halfFiled => halfFiled'
  BY HistoryGrows
<1>1. CASE NextBlock
  BY <1>1, Requested, PageConstants
<1>2. CASE Allocating /\ step = "allocate"
  BY <1>2 DEF Allocating, memtest
<1>3. CASE Allocated
  <2>1. PICK created : block' = Result(created) /\ zone' = zone /\ AllocateEnd(created)
    BY <1>3 DEF Allocated
  <2>2. created # {} /\ block' = call.block
    BY <2>1, PageConstants DEF Result
  <2>3. AnyReported
    BY <2>1, <2>2 DEF AllocateEnd
  <2>4. files' = files \cup created /\ (created # BlockFiles(zone, call.block) => halfFiled')
    BY <2>1, <2>2, <2>3, EndReported
  <2> QED
    BY <2>1, <2>2, <2>4
<1>4. CASE WriteBlock
  BY <1>0, <1>4, WriteOrNot DEF FiledInv
<1>5. CASE UNCHANGED <<step, zone, j, nomem, block, pattern, failed, clean, faulty,
                       allocated, pages, contents, call, files>>
  BY <1>0, <1>5 DEF FiledInv
<1> QED
  BY <1>1, <1>2, <1>3, <1>4, <1>5, StepsTo

-----------------------------------------------------------------------------------
(* How far a test is *)

\* Every step keeps what is known of the progress of a test.
LEMMA ProgressKept ==
  ASSUME MemoryTypes, CallInv, SizesThere, ProgressInv, [MemoryNext]_memoryVars
  PROVE  ProgressInv'
<1>0. /\ zone \in Zones /\ allocated \in [Zones -> [Blocks -> 0..Cardinality(Pages)]] /\ j \in -1..MaxBlocks
      /\ \A b \in Blocks : allocated[zone][b] \in Nat /\ b \in Nat
  <2>1. zone \in Zones /\ allocated \in [Zones -> [Blocks -> 0..Cardinality(Pages)]] /\ j \in -1..MaxBlocks
    BY Zenon DEF MemoryTypes
  <2> QED
    BY <2>1, BlockTyped, PageConstants
<1>1. CASE UNCHANGED memoryVars \/ OthersTake \/ OthersReturn
  <2>1. UNCHANGED <<step, zone, j, nomem, clean, allocated, call>>
    BY <1>1 DEF memoryVars, memtest, kernel, OthersTake, OthersReturn
  <2> QED
    BY Zenon, <2>1 DEF ProgressInv
<1>2. CASE LoadDriver \/ Signal \/ FreeMemory
  <2>1. step' \in {"idle", "signal"}
    BY <1>2 DEF LoadDriver, memtest, Signal, FreeMemory
  <2> QED
    BY Zenon, <2>1 DEF ProgressInv, InTest
<1>3. CASE TestMemory
  <2>1. /\ \/ step' = "idle"
           \/ step' = "block" /\ j' = 0 /\ nomem' = FALSE
        /\ clean' => \A b \in Blocks : ~(allocated'[zone'][b] > 0)
    <3>1. allocated' = allocated /\ clean' = NoneAllocated(zone')
      BY <1>3 DEF TestMemory, kernel
    <3>2. NoneAllocated(zone') => \A b \in Blocks : allocated'[zone'][b] = 0
      BY <3>1 DEF NoneAllocated
    <3>3. step' = "idle" \/ (step' = "block" /\ j' = 0 /\ nomem' = FALSE)
      BY <1>3 DEF TestMemory
    <3> QED
      BY <3>1, <3>2, <3>3
  <2>2. 0 \in 0..BlocksOf[zone']
    <3>1. zone' \in Zones
      BY <1>0, <1>3, PageConstants DEF TestMemory, OtherZone
    <3> QED
      BY <3>1, TestConstants
  <2> QED
    BY Zenon, <2>1, <2>2 DEF ProgressInv, InTest
<1>4. CASE NextBlock
  <2>1. /\ step = "block" /\ UNCHANGED <<zone, j, nomem, clean, allocated>>
        /\ \/ step' = "allocate" /\ \E w : AllocateBegin(zone, w)
           \/ step' = "write"
    <3>1. (\E w : AllocateBegin(zone, w)) \/ UNCHANGED kernel => UNCHANGED allocated
      BY DEF AllocateBegin, kernel
    <3> QED
      BY <1>4, <3>1, Requested
  <2>2. j \in 0..BlocksOf[zone] /\ ~nomem
    BY <2>1 DEF ProgressInv, InTest
  <2>3. clean => \A b \in Blocks : allocated[zone][b] > 0 => b < j /\ b <= j
    <3>1. clean => \A b \in Blocks : allocated[zone][b] > 0 => b < j
      BY <2>1 DEF ProgressInv
    <3> QED
      BY <1>0, <2>2, <3>1
  <2>4. ASSUME clean, NEW w, AllocateBegin(zone, w) PROVE call'.block <= j
    <3>1. j \in Blocks
      <4> DEFINE n == BlocksOf[zone]
      <4>1. j \in 0..n /\ n \in Nat /\ n + 1 <= MaxBlocks /\ MaxBlocks \in Nat
        BY <1>0, <2>2, TestConstants, PageConstants
      <4> HIDE DEF n
      <4> QED
        BY <4>1 DEF Blocks
    <3>2. allocated[zone][j] = 0
      <4>1. ~(j < j)
        BY <2>2, TestConstants
      <4>2. ~(allocated[zone][j] > 0) /\ allocated[zone][j] \in Nat
        BY <1>0, <2>3, <2>4, <3>1, <4>1
      <4> QED
        BY <4>2
    <3>3. j \in FreeBlocks(zone)
      BY <3>1, <3>2 DEF FreeBlocks
    <3>4. Min(FreeBlocks(zone)) <= j
      BY <2>4, <3>3, AdmittedFor
    <3> QED
      BY <2>4, <3>4 DEF AllocateBegin
  <2> QED
    BY Zenon, <2>1, <2>2, <2>3, <2>4 DEF ProgressInv
<1>5. CASE NoMemory
  <2>1. step = "block" /\ step' = "free" /\ nomem' = TRUE /\ j' = j - 1 /\ zone' = zone
    BY <1>5 DEF NoMemory
  <2>2. j \in 0..BlocksOf[zone] /\ BlocksOf[zone] \in Nat
    BY <1>0, <2>1, TestConstants DEF ProgressInv, InTest
  <2>3. j' \in -1..BlocksOf[zone] + 1
    <3> DEFINE n == BlocksOf[zone]
    <3>1. j \in 0..n /\ n \in Nat /\ j' = j - 1
      BY <2>1, <2>2
    <3> HIDE DEF n
    <3>2. j' \in -1..n + 1
      BY <3>1
    <3> QED
      BY <3>2 DEF n
  <2> QED
    BY <2>1, <2>3 DEF ProgressInv, InTest
<1>6. CASE Allocating
  <2>1. InLoop /\ UNCHANGED <<step, zone, j, nomem, clean>>
    BY Zenon, <1>6 DEF Allocating, memtest, AllocateEntry, AllocateFails, MapFails, AllocateStops
  <2>2. step = "allocate"
    BY <2>1, CallOpen
  <2>3. UNCHANGED allocated /\ call'.block = call.block
    <3>1. DOMAIN call = {"zone", "block", "want", "size", "i", "count", "more"}
      BY Zenon DEF MemoryTypes
    <3>2. \/ call' = [call EXCEPT !.i = Unsigned(@ - 1), !.more = FALSE]
          \/ \E c : call' = [call EXCEPT !.i = @ + 1, !.count = c]
      <4>1. CASE AllocateEntry
        <5>1. PICK p \in FromLow(free), got \in 0..Room : \E high \in [1..got -> free \ {p}] :
               EntryGrown(p, got, high)
          BY <4>1, BlockGrows, Zenon
        <5>2. call' = [call EXCEPT !.i = @ + 1, !.count = CountAfter(got, got < Room)]
          BY <5>1 DEF EntryGrown
        <5> QED
          BY Zenon, <5>2
      <4>2. CASE AllocateFails \/ MapFails \/ AllocateStops
        BY Zenon, <4>2, CutShort
      <4> QED
        BY Zenon, <1>6, <4>1, <4>2 DEF Allocating
    <3>3. UNCHANGED allocated
      BY Zenon, <1>6 DEF Allocating, AllocateEntry, AllocateFails, MapFails, AllocateStops
    <3> QED
      BY Zenon, <3>1, <3>2, <3>3
  <2> QED
    BY <2>1, <2>2, <2>3 DEF ProgressInv
<1>7. CASE Allocated
  <2>1. PICK created : /\ AllocateEnd(created) /\ step' = "write"
                       /\ UNCHANGED <<zone, j, nomem, clean>>
    BY <1>7 DEF Allocated
  <2>2. step = "allocate"
    BY <2>1, CallOpen DEF AllocateEnd
  <2>3. \A b \in Blocks : allocated'[zone][b] = allocated[zone][b] \/ b = call.block
    <3>1. CASE ~AnyReported
      BY <2>1, <3>1 DEF AllocateEnd
    <3>2. CASE AnyReported
      <4>1. \A z \in Zones, b \in Blocks :
              allocated'[z][b] = IF z = zone /\ b = call.block THEN PagesReported ELSE allocated[z][b]
        BY <2>1, <3>2, EndReported
      <4> QED
        BY <1>0, <4>1
    <3> QED
      BY <3>1, <3>2
  <2>4. j \in 0..BlocksOf[zone] /\ ~nomem
    BY <2>2 DEF ProgressInv, InTest
  <2>5. ASSUME clean, NEW b \in Blocks, allocated'[zone][b] > 0 PROVE b <= j
    <3>1. CASE b = call.block
      BY <2>2, <2>5, <3>1 DEF ProgressInv
    <3>2. CASE allocated'[zone][b] = allocated[zone][b]
      <4>1. b < j /\ b \in Nat
        BY <1>0, <2>2, <2>5, <3>2 DEF ProgressInv
      <4> QED
        BY <1>0, <4>1
    <3> QED
      BY <2>3, <3>1, <3>2
  <2> QED
    BY Zenon, <2>1, <2>4, <2>5 DEF ProgressInv
<1>8. CASE WriteBlock
  <2>1. step = "write" /\ step' = "read" /\ UNCHANGED <<zone, j, nomem, clean, allocated>>
    BY <1>8, WriteOrNot
  <2> QED
    BY <2>1 DEF ProgressInv, InTest
<1>9. CASE ReadBlock
  <2>1. /\ step = "read" /\ step' = IF j = BlocksOf[zone] THEN "free" ELSE "block"
        /\ j' = j + 1 /\ UNCHANGED <<zone, nomem, clean, allocated>>
    BY <1>9 DEF ReadBlock, LastBlock, kernel
  <2>2. j \in 0..BlocksOf[zone] /\ ~nomem /\ BlocksOf[zone] \in Nat
    BY <1>0, <2>1, TestConstants DEF ProgressInv, InTest
  <2>3. clean => \A b \in Blocks : allocated[zone][b] > 0 => b < j'
    <3>1. clean => \A b \in Blocks : allocated[zone][b] > 0 => b <= j
      BY <2>1 DEF ProgressInv
    <3>2. j \in Int /\ \A b \in Blocks : b <= j => b < j'
      BY <1>0, <2>1
    <3> QED
      BY <3>1, <3>2
  <2>4. /\ j # BlocksOf[zone] => j' \in 0..BlocksOf[zone]
        /\ j' \in -1..BlocksOf[zone] + 1
    <3> DEFINE n == BlocksOf[zone]
    <3>1. j \in 0..n /\ n \in Nat /\ j' = j + 1
      BY <2>1, <2>2
    <3> HIDE DEF n
    <3>2. (j # n => j' \in 0..n) /\ j' \in -1..n + 1
      BY <3>1
    <3> QED
      BY <3>2 DEF n
  <2> QED
    BY <2>1, <2>2, <2>3, <2>4 DEF ProgressInv
<1>10. CASE HandleSignal
  <2>1. \/ step' = "idle"
        \/ step' = "signal high" /\ let_my_pages_go(Low, Blocks)
    BY Zenon, <1>10 DEF HandleSignal
  <2>2. ASSUME let_my_pages_go(Low, Blocks), NEW b \in Blocks PROVE allocated'[Low][b] = 0
    <3>1. Low \in Zones
      BY DEF Zones
    <3>2. allocated'[Low][b] = IF allocated[Low][b] > 0 THEN 0 ELSE allocated[Low][b]
      BY <2>2, <3>1, LetGoEach
    <3>3. allocated[Low][b] \in Nat
      BY <3>1, BlockTyped
    <3> QED
      BY <3>2, <3>3
  <2> QED
    BY Zenon, <2>1, <2>2 DEF ProgressInv, InTest
<1> QED
  BY <1>1, <1>2, <1>3, <1>4, <1>5, <1>6, <1>7, <1>8, <1>9, <1>10 DEF MemoryNext, ProgramStep

-----------------------------------------------------------------------------------
(* What a test reports *)

\* A set of numbers below a bound that is not empty has a greatest one.
LEMMA MemoryGreatest ==
  ASSUME NEW n \in Nat, NEW S, S \subseteq 0..n - 1, S # {}
  PROVE  Max(S) \in S /\ \A x \in S : x <= Max(S)
<1> DEFINE T == {n - x : x \in S}
<1>1. T \subseteq Nat /\ T # {}
  <2>1. \A x \in S : x \in 0..n - 1
    OBVIOUS
  <2>2. \A x \in S : n - x \in Nat
    BY <2>1
  <2> QED
    BY <2>2
<1>2. PICK m \in T : \A t \in T : m <= t
  BY <1>1, MemoryLeast
<1>3. PICK x \in S : m = n - x
  BY <1>2
<1>4. \A y \in S : x >= y
  <2>1. \A y \in S : n - x <= n - y /\ y \in Int /\ x \in Int
    BY <1>2, <1>3
  <2> QED
    BY <2>1
<1>5. Max(S) \in S /\ \A y \in S : Max(S) >= y
  BY <1>3, <1>4 DEF Max
<1>6. \A y \in S : y \in Int
  OBVIOUS
<1> QED
  BY <1>5, <1>6

\* The buffer holds what the last of the pages holds that were there.
LEMMA BufferHolds ==
  ASSUME MemoryTypes, block \in Blocks, HasFile("read"), NEW k \in Nat, NEW p \in 0..k - 1,
         PageAt(zone, block, p) # {}
  PROVE  /\ \E r \in p..k - 1 : \E q \in PageAt(zone, block, r) : BufferAfter(k) = contents[q]
         /\ k = p + 1 => \A q \in PageAt(zone, block, p) : BufferAfter(k) = contents[q]
<1> DEFINE there == {r \in 0..k - 1 : PageAt(zone, block, r) # {}}
<1>1. there # {} /\ there \subseteq 0..k - 1 /\ p \in there
  OBVIOUS
<1>2. Max(there) \in there /\ \A x \in there : x <= Max(there)
  <2> HIDE DEF there
  <2> QED
    BY <1>1, MemoryGreatest
<1> DEFINE m == Max(there)
<1>3. BufferAfter(k) = contents[CHOOSE q \in PageAt(zone, block, m) : TRUE]
  BY <1>1 DEF BufferAfter, ReadPages
<1>4. m \in 0..k - 1 /\ PageAt(zone, block, m) # {} /\ p <= m
  BY <1>1, <1>2
<1> HIDE DEF m, there
<1> DEFINE c == CHOOSE q \in PageAt(zone, block, m) : TRUE
<1>5. c \in PageAt(zone, block, m)
  BY <1>4
<1>6. m \in p..k - 1 /\ (k = p + 1 => m = p)
  BY <1>4
<1>7. \A q, r \in PageAt(zone, block, p) : q = r
  <2>1. zone \in Zones
    BY Zenon DEF MemoryTypes
  <2>2. p \in Nat
    OBVIOUS
  <2> QED
    BY <2>1, <2>2, PageFound
<1> HIDE DEF c
<1> QED
  BY <1>3, <1>5, <1>6, <1>7 DEF c

\* What becomes of the pages under test when nothing is reported that was not before.
LEMMA TestedFrame ==
  ASSUME MemoryTypes, zone' = zone, files' = files,
         \A b \in Blocks :
           /\ allocated'[zone][b] = allocated[zone][b]
           /\ pages'[zone][b] = pages[zone][b] \/ allocated[zone][b] = 0
  PROVE  \A b \in Blocks : TestedPages(b)' \subseteq TestedPages(b)
<1> SUFFICES ASSUME NEW b \in Blocks PROVE TestedPages(b)' \subseteq TestedPages(b)
  OBVIOUS
<1>1. CASE allocated[zone][b] = 0
  <2>1. allocated'[zone'][b] = 0 /\ 0..0 - 1 = {}
    BY <1>1
  <2>2. 0..allocated'[zone'][b] - 1 = {}
    BY <2>1
  <2>3. TestedPages(b)' = {}
    BY <2>2 DEF TestedPages
  <2> QED
    BY <2>3
<1>2. CASE pages'[zone][b] = pages[zone][b]
  BY <1>2 DEF TestedPages, PageAt, get_mem_page
<1> QED
  BY <1>1, <1>2

\* Reading a block finds every fault in it, and nothing else.
LEMMA BlockRead ==
  ASSUME MemoryTypes, SizesThere, ContentsInv, FiledInv, step = "read",
         NEW span, span = block_size(zone, block)
  PROVE  /\ (\E k \in 1..span : BufferAfter(k) # pattern) => faulty # {} \/ halfFiled
         /\ block \in Blocks /\ TestedPages(block) \cap faulty # {} =>
              \E k \in 1..span : BufferAfter(k) # pattern
<1>0. zone \in Zones /\ pattern \in Nat /\ pattern > 0 /\ Zeros = 0
  BY DEF MemoryTypes, ContentsInv, Zeros
<1>1. CASE block \in Blocks
  <2>1. span = allocated[zone][block] /\ span \in Nat
    BY <1>0, <1>1, BlockTyped DEF block_size
  <2>2. \A p \in 0..span - 1 : \A q \in PageAt(zone, block, p) :
          contents[q] = IF q \in faulty \/ ~HasFile("write") THEN Zeros ELSE pattern
    BY <1>1, <2>1 DEF ContentsInv
  <2>3. ASSUME NEW k \in 1..span, BufferAfter(k) # pattern, faulty = {}, ~halfFiled PROVE FALSE
    <3>0. HasFile("read") /\ HasFile("write")
      BY <1>1, <2>3 DEF FiledInv, HasFile, BlockFiles
    <3>1. PageAt(zone, block, 0) # {} /\ k \in Nat /\ 0 \in 0..k - 1 /\ \A r \in 0..k - 1 : r \in 0..span - 1
      <4>1. span > 0 /\ k \in Nat /\ 0 \in 0..k - 1 /\ \A r \in 0..k - 1 : r \in 0..span - 1
        BY <2>1
      <4> QED
        BY <1>0, <1>1, <2>1, <4>1, FirstFound
    <3>2. PICK r \in 0..k - 1 : \E q \in PageAt(zone, block, r) : BufferAfter(k) = contents[q]
      BY <1>1, <3>0, <3>1, BufferHolds
    <3> QED
      BY <2>2, <2>3, <3>0, <3>1, <3>2
  <2>4. ASSUME TestedPages(block) \cap faulty # {} PROVE \E k \in 1..span : BufferAfter(k) # pattern
    <3>0. HasFile("read")
      BY <2>4 DEF TestedPages, HasFile
    <3>1. PICK q \in faulty : \E p \in 0..span - 1 : q \in PageAt(zone, block, p)
      BY <2>1, <2>4 DEF TestedPages
    <3>2. PICK p \in 0..span - 1 : q \in PageAt(zone, block, p)
      BY <3>1
    <3>3. p + 1 \in 1..span /\ p + 1 \in Nat /\ p \in 0..(p + 1) - 1
      BY <2>1
    <3>4. BufferAfter(p + 1) = contents[q]
      BY <1>1, <3>0, <3>2, <3>3, BufferHolds
    <3>5. contents[q] = Zeros
      BY <2>2, <3>2
    <3> QED
      BY <1>0, <3>3, <3>4, <3>5
  <2> QED
    BY <2>3, <2>4
<1>2. CASE block \notin Blocks
  <2>1. span = 0 /\ 1..0 = {}
    BY <1>2 DEF block_size
  <2> QED
    BY <1>2, <2>1
<1> QED
  BY <1>1, <1>2

\* Every step keeps what is known of the failures.
LEMMA VerdictKept ==
  ASSUME MemoryTypes, CallInv, SizesThere, EntriesInv, ContentsInv, FiledInv, ProgressInv,
         VerdictInv, [MemoryNext]_memoryVars
  PROVE  VerdictInv'
<1>0. zone \in Zones /\ failed \in BOOLEAN /\ (halfFiled => halfFiled')
  BY Zenon, HistoryGrows DEF MemoryTypes
<1>1. CASE UNCHANGED memoryVars \/ OthersTake \/ OthersReturn
  <2>1. UNCHANGED <<step, zone, nomem, block, failed, clean, faulty, allocated, pages, files>>
    BY <1>1 DEF memoryVars, memtest, kernel, OthersTake, OthersReturn
  <2>2. \A b \in Blocks : TestedPages(b)' \subseteq TestedPages(b)
    BY <2>1, TestedFrame
  <2> QED
    BY <1>0, <2>1, <2>2 DEF VerdictInv
<1>2. CASE LoadDriver \/ Signal \/ FreeMemory \/ HandleSignal
  <2>1. step' \in {"idle", "signal", "signal high"} /\ failed' = failed /\ faulty' = faulty
    BY Zenon, <1>2 DEF LoadDriver, memtest, Signal, FreeMemory, HandleSignal
  <2> QED
    BY Zenon, <1>0, <2>1 DEF VerdictInv, InTest
<1>3. CASE TestMemory
  <2>1. /\ faulty' = faulty /\ (failed' => failed)
        /\ clean' => \A b \in Blocks : allocated'[zone'][b] = 0
    <3>1. allocated' = allocated /\ clean' = NoneAllocated(zone')
      BY <1>3 DEF TestMemory, kernel
    <3>2. NoneAllocated(zone') => \A b \in Blocks : allocated'[zone'][b] = 0
      BY <3>1 DEF NoneAllocated
    <3>3. faulty' = faulty /\ failed' = (failed /\ zone' = High)
      BY <1>3 DEF TestMemory
    <3> QED
      BY <3>1, <3>2, <3>3
  <2>2. ASSUME clean', NEW b \in Blocks PROVE TestedPages(b)' = {}
    <3>1. 0..allocated'[zone'][b] - 1 = {}
      <4>1. allocated'[zone'][b] = 0 /\ 0..0 - 1 = {}
        BY <2>1, <2>2
      <4> QED
        BY <4>1
    <3> QED
      BY <3>1 DEF TestedPages
  <2> QED
    BY <1>0, <2>1, <2>2 DEF VerdictInv
<1>4. CASE NextBlock
  <2>1. /\ step = "block" /\ UNCHANGED <<zone, nomem, failed, clean, faulty>>
        /\ \/ step' = "allocate" /\ \E w : AllocateBegin(zone, w)
           \/ step' = "write" /\ UNCHANGED kernel
    BY <1>4, Requested
  <2>2. \A b \in Blocks : TestedPages(b)' \subseteq TestedPages(b)
    <3>1. ASSUME NEW w, AllocateBegin(zone, w), NEW b \in Blocks
          PROVE  /\ allocated'[zone][b] = allocated[zone][b]
                 /\ pages'[zone][b] = pages[zone][b] \/ allocated[zone][b] = 0
      <4>1. allocated' = allocated /\ pages' = [pages EXCEPT ![zone][Min(FreeBlocks(zone))] = << >>]
        BY <3>1 DEF AllocateBegin
      <4>2. Min(FreeBlocks(zone)) \in FreeBlocks(zone)
        BY <3>1, AdmittedFor
      <4>3. pages \in [Zones -> [Blocks -> Seq(Entry)]]
        BY Zenon DEF MemoryTypes
      <4>4. CASE b = Min(FreeBlocks(zone))
        BY <4>1, <4>2, <4>4 DEF FreeBlocks
      <4>5. CASE b # Min(FreeBlocks(zone))
        BY <1>0, <4>1, <4>3, <4>5
      <4> QED
        BY <4>4, <4>5
    <3>2. UNCHANGED kernel => UNCHANGED <<allocated, pages, files>>
      BY DEF kernel
    <3>3. ASSUME NEW w, AllocateBegin(zone, w) PROVE files' = files
      BY <3>3 DEF AllocateBegin
    <3> QED
      BY <2>1, <3>1, <3>2, <3>3, TestedFrame
  <2> QED
    BY <1>0, <2>1, <2>2 DEF VerdictInv, InTest
<1>5. CASE NoMemory
  <2>1. step = "block" /\ step' = "free" /\ UNCHANGED <<zone, failed, clean, faulty, allocated, pages, files>>
    BY <1>5 DEF NoMemory, kernel
  <2>2. \A b \in Blocks : TestedPages(b)' \subseteq TestedPages(b)
    BY <2>1, TestedFrame
  <2> QED
    BY <1>0, <2>1, <2>2 DEF VerdictInv, InTest
<1>6. CASE Allocating
  <2>1. InLoop /\ UNCHANGED <<step, zone, nomem, block, failed, clean, faulty, allocated, files>>
    BY Zenon, <1>6 DEF Allocating, memtest, AllocateEntry, AllocateFails, MapFails, AllocateStops
  <2>2. step = "allocate" /\ allocated[zone][call.block] = 0
    BY <2>1, CallOpen
  <2>3. \A b \in Blocks : pages'[zone][b] = pages[zone][b] \/ b = call.block
    <3>1. CASE AllocateEntry
      <4>1. PICK p \in FromLow(free), got \in 0..Room : \E high \in [1..got -> free \ {p}] :
             EntryGrown(p, got, high)
        BY <3>1, BlockGrows, Zenon
      <4>2. PICK high \in [1..got -> free \ {p}] : EntryGrown(p, got, high)
        BY <4>1
      <4>3. \A z \in Zones, b \in Blocks :
              b # call.block => pages'[z][b] = pages[z][b]
        BY <4>2 DEF EntryGrown
      <4> QED
        BY <1>0, <4>3
    <3>2. CASE AllocateFails \/ MapFails \/ AllocateStops
      BY <3>2, CutShort
    <3> QED
      BY <1>6, <3>1, <3>2 DEF Allocating
  <2>4. \A b \in Blocks : TestedPages(b)' \subseteq TestedPages(b)
    BY <2>1, <2>2, <2>3, TestedFrame
  <2> QED
    BY <1>0, <2>1, <2>2, <2>4 DEF VerdictInv
<1>7. CASE Allocated
  <2>1. PICK created : /\ AllocateEnd(created) /\ step' = "write" /\ block' = Result(created)
                       /\ UNCHANGED <<zone, nomem, failed, clean, faulty>>
    BY <1>7 DEF Allocated
  <2>2. step = "allocate" /\ UNCHANGED pages
    BY <2>1, CallOpen DEF AllocateEnd
  <2>3. ASSUME NEW b \in Blocks, b # block' PROVE TestedPages(b)' \subseteq TestedPages(b)
    <3>1. CASE ~AnyReported
      <4>1. UNCHANGED <<allocated, files>>
        BY <2>1, <3>1 DEF AllocateEnd
      <4> QED
        BY <2>1, <2>2, <4>1 DEF TestedPages, PageAt, get_mem_page
    <3>2. CASE AnyReported
      <4>1. /\ allocated[zone][call.block] = 0 /\ call.block \in Blocks
            /\ b # call.block => allocated'[zone][b] = allocated[zone][b]
            /\ created \subseteq BlockFiles(zone, call.block) /\ files' = files \cup created
        BY <1>0, <2>1, <3>2, EndReported
      <4>2. CASE b = call.block
        <5>1. created = {}
          BY <2>1, <2>3, <4>2 DEF Result
        <5>2. BlockFiles(zone, b) \cap files' = {}
          BY <1>0, <4>1, <4>2, <5>1 DEF EntriesInv
        <5> QED
          BY <2>1, <5>2 DEF TestedPages, BlockFiles
      <4>3. CASE b # call.block
        <5>1. <<zone, b, "read">> \in files' => <<zone, b, "read">> \in files
          BY <4>1, <4>3 DEF BlockFiles
        <5> QED
          BY <2>1, <2>2, <4>1, <4>3, <5>1 DEF TestedPages, PageAt, get_mem_page
      <4> QED
        BY <4>2, <4>3
    <3> QED
      BY <3>1, <3>2
  <2> QED
    BY <1>0, <2>1, <2>2, <2>3 DEF VerdictInv, InTest
<1>8. CASE WriteBlock
  <2>1. /\ step = "write" /\ step' = "read"
        /\ UNCHANGED <<zone, nomem, block, failed, clean, faulty, allocated, pages, files>>
    BY <1>8, WriteOrNot
  <2>2. \A b \in Blocks : TestedPages(b)' \subseteq TestedPages(b)
    BY <2>1, TestedFrame
  <2> QED
    BY <1>0, <2>1, <2>2 DEF VerdictInv, InTest
<1>9. CASE ReadBlock
  <2> DEFINE span == block_size(zone, block)
             mismatch == \E k \in 1..span : BufferAfter(k) # pattern
  <2>1. /\ step = "read" /\ step' = IF LastBlock THEN "free" ELSE "block"
        /\ UNCHANGED <<zone, nomem, block, clean, faulty, allocated, pages, files>>
        /\ failed' = (failed \/ (~LastBlock /\ mismatch))
    BY <1>9 DEF ReadBlock, kernel
  <2>2. mismatch => faulty # {} \/ halfFiled
    BY <2>1, BlockRead
  <2>3. block \in Blocks /\ TestedPages(block) \cap faulty # {} => mismatch
    BY <2>1, BlockRead
  <2>4. \A b \in Blocks : TestedPages(b)' \subseteq TestedPages(b)
    BY <2>1, TestedFrame
  <2>5. ~nomem
    BY <2>1 DEF ProgressInv, InTest
  <2> HIDE DEF mismatch
  <2>6. failed' => faulty' # {} \/ halfFiled'
    BY <1>0, <2>1, <2>2 DEF VerdictInv
  <2>7. ASSUME clean', NEW b \in Blocks, TestedPages(b)' \cap faulty' # {}
        PROVE  failed' \/ (b = block' /\ step' = "free" /\ ~nomem')
    <3>1. clean /\ TestedPages(b) \cap faulty # {}
      BY <2>1, <2>4, <2>7
    <3>2. failed \/ b = block
      BY <2>1, <3>1 DEF VerdictInv, InTest
    <3>3. CASE failed
      BY <2>1, <3>3
    <3>4. CASE b = block /\ LastBlock
      BY <2>1, <2>5, <3>4
    <3>5. CASE b = block /\ ~LastBlock
      BY <2>1, <2>3, <3>1, <3>5
    <3> QED
      BY <3>2, <3>3, <3>4, <3>5
  <2> QED
    BY <2>6, <2>7 DEF VerdictInv
<1> QED
  BY <1>1, <1>2, <1>3, <1>4, <1>5, <1>6, <1>7, <1>8, <1>9 DEF MemoryNext, ProgramStep

-----------------------------------------------------------------------------------
(* The theorems of the memory test *)

\* The driver is not loaded and nothing is tested when the system starts.
LEMMA MemoryStarts == MemoryInit => MemoryIInv
<1> SUFFICES ASSUME MemoryInit PROVE MemoryIInv
  OBVIOUS
<1>0. /\ free = Pages /\ others = {} /\ allocated = NoBlocks /\ pages = NoPages
      /\ lock = [z \in Zones |-> FALSE] /\ contents = [p \in Pages |-> Zeros]
      /\ call = NoCall /\ entries = {} /\ files = {} /\ unfiled = {} /\ fails = 0
      /\ step = "idle" /\ zone = High /\ j = 0 /\ nomem = FALSE /\ block = EFAULT
      /\ pattern = Zeros /\ failed = FALSE /\ clean = TRUE
  BY DEF MemoryInit, AllocatorInit
<1>1. \A z \in Zones, b \in Blocks : allocated[z][b] = 0 /\ pages[z][b] = << >>
  BY <1>0 DEF NoBlocks, NoPages
<1>2. MemoryTypes
  <2>1. allocated \in [Zones -> [Blocks -> 0..Cardinality(Pages)]]
    <3>1. 0 \in 0..Cardinality(Pages)
      BY PageConstants
    <3> QED
      BY <1>0, <3>1 DEF NoBlocks
  <2>2. pages \in [Zones -> [Blocks -> Seq(Entry)]]
    <3>1. << >> \in Seq(Entry)
      BY EmptySeq
    <3> QED
      BY <1>0, <3>1 DEF NoPages
  <2>3. call \in [zone : Zones, block : Blocks \cup {EFAULT}, want : 0..Cardinality(Pages),
                  size : 0..Cardinality(Pages), i : 0..ULong - 1, count : 0..ULong - 1,
                  more : BOOLEAN]
    <3>1. 0 \in 0..Cardinality(Pages) /\ 0 \in 0..ULong - 1 /\ Low \in Zones
      BY PageConstants
    <3> QED
      BY <1>0, <3>1 DEF NoCall
  <2>4. lock \in [Zones -> BOOLEAN] /\ contents \in [Pages -> Nat]
    BY <1>0 DEF Zeros
  <2>5. fails \in 0..MaxFails /\ j \in -1..MaxBlocks /\ pattern \in Nat
    BY <1>0, PageConstants DEF Zeros
  <2>6. zone \in Zones /\ block \in Blocks \cup {EFAULT} /\ free \subseteq Pages /\ others \subseteq Pages
    BY <1>0 DEF Zones
  <2> QED
    BY <1>0, <2>1, <2>2, <2>3, <2>4, <2>5, <2>6 DEF MemoryTypes
<1>3. CallInv
  BY <1>0 DEF CallInv
<1>4. SizesThere
  <2>1. Low \in Zones /\ High \in Zones /\ Len(<< >>) = 0 /\ PagesPerPage * 0 = 0
    BY PageConstants
  <2> QED
    BY <1>1, <2>1 DEF SizesThere
<1>5. PagesApart
  <2>1. \A z \in Zones, b \in Blocks : BlockPages(z, b) = {} /\ DOMAIN pages[z][b] = {}
    BY <1>1 DEF BlockPages, Held
  <2> QED
    BY <1>0, <2>1 DEF PagesApart, PagesOnce
<1>6. EntriesInv
  BY <1>0, <1>1 DEF EntriesInv
<1>7. ContentsInv
  BY <1>0 DEF ContentsInv
<1>8. ProgressInv
  BY <1>0 DEF ProgressInv, InTest
<1>9. FiledInv
  BY <1>0 DEF FiledInv
<1>10. VerdictInv
  BY <1>0 DEF VerdictInv, InTest
<1> QED
  BY <1>2, <1>3, <1>4, <1>5, <1>6, <1>7, <1>8, <1>9, <1>10 DEF MemoryIInv

\* No step of the program, of the kernel or of the rest of the system takes the
\* invariant away.
LEMMA MemoryIInvKept == MemoryIInv /\ [MemoryNext]_memoryVars => MemoryIInv'
<1> SUFFICES ASSUME MemoryIInv, [MemoryNext]_memoryVars PROVE MemoryIInv'
  OBVIOUS
<1>0. /\ MemoryTypes /\ CallInv /\ SizesThere /\ PagesApart /\ EntriesInv
      /\ ContentsInv /\ FiledInv /\ ProgressInv /\ VerdictInv
  BY DEF MemoryIInv
<1>1. MemoryTypes'
  BY <1>0, MemoryTypesKept
<1>2. CallInv'
  BY <1>0, CallKept
<1>3. SizesThere'
  BY <1>0, <1>1, SizesKept
<1>4. PagesApart'
  BY <1>0, <1>1, ApartKept
<1>5. EntriesInv'
  BY <1>0, EntriesKept
<1>6. ContentsInv'
  BY <1>0, ContentsKept
<1>7. ProgressInv'
  BY <1>0, ProgressKept
<1>8. FiledInv'
  BY <1>0, FiledKept
<1>9. VerdictInv'
  BY <1>0, VerdictKept
<1> QED
  BY <1>1, <1>2, <1>3, <1>4, <1>5, <1>6, <1>7, <1>8, <1>9 DEF MemoryIInv

LEMMA MemoryAlways == MemorySpec => []MemoryIInv
  BY MemoryStarts, MemoryIInvKept, PTL DEF MemorySpec

\* The records of the driver are true in every state the invariant describes.
LEMMA RecordsTrue == MemoryIInv => BlocksInv
<1> SUFFICES ASSUME MemoryIInv PROVE BlocksInv
  OBVIOUS
<1>0. MemoryTypes /\ SizesThere /\ PagesApart /\ EntriesInv
  BY DEF MemoryIInv
<1>1. MemoryTypeOK
  <2>1. /\ free \subseteq Pages /\ others \subseteq Pages
        /\ lock \in [Zones -> BOOLEAN] /\ fails \in 0..MaxFails
        /\ step \in {"idle", "block", "allocate", "write", "read", "free", "signal", "signal high"}
        /\ block \in Blocks \cup {EFAULT} /\ j \in -1..MaxBlocks
        /\ call.i \in 0..ULong - 1 /\ call.count \in 0..ULong - 1
    BY Zenon, <1>0 DEF MemoryTypes, InTest
  <2>2. ASSUME NEW z \in Zones, NEW b \in Blocks
        PROVE  /\ allocated[z][b] \in 0..Cardinality(Pages)
               /\ \A k \in DOMAIN pages[z][b] : pages[z][b][k] \in Entry
    BY <1>0, BlockTyped
  <2> HIDE DEF Entry
  <2> QED
    BY Zenon, <2>1, <2>2 DEF MemoryTypeOK
<1>2. PagesOnce
  BY <1>0 DEF PagesApart
<1>3. SizeCovered
  <2>1. ASSUME NEW b \in Blocks
        PROVE  allocated[Low][b] <= Len(pages[Low][b]) /\ freeCnt(High, b) <= Len(pages[High][b])
    <3>1. High \in Zones /\ Len(pages[High][b]) \in Nat
      BY <1>0, BlockTyped, PageConstants
    <3>2. freeCnt(High, b) \in 0..Len(pages[High][b])
      BY <1>0, <3>1, FreedEntries
    <3> QED
      BY <1>0, <3>1, <3>2 DEF SizesThere
  <2> QED
    BY <2>1 DEF SizeCovered
<1>4. FilesMatchBlocks
  BY <1>0 DEF EntriesInv, FilesMatchBlocks
<1> QED
  BY <1>1, <1>2, <1>3, <1>4 DEF BlocksInv

\* The records the driver keeps of its blocks are true, for any number of pages, blocks
\* and tests: no page is in two blocks or in a block and given out again, a block
\* reports no more pages than it has, and it has files only while it has pages, all but
\* those that could not be created (proc_allocate_pages_write, allocate_pages and
\* let_my_pages_go of page_alloc.c).
THEOREM RecordsOfBlocksTrue == MemorySpec => []BlocksInv
  BY MemoryAlways, RecordsTrue, PTL

\* A test of memory without a fault does not fail, whatever allocations were cut short,
\* unless a block was left with one of its two files
\* (testMemory and the writing and reading of blocks).
THEOREM SoundMemoryPasses == MemorySpec => []NoFalseFailure
<1>1. MemoryIInv => NoFalseFailure
  BY DEF MemoryIInv, VerdictInv, NoFalseFailure
<1> QED
  BY <1>1, MemoryAlways, PTL

\* A faulty page of any block but the last that has its file for reading is reported when
\* the test ends (testMemory).
THEOREM FaultsAreReported == MemorySpec => []FaultReported
<1>1. MemoryIInv => FaultReported
  <2> SUFFICES ASSUME MemoryIInv, step = "free", clean, NEW b \in Blocks, nomem \/ b # block,
                      TestedPages(b) \cap faulty # {}
               PROVE  failed
    BY DEF FaultReported
  <2> QED
    BY DEF MemoryIInv, VerdictInv, InTest
<1> QED
  BY <1>1, MemoryAlways, PTL

\* When a test ends, by itself or by a signal, the blocks it had are given back
\* (testMemory and handle_signals).
THEOREM TestedBlocksGivenBack == MemorySpec => BlocksGivenBack
<1> DEFINE AfterSignal == step \in {"signal", "signal high"} /\ step' = "idle"
                            => allocated' = NoBlocks
           AfterTest == step = "free" /\ step' = "idle" /\ clean /\ ~nomem
                          => allocated'[zone] = NoBlocks[zone]
<1>1. MemoryIInv /\ [MemoryNext]_memoryVars => [AfterSignal]_memoryVars /\ [AfterTest]_memoryVars
  <2> SUFFICES ASSUME MemoryIInv, [MemoryNext]_memoryVars, step' = "idle", step # "idle"
               PROVE  AfterSignal /\ AfterTest
    BY Zenon DEF memoryVars, memtest
  <2>0. MemoryTypes /\ SizesThere /\ ProgressInv /\ CallInv /\ zone \in Zones /\ Low \in Zones /\ High \in Zones
    BY Zenon, PageConstants DEF MemoryIInv, MemoryTypes
  <2>1. FreeMemory \/ HandleSignal
    <3>1. CASE UNCHANGED memoryVars \/ OthersTake \/ OthersReturn \/ LoadDriver
      BY <3>1 DEF memoryVars, memtest, OthersTake, OthersReturn, LoadDriver
    <3>2. CASE TestMemory
      BY <3>2 DEF TestMemory
    <3>3. CASE NextBlock
      BY <3>3, Requested
    <3>4. CASE NoMemory \/ Allocated \/ WriteBlock \/ ReadBlock \/ Signal
      BY <3>4 DEF NoMemory, Allocated, WriteBlock, ReadBlock, Signal
    <3>5. CASE Allocating
      BY <3>5 DEF Allocating, memtest
    <3> QED
      BY <3>1, <3>2, <3>3, <3>4, <3>5 DEF MemoryNext, ProgramStep
  <2>2. CASE FreeMemory
    <3>1. PICK garbage : let_my_pages_go(zone, {b \in Blocks : b < j} \cup garbage)
      BY <2>2 DEF FreeMemory
    <3>2. step = "free"
      BY <2>2 DEF FreeMemory
    <3>3. ASSUME clean, ~nomem PROVE allocated'[zone] = NoBlocks[zone]
      <4>1. allocated' = [y \in Zones |-> [b \in Blocks |->
                            IF y = zone /\ b \in {c \in Blocks : c < j} \cup garbage /\ allocated[y][b] > 0
                            THEN 0 ELSE allocated[y][b]]]
        BY <2>0, <3>1, LetGo
      <4>2. \A b \in Blocks : allocated[zone][b] > 0 => b < j
        BY <2>0, <3>2, <3>3 DEF ProgressInv
      <4>3. \A b \in Blocks : ~(allocated[zone][b] > 0) => allocated[zone][b] = 0
        <5>1. \A b \in Blocks : allocated[zone][b] \in Nat
          BY <2>0, BlockTyped
        <5> QED
          BY <5>1
      <4>4. allocated'[zone] = [b \in Blocks |->
              IF b \in {c \in Blocks : c < j} \cup garbage /\ allocated[zone][b] > 0
              THEN 0 ELSE allocated[zone][b]]
        BY <2>0, <4>1
      <4>5. \A b \in Blocks : (IF b \in {c \in Blocks : c < j} \cup garbage /\ allocated[zone][b] > 0
                               THEN 0 ELSE allocated[zone][b]) = 0
        BY <4>2, <4>3
      <4>6. NoBlocks[zone] = [b \in Blocks |-> 0]
        BY <2>0 DEF NoBlocks
      <4> QED
        BY <4>4, <4>5, <4>6
    <3> QED
      BY <3>2, <3>3
  <2>3. CASE HandleSignal
    <3>1. step = "signal high" /\ let_my_pages_go(High, Blocks)
      BY Zenon, <2>3 DEF HandleSignal
    <3>2. \A b \in Blocks : allocated[Low][b] = 0
      BY Zenon, <2>0, <3>1 DEF ProgressInv
    <3>3. ASSUME NEW b \in Blocks PROVE allocated'[High][b] = 0
      <4>1. allocated'[High][b] = IF allocated[High][b] > 0 THEN 0 ELSE allocated[High][b]
        BY <2>0, <3>1, LetGoEach
      <4>2. allocated[High][b] \in Nat
        BY <2>0, BlockTyped
      <4> QED
        BY <4>1, <4>2
    <3>4. ASSUME NEW b \in Blocks PROVE allocated'[Low][b] = 0
      <4>1. allocated'[Low][b] = allocated[Low][b]
        <5>1. Low # High
          BY PageConstants
        <5> QED
          BY <2>0, <3>1, <5>1, LetGoEach
      <4> QED
        BY <3>2, <4>1
    <3>5. allocated' = NoBlocks
      <4>1. allocated' \in [Zones -> [Blocks -> 0..Cardinality(Pages)]]
        BY <2>0, MemoryTypesKept DEF MemoryTypes
      <4>2. \A y \in Zones, b \in Blocks : allocated'[y][b] = 0
        BY <3>3, <3>4, PageConstants
      <4> QED
        BY <4>1, <4>2 DEF NoBlocks
    <3> QED
      BY Zenon, <3>1, <3>5
  <2> QED
    BY Zenon, <2>1, <2>2, <2>3
<1>2. MemorySpec => [][AfterSignal]_memoryVars /\ [][AfterTest]_memoryVars
  BY <1>1, MemoryAlways, PTL DEF MemorySpec
<1> QED
  BY <1>2 DEF BlocksGivenBack, SignalFreesAll, TestFreesItsBlocks

===============================================================================
