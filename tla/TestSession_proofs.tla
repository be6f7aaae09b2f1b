--------------------------- MODULE TestSession_proofs ---------------------------
(***************************************************************************)
(* Proofs that no stored line of test data is lost by a crash or restart   *)
(* between two statements, that a functional test which ends reports what  *)
(* it stored, that printouts are final, and that a session which takes up  *)
(* an earlier one leaves no test out: for any attempts and tests, and any  *)
(* number of sessions, failures and lines.                                 *)
(***************************************************************************)
EXTENDS TestSession, FiniteSetTheorems, SequenceTheorems, WellFoundedInduction, TLAPS

\* The kinds of rows and statements.
Row == [planned : BOOLEAN, sequence : Int, line : Line, attempt : Int]
Record == [number : Nat, version : Int, lines : Seq(Line), executions : Nat]
Statement ==
  [op : {"clear", "clearInfo"}] \cup [op : {"insert"}, row : Row]
  \cup [op : {"insertInfo", "clearMacs", "insertMac"}, version : Int]
  \cup [op : {"print", "append"}, number : Nat, version : Int, line : Line]
  \cup [op : {"execution"}, number : Nat, version : Int]
Memory ==
  [attempt : Int, sequence : Int, functional : BOOLEAN, numTests : Nat, cache : Seq(Nat),
   next : Nat, current : Int, testData : Seq(Line), diagData : Seq(Line), executions : Nat]

Places ==
  {"off", "info", "unplanned", "printed", "attempt", "tests", "restore", "burn", "burning", "stored",
   "choose", "run", "testing", "waiting", "print", "number", "remove", "done"}
AllTypes ==
  /\ at \in Places /\ output \in Seq(Line \cup {Restart}) /\ seen \in Seen
  /\ s \in Memory /\ s.sequence >= -1
  /\ temp \in Seq(Row) /\ history \in Seq(Record) /\ script \in Seq(Statement)

\* Which script a function has: statements about the board, the lines to be stored behind
\* the deletion, or a printout.
InfoOps == {"clearInfo", "insertInfo", "clearMacs", "insertMac"}
OfInfo(q) == \A k \in DOMAIN q : q[k].op \in InfoOps
OfStore(q) ==
  /\ q # <<>> => q[1].op \in {"clear", "insert"}
  /\ \A k \in DOMAIN q : k > 1 => q[k].op = "insert"
PrintOps == {"print", "append", "execution"}
OfPrint(q) ==
  \A k \in DOMAIN q :
    /\ q[k].op \in PrintOps /\ (k > 1 => q[k].op # "print")
    /\ q[k].number = q[1].number /\ q[k].version = q[1].version
    /\ q[k].op = "execution" => \A j \in DOMAIN q : j > k => q[j].op = "execution"
OfLast ==
  script # <<>> =>
    IF script[1].op = "print" THEN script[1].number = Len(history) + 1
    ELSE /\ history # <<>> /\ script[1].number = Len(history)
         /\ script[1].version = history[Len(history)].version

Fits(pc, q) ==
  /\ pc \in {"info", "unplanned", "number"} => OfInfo(q)
  /\ pc \in {"stored", "run", "waiting"} => OfStore(q)
  /\ pc \in {"printed", "remove"} => OfPrint(q)
  /\ pc = "done" => q \in {<<>>, <<Clear>>}
  /\ pc \in {"off", "attempt", "tests", "restore", "burn", "burning", "choose", "testing", "print"} => q = <<>>
ScriptFits == Fits(at, script) /\ (at \in {"printed", "remove"} => OfLast)

\* Printouts are numbered from 1 on.
Numbered == \A k \in DOMAIN history : history[k].number = k

\* There is something to print.
LinesToPrint ==
  /\ at = "unplanned" => Kept(FALSE) # <<>>
  /\ at = "number" => s.testData # <<>>

PrintIInv == AllTypes /\ ScriptFits /\ Numbered /\ LinesToPrint

\* What a printout that is being made will have.
PrintedBy(q) == {x.line : x \in {y \in Range(q) : y.op \in {"print", "append"}}}
ToPrint == PrintedBy(script)

\* The executions that statements count come last.
CountsTo(q, total) ==
  \E m \in 0..Len(q) :
    /\ \A k \in DOMAIN q : q[k].op = "execution" <=> k > m
    /\ total = Len(q) - m

\* The lines that statements store.
InsertedBy(q) == {x.row.line : x \in {y \in Range(q) : y.op = "insert"}}

\* Lines of test data that were stored, in the table, or are about to be put back.
StoredSafe ==
  \A l \in seen.stored : l.kind = "test" =>
    l \in InTemp \cup Printed \cup (IF Rewriting THEN InFlight ELSE {})

\* While there is a session, the table has no line of test data that its memory has not.
Having == {"burn", "burning", "stored", "choose", "run", "testing", "waiting", "print", "number"}
MemoryHasAll ==
  /\ at \in Having =>
       /\ (at \notin {"burn", "burning"} \/ s.numTests # 0) =>
            \A l \in InTemp : l.kind = "test" => l \in Range(s.testData) \cup Printed
       /\ \A l \in Range(s.diagData) : l.kind = "test" => l \in Range(s.testData)
       /\ \A l \in InFlight : l.kind = "test" => l \in Range(s.testData)

\* Before the lines are deleted, what is not printed is about to be put back.
DeletionSafe ==
  script # <<>> /\ script[1] = Clear =>
    \A l \in InTemp : l.kind = "test" => l \in InFlight \cup Printed

\* Lines that an earlier session kept for no restart are printed before its attempt is
\* looked at, and when the attempt is known, the lines that were kept for a restart
\* are those of a sequence that goes on.
UnplannedPrinted ==
  at \in {"printed", "attempt", "tests", "restore"} =>
    \A k \in DOMAIN temp : ~temp[k].planned => temp[k].line \in Printed \cup ToPrint
SequenceKnown ==
  at \in {"tests", "restore", "burn"} =>
    \/ s.sequence >= 0
    \/ Kept(TRUE) = <<>>
    \/ ~s.functional /\ s.attempt = 0 /\ s.numTests = 0
FreshAttempt ==
  at \in {"info", "unplanned", "printed", "attempt"} =>
    /\ s.sequence = -1 /\ ~s.functional /\ s.numTests = 0
    /\ at \in {"info", "attempt"} => s.attempt = 0

\* All of the table is printed before it is cleared at the end.
AllPrinted ==
  at = "remove" => \A l \in InTemp : l.kind = "test" => l \in Printed \cup ToPrint

Safe ==
  StoredSafe /\ MemoryHasAll /\ DeletionSafe /\ UnplannedPrinted /\ SequenceKnown /\ AllPrinted

\* Nothing is sent before a test runs, and in a burn-in none runs when there are none.
Early == {"off", "info", "unplanned", "printed", "attempt", "tests", "restore", "burn"}
Quiet ==
  /\ at \in Early => output = <<>>
  /\ at = "burning" /\ s.numTests = 0 => s.cache = <<>> /\ output = <<>>

StoredIInv ==
  /\ FreshAttempt
  /\ Quiet
  /\ ~seen.lossy => Safe

\* Main is in a burn-in test only when one was chosen, and counts the tests of a functional
\* test as they end.
Counted ==
  /\ at \in {"burn", "burning"} => ~s.functional
  /\ at = "testing" => s.next = s.executions + 1
  /\ at \notin {"testing", "waiting"} => s.next = s.executions
  /\ at \in {"print", "number", "remove"} => s.next = Len(s.cache)

\* The lines that the listener has handled; one that is still on its way to it is new, and
\* comes once.
Handled == seen.stored \cup InTemp \cup InFlight \cup Range(s.testData) \cup Range(s.diagData)
Made(l) == l.id <= seen.made[l.kind]
LinesNew ==
  /\ \A l \in Handled : Made(l)
  /\ \A k \in DOMAIN output : output[k] # Restart => Made(output[k]) /\ output[k] \notin Handled
  /\ \A j, k \in DOMAIN output : j < k /\ output[j] # Restart => output[j] # output[k]

\* What the printout has so far, when it has been begun.
Begins == script # <<>> /\ script[1].op = "print"
LinesSoFar == IF Begins \/ history = <<>> THEN {} ELSE Range(history[Len(history)].lines)
TestsSoFar == IF Begins \/ history = <<>> THEN 0 ELSE history[Len(history)].executions

\* After a functional test has run to its end, what has been printed and what the script
\* will print has every stored line the listener had, and counts all the tests.
Finishing == at \in {"remove", "done"} /\ s.functional /\ seen.fails = 0 /\ Len(s.cache) >= s.numTests
StoredHere == seen.stored \cap Range(s.testData)
Reported ==
  /\ StoredHere \subseteq LinesSoFar \cup ToPrint
  /\ StoredHere # {} =>
       /\ Begins \/ history # <<>>
       /\ CountsTo(script, Len(s.cache) - TestsSoFar)
  /\ at = "done" /\ script = <<>> => temp = <<>>

FinishedIInv == Counted /\ LinesNew /\ (Finishing => Reported)

\* Rows that are stored and rows that the script will store.
RowsBy(q) == {x.row : x \in {y \in Range(q) : y.op = "insert"}}
InScript == RowsBy(script)
Clearing == script # <<>> /\ script[1].op = "clear"

\* The tests of the attempt of a chain up to a sequence have run in it.
RanUpTo(chain, sequence) ==
  \A n \in 0..sequence : HasTest(chain.attempt, n) => n \in chain.ran
GoesOn(attempt, sequence, chain) ==
  /\ attempt <= chain.attempt
  /\ attempt = chain.attempt => RanUpTo(chain, sequence)

\* Where main is in a functional test and in a burn-in test, and how far.
Functional == {"stored", "choose", "run", "testing", "print", "number", "remove"}
Finished == at \in {"print", "number", "remove"} \/ (at = "done" /\ s.functional)
PlacesRight ==
  /\ at \in Functional => s.functional
  /\ at \in {"burn", "burning"} => ~s.functional
  /\ at = "burning" => ~seen.chain.functional
  /\ at \in {"info", "unplanned", "printed", "attempt", "tests", "restore", "stored", "choose"} => s.next = 0
  /\ at = "testing" => s.current = s.next - 1
  /\ Finished => s.next = Len(s.cache)
  /\ at \in {"restore", "stored"} => s.numTests = NumberOfTests(s.attempt)

\* The rows for a restart are of the sessions whose chain was saved; rows that a function
\* stores for no restart replace them.  All rows of the table are of one kind.
RowsRight ==
  /\ \A p, r \in Range(temp) : p.planned = r.planned
  /\ \A p, r \in InScript : p.planned = r.planned
  /\ ~Clearing => \A p \in Range(temp), r \in InScript : p.planned = r.planned
  /\ seen.saved.functional =>
       \A r \in Range(temp) \cup InScript : r.planned => GoesOn(r.attempt, r.sequence, seen.saved)
  /\ at \in {"stored", "choose", "run", "testing"} =>
       /\ \A r \in InScript : ~r.planned
       /\ ~Clearing => \A r \in Range(temp) : ~r.planned

\* A session begins where its chain has got to.
BeforeChoice == {"off", "info", "unplanned", "printed", "attempt"}
ChainRight ==
  at \notin BeforeChoice /\ seen.chain.functional => GoesOn(s.attempt, s.sequence, seen.chain)

\* It has all tests from there on, and runs them in their order.
Cached == {"choose", "run", "testing", "waiting", "print", "number", "remove", "done"}
CacheRight ==
  at \in Cached /\ s.functional =>
    /\ \A n \in Nat : s.sequence < n /\ HasTest(s.attempt, n) => \E j \in DOMAIN s.cache : s.cache[j] = n
    /\ \A j \in DOMAIN s.cache : s.sequence + j <= s.cache[j]
    /\ \A j \in 1..s.next : s.cache[j] \in seen.chain.ran

Unskipped == PlacesRight /\ RowsRight /\ ChainRight /\ CacheRight
SkippedIInv == seen.fails = 0 => Unskipped

-------------------------------------------------------------------------------
\* A set of numbers that is not empty has a least one.
LEMMA LeastNatural ==
  ASSUME NEW S, S \subseteq Nat, S # {}
  PROVE  \E m \in S : \A k \in S : m <= k
<1>1. PICK m \in S : \A k \in S : ~(<<k, m>> \in OpToRel(<, Nat))
  BY WFMin, NatLessThanWellFounded, Zenon
<1>2. \A k \in S : ~(k < m)
  BY <1>1 DEF OpToRel
<1>. QED
  BY <1>2

\* A finite set of integers that is not empty has a greatest one: the one with the fewest
\* above it.
LEMMA Greatest ==
  ASSUME NEW S, IsFiniteSet(S), S \subseteq Int, S # {}
  PROVE  Max(S) \in S /\ \A y \in S : y <= Max(S)
<1>. DEFINE Above(x) == {y \in S : y > x}
<1>1. \A x \in S : IsFiniteSet(Above(x)) /\ Cardinality(Above(x)) \in Nat
  BY FS_Subset, FS_CardinalityType
<1>2. PICK n \in {Cardinality(Above(x)) : x \in S} : \A m \in {Cardinality(Above(x)) : x \in S} : n <= m
  <2>1. {Cardinality(Above(x)) : x \in S} \subseteq Nat /\ {Cardinality(Above(x)) : x \in S} # {}
    BY <1>1
  <2>. HIDE DEF Above
  <2>. QED
    BY <2>1, LeastNatural
<1>3. PICK x \in S : n = Cardinality(Above(x))
  OBVIOUS
<1>4. ASSUME NEW y \in S, y > x PROVE FALSE
  <2>0. x \in Int /\ y \in Int
    OBVIOUS
  <2>1. Above(y) \subseteq Above(x) /\ y \in Above(x) /\ y \notin Above(y)
    <3>1. \A z \in S : z \in Int /\ (z > y => z > x)
      BY <1>4, <2>0
    <3>2. Above(y) \subseteq Above(x)
      BY <3>1
    <3>3. y \in Above(x) /\ ~(y > y)
      BY <1>4, <2>0
    <3>. QED
      BY <3>2, <3>3
  <2>5. Cardinality(Above(x)) \in Nat /\ Cardinality(Above(y)) \in Nat
    BY <1>1, Zenon
  <2>. HIDE DEF Above
  <2>2. Cardinality(Above(y)) <= Cardinality(Above(x)) /\ Cardinality(Above(x)) # Cardinality(Above(y))
    BY <1>1, <2>1, FS_Subset
  <2>3. Cardinality(Above(x)) <= Cardinality(Above(y))
    BY <1>2, <1>3
  <2>. QED
    BY <2>5, <2>2, <2>3
<1>5. \A y \in S : y <= x
  BY <1>4
<1>. QED
  BY <1>5 DEF Max

\* The places chosen are all used, once each, in their order.
LEMMA AtPlacesUsesAll ==
  ASSUME NEW S, NEW q \in Seq(S), NEW K \in SUBSET DOMAIN q
  PROVE  /\ AtPlaces(q, K) \in Seq(S) /\ Len(AtPlaces(q, K)) = Cardinality(K)
         /\ Cardinality(K) \in Nat /\ DOMAIN AtPlaces(q, K) = 1..Cardinality(K)
         /\ \A i \in 1..Cardinality(K) : \E k \in K : AtPlaces(q, K)[i] = q[k]
         /\ \A k \in K : \E i \in 1..Cardinality(K) : AtPlaces(q, K)[i] = q[k]
         /\ \A i \in 1..Cardinality(K) : \E k \in K : AtPlaces(q, K)[i] = q[k] /\ i <= k
<1>. DEFINE Upto(k) == {j \in K : j <= k}
            n == Cardinality(K)
            rank == [k \in K |-> Cardinality(Upto(k))]
<1>1. Len(q) \in Nat /\ DOMAIN q = 1..Len(q) /\ K \subseteq Nat
  OBVIOUS
<1>2. IsFiniteSet(K) /\ n \in Nat
  <2>1. IsFiniteSet(1..Len(q))
    BY <1>1, FS_Interval
  <2>. QED
    BY <1>1, <2>1, FS_Subset, FS_CardinalityType
<1>3. \A k \in K : IsFiniteSet(Upto(k)) /\ Cardinality(Upto(k)) \in 1..n
  <2>. SUFFICES ASSUME NEW k \in K PROVE IsFiniteSet(Upto(k)) /\ Cardinality(Upto(k)) \in 1..n
    OBVIOUS
  <2>1. Upto(k) \in SUBSET K /\ k \in Upto(k)
    BY <1>1
  <2>2. IsFiniteSet(Upto(k)) /\ Cardinality(Upto(k)) <= n /\ Cardinality(Upto(k)) \in Nat
    BY <1>2, <2>1, FS_Subset, FS_CardinalityType
  <2>3. Cardinality(Upto(k)) # 0
    BY <2>1, <2>2, FS_EmptySet
  <2>. QED
    BY <1>2, <2>2, <2>3
<1>4. ASSUME NEW j \in K, NEW k \in K, j < k PROVE Cardinality(Upto(j)) < Cardinality(Upto(k))
  <2>1. Upto(j) \in SUBSET Upto(k) /\ k \in Upto(k) /\ k \notin Upto(j)
    BY <1>1, <1>4
  <2>2. Cardinality(Upto(j)) <= Cardinality(Upto(k)) /\ Cardinality(Upto(j)) # Cardinality(Upto(k))
    BY <1>3, <2>1, FS_Subset
  <2>3. Cardinality(Upto(j)) \in 1..n /\ Cardinality(Upto(k)) \in 1..n
    BY <1>3, Zenon
  <2>. HIDE DEF Upto
  <2>. QED
    BY <1>2, <2>2, <2>3
<1>5. \A j, k \in K : Cardinality(Upto(j)) = Cardinality(Upto(k)) => j = k
  <2>. SUFFICES ASSUME NEW j \in K, NEW k \in K, Cardinality(Upto(j)) = Cardinality(Upto(k)), j # k
                PROVE  FALSE
    OBVIOUS
  <2>1. j < k \/ k < j
    BY <1>1
  <2>2. Cardinality(Upto(j)) \in 1..n /\ Cardinality(Upto(k)) \in 1..n
    BY <1>3, Zenon
  <2>3. j < k => Cardinality(Upto(j)) < Cardinality(Upto(k))
    BY <1>4, Zenon
  <2>4. k < j => Cardinality(Upto(k)) < Cardinality(Upto(j))
    BY <1>4, Zenon
  <2>. HIDE DEF Upto, n
  <2>. QED
    BY <1>2, <2>1, <2>2, <2>3, <2>4 DEF n
<1>6. rank \in Injection(K, 1..n)
  BY <1>3, <1>5 DEF Injection, IsInjective
<1>7. \A i \in 1..n : \E k \in K : Cardinality(Upto(k)) = i
  <2>1. IsFiniteSet(1..n) /\ Cardinality(1..n) = n
    <3>0. n \in Nat /\ n \in Int /\ 1 \in Int
      BY <1>2
    <3>. HIDE DEF n
    <3>1. IsFiniteSet(1..n) /\ Cardinality(1..n) = IF 1 > n THEN 0 ELSE n - 1 + 1
      BY <3>0, FS_Interval
    <3>. QED
      BY <3>0, <3>1
  <2>2. rank \in Surjection(K, 1..n)
    <3>. HIDE DEF rank, n
    <3>. QED
      BY <1>6, <2>1, FS_Injection DEF n
  <2>. QED
    BY <2>2 DEF Surjection
<1>. DEFINE place(i) == CHOOSE k \in K : Cardinality(Upto(k)) = i
<1>8. \A i \in 1..n : place(i) \in K /\ Cardinality(Upto(place(i))) = i
  BY <1>7
<1>9. \A k \in K : place(Cardinality(Upto(k))) = k
  BY <1>3, <1>5, <1>8
<1>10. AtPlaces(q, K) = [i \in 1..n |-> q[place(i)]]
  BY DEF AtPlaces
<1>11. \A i \in 1..n : q[place(i)] \in S
  <2>1. \A k \in K : q[k] \in S
    BY <1>1
  <2>. HIDE DEF place, n
  <2>. QED
    BY <1>8, <2>1
<1>12. AtPlaces(q, K) \in Seq(S) /\ Len(AtPlaces(q, K)) = n /\ DOMAIN AtPlaces(q, K) = 1..n
  <2>. HIDE DEF place, n
  <2>. QED
    BY <1>2, <1>10, <1>11 DEF n
<1>13. \A i \in 1..n : \E k \in K : AtPlaces(q, K)[i] = q[k]
  BY <1>8, <1>10
<1>14. \A k \in K : \E i \in 1..n : AtPlaces(q, K)[i] = q[k]
  <2>. SUFFICES ASSUME NEW k \in K PROVE AtPlaces(q, K)[Cardinality(Upto(k))] = q[k]
    BY <1>3
  <2>. QED
    BY <1>3, <1>9, <1>10
<1>15. \A k \in K : Cardinality(Upto(k)) <= k
  <2>. SUFFICES ASSUME NEW k \in K PROVE Cardinality(Upto(k)) <= k
    OBVIOUS
  <2>1. k \in Nat /\ k >= 1 /\ Upto(k) \in SUBSET (1..k)
    BY <1>1
  <2>2. IsFiniteSet(1..k) /\ Cardinality(1..k) = k
    <3>1. IsFiniteSet(1..k) /\ Cardinality(1..k) = IF 1 > k THEN 0 ELSE k - 1 + 1
      BY <2>1, FS_Interval
    <3>. QED
      BY <2>1, <3>1
  <2>. QED
    BY <2>1, <2>2, FS_Subset
<1>16. \A i \in 1..n : \E k \in K : AtPlaces(q, K)[i] = q[k] /\ i <= k
  <2>. SUFFICES ASSUME NEW i \in 1..n PROVE \E k \in K : AtPlaces(q, K)[i] = q[k] /\ i <= k
    OBVIOUS
  <2>1. place(i) \in K /\ Cardinality(Upto(place(i))) = i /\ AtPlaces(q, K)[i] = q[place(i)]
    BY <1>8, <1>10
  <2>2. Cardinality(Upto(place(i))) <= place(i)
    BY <1>15, <2>1, Zenon
  <2>. HIDE DEF place, Upto
  <2>. QED
    BY <2>1, <2>2
<1>. QED
  BY <1>2, <1>12, <1>13, <1>14, <1>16

-------------------------------------------------------------------------------
\* Sequences.
LEMMA TailParts ==
  ASSUME NEW S, NEW q \in Seq(S), q # <<>>
  PROVE  /\ Tail(q) \in Seq(S) /\ Len(q) \in Nat \ {0} /\ DOMAIN q = 1..Len(q)
         /\ DOMAIN Tail(q) = 1..(Len(q) - 1) /\ Head(q) = q[1] /\ q[1] \in S
         /\ Len(Tail(q)) = Len(q) - 1
         /\ \A k \in 1..(Len(q) - 1) : Tail(q)[k] = q[k + 1]
OBVIOUS

\* What a sequence has is its first element and what the rest has.
LEMMA TailRange ==
  ASSUME NEW S, NEW q \in Seq(S), q # <<>>
  PROVE  Range(q) = {q[1]} \cup Range(Tail(q))
<1>1. /\ Len(q) \in Nat \ {0} /\ DOMAIN q = 1..Len(q) /\ DOMAIN Tail(q) = 1..(Len(q) - 1)
      /\ \A k \in 1..(Len(q) - 1) : Tail(q)[k] = q[k + 1]
  BY TailParts
<1>. DEFINE r == Tail(q)
<1>2. Range(q) = {q[k] : k \in 1..Len(q)} /\ Range(r) = {r[k] : k \in 1..(Len(q) - 1)}
  BY <1>1 DEF Range
<1>. HIDE DEF r
<1>3. \A k \in 1..Len(q) : k = 1 \/ (k - 1 \in 1..(Len(q) - 1) /\ q[k] = r[k - 1])
  BY <1>1 DEF r
<1>4. \A k \in 1..(Len(q) - 1) : k + 1 \in 1..Len(q) /\ r[k] = q[k + 1]
  BY <1>1 DEF r
<1>5. 1 \in 1..Len(q)
  BY <1>1
<1>6. Range(q) \subseteq {q[1]} \cup Range(r)
  BY <1>2, <1>3
<1>7. {q[1]} \cup Range(r) \subseteq Range(q)
  BY <1>2, <1>4, <1>5
<1>. QED
  BY <1>6, <1>7 DEF r

\* A sequence with one element more.
LEMMA AppendParts ==
  ASSUME NEW S, NEW q \in Seq(S), NEW x \in S
  PROVE  /\ Append(q, x) \in Seq(S) /\ Len(Append(q, x)) = Len(q) + 1 /\ Len(q) \in Nat
         /\ DOMAIN q = 1..Len(q) /\ DOMAIN Append(q, x) = 1..(Len(q) + 1)
         /\ \A k \in 1..Len(q) : Append(q, x)[k] = q[k]
         /\ Append(q, x)[Len(q) + 1] = x
         /\ Range(Append(q, x)) = Range(q) \cup {x} /\ Append(q, x) # <<>>
<1>1. /\ Append(q, x) \in Seq(S) /\ Len(Append(q, x)) = Len(q) + 1 /\ Len(q) \in Nat
      /\ DOMAIN q = 1..Len(q) /\ DOMAIN Append(q, x) = 1..(Len(q) + 1)
      /\ \A k \in 1..Len(q) : Append(q, x)[k] = q[k]
      /\ Append(q, x)[Len(q) + 1] = x
  OBVIOUS
<1>2. Range(Append(q, x)) = Range(q) \cup {x}
  <2>1. Range(q) = {q[k] : k \in 1..Len(q)}
        /\ Range(Append(q, x)) = {Append(q, x)[k] : k \in 1..(Len(q) + 1)}
    BY <1>1 DEF Range
  <2>2. \A k \in 1..(Len(q) + 1) : k \in 1..Len(q) \/ k = Len(q) + 1
    BY <1>1
  <2>3. Len(q) + 1 \in 1..(Len(q) + 1) /\ 1..Len(q) \subseteq 1..(Len(q) + 1)
    BY <1>1
  <2>. HIDE DEF Range
  <2>. QED
    BY <1>1, <2>1, <2>2, <2>3
<1>. QED
  BY <1>1, <1>2

\* The empty sequence.
LEMMA EmptyParts ==
  ASSUME NEW S
  PROVE  <<>> \in Seq(S) /\ DOMAIN <<>> = {} /\ Range(<<>>) = {} /\ Len(<<>>) = 0
<1>1. <<>> \in Seq(S) /\ DOMAIN <<>> = {} /\ Len(<<>>) = 0
  OBVIOUS
<1>2. Range(<<>>) = {}
  BY <1>1 DEF Range
<1>. QED
  BY <1>1, <1>2

\* Two sequences, one behind the other.
LEMMA ConcatParts ==
  ASSUME NEW S, NEW p \in Seq(S), NEW q \in Seq(S)
  PROVE  /\ p \o q \in Seq(S) /\ Len(p) \in Nat /\ Len(q) \in Nat /\ Len(p \o q) = Len(p) + Len(q)
         /\ DOMAIN p = 1..Len(p) /\ DOMAIN q = 1..Len(q) /\ DOMAIN (p \o q) = 1..(Len(p) + Len(q))
         /\ \A k \in 1..Len(p) : (p \o q)[k] = p[k]
         /\ \A k \in 1..(Len(p) + Len(q)) : k > Len(p) => k - Len(p) \in 1..Len(q) /\ (p \o q)[k] = q[k - Len(p)]
         /\ Range(p \o q) = Range(p) \cup Range(q)
<1>1. /\ p \o q \in Seq(S) /\ Len(p) \in Nat /\ Len(q) \in Nat /\ Len(p \o q) = Len(p) + Len(q)
      /\ DOMAIN p = 1..Len(p) /\ DOMAIN q = 1..Len(q) /\ DOMAIN (p \o q) = 1..(Len(p) + Len(q))
  OBVIOUS
<1>2. \A k \in 1..Len(p) : (p \o q)[k] = p[k]
  OBVIOUS
<1>3. \A k \in 1..(Len(p) + Len(q)) : k > Len(p) => k - Len(p) \in 1..Len(q) /\ (p \o q)[k] = q[k - Len(p)]
  OBVIOUS
<1>. DEFINE r == p \o q
<1>4. Range(r) = {r[k] : k \in 1..(Len(p) + Len(q))} /\ Range(p) = {p[k] : k \in 1..Len(p)}
      /\ Range(q) = {q[k] : k \in 1..Len(q)}
  BY <1>1 DEF Range
<1>. HIDE DEF r
<1>5. \A k \in 1..(Len(p) + Len(q)) : r[k] \in Range(p) \cup Range(q)
  <2>. SUFFICES ASSUME NEW k \in 1..(Len(p) + Len(q)) PROVE r[k] \in Range(p) \cup Range(q)
    OBVIOUS
  <2>1. CASE k > Len(p)
    BY <1>3, <1>4, <2>1 DEF r
  <2>2. CASE k \in 1..Len(p)
    BY <1>2, <1>4, <2>2 DEF r
  <2>. QED
    BY <1>1, <2>1, <2>2
<1>6. \A k \in 1..Len(p) : k \in 1..(Len(p) + Len(q)) /\ r[k] = p[k]
  BY <1>1, <1>2 DEF r
<1>7. \A k \in 1..Len(q) : k + Len(p) \in 1..(Len(p) + Len(q)) /\ r[k + Len(p)] = q[k]
  <2>. SUFFICES ASSUME NEW k \in 1..Len(q)
                PROVE  k + Len(p) \in 1..(Len(p) + Len(q)) /\ r[k + Len(p)] = q[k]
    OBVIOUS
  <2>1. k + Len(p) \in 1..(Len(p) + Len(q)) /\ k + Len(p) > Len(p) /\ (k + Len(p)) - Len(p) = k
    BY <1>1
  <2>. QED
    BY <1>3, <2>1 DEF r
<1>8. Range(r) = Range(p) \cup Range(q)
  BY <1>4, <1>5, <1>6, <1>7
<1>. QED
  BY <1>1, <1>2, <1>3, <1>8 DEF r

\* The rows of one kind, and their lines.
LEMMA KeptRows ==
  ASSUME temp \in Seq(Row), NEW planned \in BOOLEAN
  PROVE  /\ Kept(planned) \in Seq(Row) /\ TestData(planned) \in Seq(Line)
         /\ \A i \in DOMAIN Kept(planned) : \E k \in DOMAIN temp :
              Kept(planned)[i] = temp[k] /\ temp[k].planned = planned
         /\ \A k \in DOMAIN temp : temp[k].planned = planned => Kept(planned) # <<>>
         /\ Kept(planned) # <<>> => TestData(planned) # <<>> /\ Kept(planned)[1] \in Row
         /\ \A k \in DOMAIN temp : temp[k].planned = planned => temp[k].line \in Range(TestData(planned))
         /\ \A l \in Range(TestData(planned)) : \E k \in DOMAIN temp :
              temp[k].planned = planned /\ l = temp[k].line
<1>. DEFINE K == {k \in DOMAIN temp : temp[k].planned = planned}
            c == Cardinality(K)
            q == Kept(planned)
<1>0. K \in SUBSET DOMAIN temp /\ q = AtPlaces(temp, K)
  BY DEF Kept
<1>1. /\ q \in Seq(Row) /\ Len(q) = c /\ c \in Nat /\ DOMAIN q = 1..c
      /\ \A i \in 1..c : \E k \in K : q[i] = temp[k]
      /\ \A k \in K : \E i \in 1..c : q[i] = temp[k]
  <2>. HIDE DEF K, q
  <2>. QED
    BY <1>0, AtPlacesUsesAll
<1>2. \A i \in 1..c : q[i] \in Row /\ q[i].line \in Line
  <2>. HIDE DEF q, c
  <2>1. \A i \in 1..c : q[i] \in Row
    BY <1>1
  <2>. QED
    BY <2>1 DEF Row
<1>3. TestData(planned) = [i \in 1..c |-> q[i].line]
  BY <1>1 DEF TestData
<1>4. TestData(planned) \in Seq(Line) /\ DOMAIN TestData(planned) = 1..c
      /\ Len(TestData(planned)) = c
  <2>. HIDE DEF q, c
  <2>. QED
    BY <1>1, <1>2, <1>3
<1>5. \A i \in DOMAIN q : \E k \in DOMAIN temp : q[i] = temp[k] /\ temp[k].planned = planned
  <2>. HIDE DEF q, c
  <2>. QED
    BY <1>1
<1>6. \A k \in DOMAIN temp : temp[k].planned = planned => q # <<>>
  <2>. SUFFICES ASSUME NEW k \in DOMAIN temp, temp[k].planned = planned PROVE q # <<>>
    OBVIOUS
  <2>. HIDE DEF q, c
  <2>1. c >= 1
    BY <1>1
  <2>. QED
    BY <1>1, <2>1
<1>7. q # <<>> => TestData(planned) # <<>> /\ q[1] \in Row
  <2>. HIDE DEF q, c
  <2>. SUFFICES ASSUME q # <<>> PROVE TestData(planned) # <<>> /\ q[1] \in Row
    OBVIOUS
  <2>1. c >= 1
    BY <1>1
  <2>. QED
    BY <1>1, <1>2, <1>4, <2>1
<1>8. \A k \in DOMAIN temp : temp[k].planned = planned => temp[k].line \in Range(TestData(planned))
  <2>. SUFFICES ASSUME NEW k \in K PROVE temp[k].line \in Range(TestData(planned))
    OBVIOUS
  <2>1. PICK i \in 1..c : q[i] = temp[k]
    BY <1>1
  <2>. HIDE DEF q, c
  <2>. QED
    BY <1>3, <1>4, <2>1 DEF Range
<1>9. \A l \in Range(TestData(planned)) : \E k \in DOMAIN temp :
        temp[k].planned = planned /\ l = temp[k].line
  <2>. SUFFICES ASSUME NEW l \in Range(TestData(planned))
                PROVE  \E k \in K : l = temp[k].line
    OBVIOUS
  <2>. HIDE DEF q, c
  <2>1. PICK i \in 1..c : l = q[i].line
    BY <1>3, <1>4 DEF Range
  <2>. QED
    BY <1>1, <2>1
<1>. QED
  BY <1>1, <1>4, <1>5, <1>6, <1>7, <1>8, <1>9

\* The statements that store lines: the deletion, and one insertion for every line.
Stores(q) ==
  /\ q \in Seq(Statement) /\ q # <<>> /\ q[1] = Clear
  /\ \A k \in DOMAIN q : k > 1 => q[k].op = "insert"
StoresLines(q, t, d) == Stores(q) /\ InsertedBy(q) = Range(t) \cup Range(d)

\* One insertion for every line.
LEMMA InsertStatements ==
  ASSUME NEW where, NEW planned \in BOOLEAN, NEW attempt \in Int, NEW sequence \in Int,
         NEW lines \in Seq(Line)
  PROVE  /\ Insert(where, planned, attempt, sequence, lines) \in Seq(Statement)
         /\ \A x \in Range(Insert(where, planned, attempt, sequence, lines)) : x.op = "insert"
         /\ InsertedBy(Insert(where, planned, attempt, sequence, lines)) = Range(lines)
<1>. DEFINE q == Insert(where, planned, attempt, sequence, lines)
            r(k) == RowFor(where, planned, attempt, sequence, lines[k])
<1>1. \A k \in 1..Len(lines) : r(k) \in Row /\ r(k).line = lines[k]
  BY DEF RowFor, Row
<1>2. q = [k \in 1..Len(lines) |-> [op |-> "insert", row |-> r(k)]]
  BY DEF Insert
<1>. HIDE DEF r
<1>3. \A k \in 1..Len(lines) : [op |-> "insert", row |-> r(k)] \in Statement
  BY <1>1 DEF Statement
<1>4. Len(lines) \in Nat /\ DOMAIN lines = 1..Len(lines)
  OBVIOUS
<1>. HIDE DEF q
<1>5. q \in Seq(Statement) /\ DOMAIN q = 1..Len(lines)
  BY <1>2, <1>3, <1>4
<1>6. \A k \in 1..Len(lines) : q[k].op = "insert" /\ q[k].row.line = lines[k]
  BY <1>1, <1>2
<1>7. Range(q) = {q[k] : k \in 1..Len(lines)} /\ Range(lines) = {lines[k] : k \in 1..Len(lines)}
  BY <1>4, <1>5 DEF Range
<1>8. \A x \in Range(q) : x.op = "insert"
  BY <1>6, <1>7
<1>9. InsertedBy(q) = Range(lines)
  BY <1>6, <1>7, <1>8 DEF InsertedBy
<1>. QED
  BY <1>5, <1>8, <1>9 DEF q

\* databaseInsertTemporaryTestData stores all lines of both arrays.
LEMMA StoreStatements ==
  ASSUME NEW planned \in BOOLEAN, NEW attempt \in Int, NEW sequence \in Int,
         NEW t \in Seq(Line), NEW d \in Seq(Line)
  PROVE  StoresLines(InsertTemporaryTestData(planned, attempt, sequence, t, d), t, d)
<1>. DEFINE a == Insert("test", planned, attempt, sequence, t)
            b == Insert("diag", planned, attempt, sequence, d)
            p == <<Clear>> \o a
            q == p \o b
<1>1. /\ a \in Seq(Statement) /\ InsertedBy(a) = Range(t) /\ \A x \in Range(a) : x.op = "insert"
      /\ b \in Seq(Statement) /\ InsertedBy(b) = Range(d) /\ \A x \in Range(b) : x.op = "insert"
  <2>1. /\ Insert("test", planned, attempt, sequence, t) \in Seq(Statement)
        /\ \A x \in Range(Insert("test", planned, attempt, sequence, t)) : x.op = "insert"
        /\ InsertedBy(Insert("test", planned, attempt, sequence, t)) = Range(t)
    BY InsertStatements, Zenon
  <2>2. /\ Insert("diag", planned, attempt, sequence, d) \in Seq(Statement)
        /\ \A x \in Range(Insert("diag", planned, attempt, sequence, d)) : x.op = "insert"
        /\ InsertedBy(Insert("diag", planned, attempt, sequence, d)) = Range(d)
    BY InsertStatements, Zenon
  <2>. QED
    BY <2>1, <2>2
<1>2. Clear \in Statement /\ Clear.op = "clear"
  BY DEF Clear, Statement
<1>3. <<Clear>> \in Seq(Statement) /\ Len(<<Clear>>) = 1 /\ <<Clear>>[1] = Clear /\ Range(<<Clear>>) = {Clear}
  <2>1. DOMAIN <<Clear>> = {1}
    OBVIOUS
  <2>. QED
    BY <1>2, <2>1 DEF Range
<1>. HIDE DEF a, b
<1>4. /\ p \in Seq(Statement) /\ Len(p) = 1 + Len(a) /\ Len(a) \in Nat /\ p[1] = Clear
      /\ Range(p) = {Clear} \cup Range(a) /\ DOMAIN a = 1..Len(a)
      /\ \A k \in 1..Len(p) : k > 1 => k - 1 \in 1..Len(a) /\ p[k] = a[k - 1]
  <2>. DEFINE c == <<Clear>>
  <2>1. c \in Seq(Statement) /\ Len(c) = 1 /\ c[1] = Clear /\ Range(c) = {Clear}
    BY <1>3
  <2>. HIDE DEF c
  <2>4. a \in Seq(Statement)
    BY <1>1
  <2>5. c \in Seq(Statement)
    BY <2>1
  <2>2. /\ c \o a \in Seq(Statement) /\ Len(c) \in Nat /\ Len(a) \in Nat /\ Len(c \o a) = Len(c) + Len(a)
        /\ DOMAIN c = 1..Len(c) /\ DOMAIN a = 1..Len(a) /\ DOMAIN (c \o a) = 1..(Len(c) + Len(a))
        /\ \A k \in 1..Len(c) : (c \o a)[k] = c[k]
        /\ \A k \in 1..(Len(c) + Len(a)) : k > Len(c) => k - Len(c) \in 1..Len(a) /\ (c \o a)[k] = a[k - Len(c)]
        /\ Range(c \o a) = Range(c) \cup Range(a)
    <3>. HIDE DEF p, q
    <3>. QED
      BY <2>5, <2>4, ConcatParts, SMT
  <2>3. p = c \o a
    BY DEF c
  <2>. HIDE DEF p
  <2>. QED
    BY <2>1, <2>2, <2>3
<1>. HIDE DEF p
<1>5. /\ q \in Seq(Statement) /\ Len(p) \in Nat /\ Len(b) \in Nat /\ DOMAIN b = 1..Len(b)
      /\ DOMAIN q = 1..(Len(p) + Len(b)) /\ Range(q) = Range(p) \cup Range(b)
      /\ \A k \in 1..Len(p) : q[k] = p[k]
      /\ \A k \in 1..(Len(p) + Len(b)) : k > Len(p) => k - Len(p) \in 1..Len(b) /\ q[k] = b[k - Len(p)]
  <2>1. /\ p \o b \in Seq(Statement) /\ Len(p) \in Nat /\ Len(b) \in Nat /\ Len(p \o b) = Len(p) + Len(b)
        /\ DOMAIN p = 1..Len(p) /\ DOMAIN b = 1..Len(b) /\ DOMAIN (p \o b) = 1..(Len(p) + Len(b))
        /\ \A k \in 1..Len(p) : (p \o b)[k] = p[k]
        /\ \A k \in 1..(Len(p) + Len(b)) : k > Len(p) => k - Len(p) \in 1..Len(b) /\ (p \o b)[k] = b[k - Len(p)]
        /\ Range(p \o b) = Range(p) \cup Range(b)
    BY <1>1, <1>4, ConcatParts, SMT
  <2>2. q = p \o b
    OBVIOUS
  <2>. HIDE DEF q
  <2>. QED
    BY <2>1, <2>2
<1>. HIDE DEF q
<1>6. q # <<>> /\ q[1] = Clear
  BY <1>4, <1>5
<1>7. \A k \in DOMAIN q : k > 1 => q[k].op = "insert"
  <2>. SUFFICES ASSUME NEW k \in 1..(Len(p) + Len(b)), k > 1 PROVE q[k].op = "insert"
    BY <1>5
  <2>1. CASE k > Len(p)
    BY <1>1, <1>5, <2>1 DEF Range
  <2>2. CASE k \in 1..Len(p)
    <3>1. k - 1 \in 1..Len(a) /\ q[k] = a[k - 1] /\ a[k - 1] \in Range(a)
      BY <1>4, <1>5, <2>2 DEF Range
    <3>. QED
      BY <1>1, <3>1
  <2>. QED
    BY <1>5, <2>1, <2>2
<1>8. InsertedBy(q) = Range(t) \cup Range(d)
  <2>1. Range(q) = {Clear} \cup Range(a) \cup Range(b)
    BY <1>4, <1>5
  <2>. QED
    BY <1>1, <1>2, <2>1 DEF InsertedBy
<1>9. InsertTemporaryTestData(planned, attempt, sequence, t, d) = q
  BY DEF InsertTemporaryTestData, q, p, a, b
<1>. QED
  BY <1>5, <1>6, <1>7, <1>8, <1>9 DEF Stores, StoresLines

\* DBUpdateBoardInfo has statements about the board only.
LEMMA InfoStatements ==
  ASSUME NEW attempt \in Int
  PROVE  DBUpdateBoardInfo(attempt) \in Seq(Statement) /\ OfInfo(DBUpdateBoardInfo(attempt))
<1>. DEFINE q == DBUpdateBoardInfo(attempt)
<1>1. /\ [op |-> "clearInfo"] \in Statement
      /\ \A o \in {"insertInfo", "clearMacs", "insertMac"} : [op |-> o, version |-> attempt - 1] \in Statement
  BY DEF Statement
<1>2. q \in Seq(Statement) /\ DOMAIN q = 1..4
  BY <1>1 DEF DBUpdateBoardInfo
<1>3. q[1].op = "clearInfo" /\ q[2].op = "insertInfo" /\ q[3].op = "clearMacs" /\ q[4].op = "insertMac"
  BY DEF DBUpdateBoardInfo
<1>4. \A k \in 1..4 : k = 1 \/ k = 2 \/ k = 3 \/ k = 4
  OBVIOUS
<1>5. OfInfo(q)
  <2>. HIDE DEF q
  <2>. QED
    BY <1>2, <1>3, <1>4 DEF OfInfo, InfoOps
<1>. QED
  BY <1>2, <1>5

\* It begins with a deletion, from another table.
LEMMA ClearInfoFirst ==
  ASSUME NEW attempt
  PROVE  DBUpdateBoardInfo(attempt)[1].op = "clearInfo"
BY DEF DBUpdateBoardInfo

\* The statements of a printout print the lines and count the executions.
LEMMA PrintStatements ==
  ASSUME NEW number \in Nat, NEW attempt \in Int, NEW lines \in Seq(Line), lines # <<>>,
         NEW executions \in Nat
  PROVE  LET q == SaveTestPrintout(number, attempt, lines, executions) IN
           /\ q \in Seq(Statement) /\ q # <<>> /\ OfPrint(q)
           /\ q[1].op = "print" /\ q[1].number = number
           /\ PrintedBy(q) = Range(lines) /\ CountsTo(q, executions)
<1>. DEFINE v == attempt - 1
            first == [op |-> "print", number |-> number, version |-> v, line |-> Head(lines)]
            append(k) == [op |-> "append", number |-> number, version |-> v, line |-> lines[k + 1]]
            execution == [op |-> "execution", number |-> number, version |-> v]
            a == [k \in 1..Len(lines) - 1 |-> append(k)]
            b == [k \in 1..executions |-> execution]
            c == <<first>>
            p == c \o a
            q == p \o b
            m == Len(lines) - 1
<1>1. /\ Tail(lines) \in Seq(Line) /\ m \in Nat /\ Head(lines) \in Line
      /\ DOMAIN Tail(lines) = 1..m /\ Head(lines) = lines[1]
      /\ \A k \in 1..m : Tail(lines)[k] = lines[k + 1] /\ lines[k + 1] \in Line
  <2>1. /\ Tail(lines) \in Seq(Line) /\ m \in Nat /\ Head(lines) \in Line
        /\ DOMAIN Tail(lines) = 1..m /\ Head(lines) = lines[1]
        /\ \A k \in 1..m : Tail(lines)[k] = lines[k + 1]
    BY TailParts
  <2>2. \A k \in 1..m : Tail(lines)[k] \in Line
    BY <2>1
  <2>. QED
    BY <2>1, <2>2
<1>2. v \in Int
  OBVIOUS
<1>3. first \in Statement /\ execution \in Statement /\ \A k \in 1..m : append(k) \in Statement
  <2>. HIDE DEF v
  <2>1. first \in Statement
    BY <1>1, <1>2 DEF Statement
  <2>2. execution \in Statement
    BY <1>1, <1>2 DEF Statement
  <2>3. \A k \in 1..m : append(k) \in Statement
    <3>. HIDE DEF m
    <3>. QED
      BY <1>1, <1>2 DEF Statement
  <2>. QED
    BY <2>1, <2>2, <2>3
<1>4. /\ first.op = "print" /\ first.number = number /\ first.version = v /\ first.line = Head(lines)
      /\ execution.op = "execution" /\ execution.number = number /\ execution.version = v
      /\ \A k \in 1..m : append(k).op = "append" /\ append(k).number = number
                        /\ append(k).version = v /\ append(k).line = lines[k + 1]
  OBVIOUS
<1>. HIDE DEF first, append, execution, m
<1>5. a = [k \in 1..m |-> append(k)] /\ b = [k \in 1..executions |-> execution]
  BY DEF m
<1>. HIDE DEF a, b
<1>6. /\ a \in Seq(Statement) /\ b \in Seq(Statement) /\ c \in Seq(Statement)
      /\ Len(a) = m /\ Len(b) = executions /\ Len(c) = 1 /\ c[1] = first
      /\ DOMAIN a = 1..m /\ DOMAIN b = 1..executions /\ DOMAIN c = 1..1
  BY <1>1, <1>3, <1>5
<1>7. Range(c) = {first} /\ Range(b) \subseteq {execution} /\ Range(a) = {append(k) : k \in 1..m}
  <2>1. Range(c) = {first}
    BY <1>6 DEF Range
  <2>2. Range(b) \subseteq {execution}
    BY <1>5, <1>6 DEF Range
  <2>3. Range(a) = {a[k] : k \in 1..m} /\ \A k \in 1..m : a[k] = append(k)
    BY <1>5, <1>6 DEF Range
  <2>4. Range(a) = {append(k) : k \in 1..m}
    BY <2>3
  <2>. QED
    BY <2>1, <2>2, <2>4
<1>. HIDE DEF c
<1>8. /\ p \in Seq(Statement) /\ Len(p) = 1 + m /\ p[1] = first /\ Range(p) = {first} \cup Range(a)
      /\ \A k \in 1..Len(p) : k > 1 => p[k] \in Range(a)
  <2>1. c \in Seq(Statement) /\ a \in Seq(Statement)
    BY <1>6
  <2>2. /\ c \o a \in Seq(Statement) /\ Len(c) \in Nat /\ Len(a) \in Nat /\ Len(c \o a) = Len(c) + Len(a)
        /\ DOMAIN c = 1..Len(c) /\ DOMAIN a = 1..Len(a) /\ DOMAIN (c \o a) = 1..(Len(c) + Len(a))
        /\ \A k \in 1..Len(c) : (c \o a)[k] = c[k]
        /\ \A k \in 1..(Len(c) + Len(a)) : k > Len(c) => k - Len(c) \in 1..Len(a) /\ (c \o a)[k] = a[k - Len(c)]
        /\ Range(c \o a) = Range(c) \cup Range(a)
    <3>. HIDE DEF p, q
    <3>. QED
      BY <2>1, ConcatParts, SMT
  <2>3. p = c \o a
    OBVIOUS
  <2>. HIDE DEF p
  <2>4. \A k \in 1..Len(p) : k > 1 => p[k] \in Range(a)
    BY <1>1, <1>6, <2>2, <2>3 DEF Range
  <2>. QED
    BY <1>6, <1>7, <2>2, <2>3, <2>4
<1>. HIDE DEF p
<1>9. /\ q \in Seq(Statement) /\ DOMAIN q = 1..(Len(p) + Len(b)) /\ Len(q) = Len(p) + Len(b) /\ Range(q) = Range(p) \cup Range(b)
      /\ Len(p) \in Nat /\ Len(b) \in Nat /\ q[1] = first
      /\ \A k \in DOMAIN q : k > 1 => q[k] \in Range(a) \cup Range(b)
      /\ \A k \in DOMAIN q : k > Len(p) => q[k] \in Range(b)
      /\ \A k \in DOMAIN q : k <= Len(p) => q[k] \in {first} \cup Range(a)
  <2>1. p \in Seq(Statement) /\ b \in Seq(Statement)
    BY <1>6, <1>8
  <2>2. /\ p \o b \in Seq(Statement) /\ Len(p) \in Nat /\ Len(b) \in Nat /\ Len(p \o b) = Len(p) + Len(b)
        /\ DOMAIN p = 1..Len(p) /\ DOMAIN b = 1..Len(b) /\ DOMAIN (p \o b) = 1..(Len(p) + Len(b))
        /\ \A k \in 1..Len(p) : (p \o b)[k] = p[k]
        /\ \A k \in 1..(Len(p) + Len(b)) : k > Len(p) => k - Len(p) \in 1..Len(b) /\ (p \o b)[k] = b[k - Len(p)]
        /\ Range(p \o b) = Range(p) \cup Range(b)
    <3>. HIDE DEF q
    <3>. QED
      BY <2>1, ConcatParts, SMT
  <2>3. q = p \o b
    OBVIOUS
  <2>. HIDE DEF q
  <2>4. ASSUME NEW k \in 1..(Len(p) + Len(b)), k > 1 PROVE q[k] \in Range(a) \cup Range(b)
    <3>1. CASE k > Len(p)
      BY <2>2, <2>3, <3>1 DEF Range
    <3>2. CASE k \in 1..Len(p)
      BY <1>8, <2>2, <2>3, <2>4, <3>2
    <3>. QED
      BY <2>2, <3>1, <3>2
  <2>5. ASSUME NEW k \in 1..(Len(p) + Len(b)), k > Len(p) PROVE q[k] \in Range(b)
    BY <2>2, <2>3, <2>5 DEF Range
  <2>6. ASSUME NEW k \in 1..(Len(p) + Len(b)), k <= Len(p) PROVE q[k] \in {first} \cup Range(a)
    <3>1. k \in 1..Len(p) /\ q[k] = p[k]
      BY <2>2, <2>3, <2>6
    <3>2. k = 1 \/ k > 1
      BY <2>2
    <3>. QED
      BY <1>8, <3>1, <3>2
  <2>7. q[1] = first
    BY <1>1, <1>8, <2>2, <2>3
  <2>. QED
    BY <1>8, <2>2, <2>3, <2>4, <2>5, <2>6, <2>7
<1>. HIDE DEF q
<1>10. \A x \in Range(a) \cup Range(b) : x.op \in {"append", "execution"} /\ x.number = number /\ x.version = v
  BY <1>4, <1>7
<1>15. ASSUME NEW k \in DOMAIN q, q[k].op = "execution", NEW j \in DOMAIN q, j > k
      PROVE  q[j].op = "execution"
  <2>1. q[k] \notin {first} \cup Range(a)
    BY <1>4, <1>7, <1>15
  <2>2. k \in Nat /\ j \in Nat /\ ~(k <= Len(p)) /\ j > Len(p)
    BY <1>9, <1>15, <2>1
  <2>3. q[j] \in Range(b)
    BY <1>9, <2>2
  <2>. QED
    BY <1>4, <1>7, <2>3
<1>11. OfPrint(q)
  <2>. SUFFICES ASSUME NEW k \in DOMAIN q
                PROVE  /\ q[k].op \in PrintOps /\ (k > 1 => q[k].op # "print")
                       /\ q[k].number = q[1].number /\ q[k].version = q[1].version
    BY <1>15 DEF OfPrint
  <2>1. CASE k = 1
    BY <1>4, <1>9, <2>1 DEF PrintOps
  <2>2. CASE k > 1
    BY <1>4, <1>9, <1>10, <2>2 DEF PrintOps
  <2>. QED
    BY <1>9, <2>1, <2>2
<1>12. PrintedBy(q) = Range(lines)
  <2>1. Range(q) = {first} \cup {append(k) : k \in 1..m} \cup Range(b)
    BY <1>7, <1>8, <1>9
  <2>2. Range(lines) = {lines[1]} \cup Range(Tail(lines))
    BY TailRange
  <2>3. Range(Tail(lines)) = {lines[k + 1] : k \in 1..m}
    <3>1. Range(Tail(lines)) = {Tail(lines)[k] : k \in 1..m}
      BY <1>1 DEF Range
    <3>. QED
      BY <1>1, <3>1
  <2>4. PrintedBy(q) = {first.line} \cup {append(k).line : k \in 1..m}
    BY <1>4, <1>7, <2>1 DEF PrintedBy
  <2>5. {append(k).line : k \in 1..m} = {lines[k + 1] : k \in 1..m}
    BY <1>4
  <2>6. first.line = lines[1]
    BY <1>1, <1>4
  <2>. QED
    BY <2>2, <2>3, <2>4, <2>5, <2>6
<1>13. q # <<>>
  BY <1>8, <1>9, <1>1
<1>14. SaveTestPrintout(number, attempt, lines, executions) = q
  BY DEF SaveTestPrintout, q, p, a, b, c, first, append, execution, m
<1>16. CountsTo(q, executions)
  <2>1. ASSUME NEW k \in DOMAIN q PROVE q[k].op = "execution" <=> k > Len(p)
    <3>1. CASE k > Len(p)
      BY <1>4, <1>7, <1>9, <3>1
    <3>2. CASE ~(k > Len(p))
      <4>1. k <= Len(p)
        BY <1>9, <3>2
      <4>. QED
        BY <1>4, <1>7, <1>9, <3>2, <4>1
    <3>. QED
      BY <3>1, <3>2
  <2>2. Len(p) \in 0..Len(q) /\ executions = Len(q) - Len(p)
    BY <1>6, <1>9
  <2>. QED
    BY <2>1, <2>2 DEF CountsTo
<1>. QED
  BY <1>4, <1>9, <1>11, <1>12, <1>13, <1>14, <1>16

-------------------------------------------------------------------------------
\* Queries: the sequence found is -1 or that of a row.
LEMMA SequenceType ==
  ASSUME temp \in Seq(Row), NEW attempt
  PROVE  /\ SequenceForAttempt(attempt) \in Int /\ SequenceForAttempt(attempt) >= -1
         /\ \/ SequenceForAttempt(attempt) = -1
            \/ \E k \in DOMAIN temp :
                 temp[k].attempt = attempt /\ SequenceForAttempt(attempt) = temp[k].sequence
<1>. DEFINE N == {n \in DOMAIN temp : temp[n].attempt = attempt}
            T == {temp[k].sequence : k \in N}
            U == {-1} \cup T
<1>1. IsFiniteSet(N)
  <2>1. Len(temp) \in Nat /\ DOMAIN temp = 1..Len(temp)
    OBVIOUS
  <2>2. IsFiniteSet(DOMAIN temp)
    BY <2>1, FS_Interval
  <2>. QED
    BY <2>2, FS_Subset
<1>2. T \subseteq Int
  <2>1. \A k \in DOMAIN temp : temp[k] \in Row
    OBVIOUS
  <2>2. \A k \in DOMAIN temp : temp[k].sequence \in Int
    BY <2>1 DEF Row
  <2>. QED
    BY <2>2
<1>3. IsFiniteSet(T)
  <2>. DEFINE f == [k \in N |-> temp[k].sequence]
  <2>1. f \in Surjection(N, T)
    BY DEF Surjection
  <2>. HIDE DEF f, N, T
  <2>. QED
    BY <1>1, <2>1, FS_Surjection
<1>4. IsFiniteSet(U) /\ U \subseteq Int /\ -1 \in U
  <2>. HIDE DEF T
  <2>1. IsFiniteSet({-1})
    BY FS_Singleton
  <2>2. IsFiniteSet(U)
    BY <1>3, <2>1, FS_Union
  <2>. QED
    BY <1>2, <2>2
<1>5. SequenceForAttempt(attempt) = Max(U)
  BY DEF SequenceForAttempt
<1>6. Max(U) \in U /\ \A y \in U : y <= Max(U)
  <2>. HIDE DEF U
  <2>. QED
    BY <1>4, Greatest
<1>7. SequenceForAttempt(attempt) \in {-1} \cup T
  BY <1>5, <1>6
<1>8. ASSUME SequenceForAttempt(attempt) # -1
      PROVE  \E k \in DOMAIN temp : temp[k].attempt = attempt /\ SequenceForAttempt(attempt) = temp[k].sequence
  <2>. HIDE DEF U
  <2>. QED
    BY <1>7, <1>8
<1>9. SequenceForAttempt(attempt) \in Int /\ SequenceForAttempt(attempt) >= -1
  <2>. HIDE DEF U
  <2>. QED
    BY <1>4, <1>5, <1>6
<1>. QED
  BY <1>8, <1>9

\* The number of tests; attempt 0 has none.
LEMMA TestsType ==
  ASSUME NEW attempt
  PROVE  NumberOfTests(attempt) \in Nat /\ NumberOfTests(0) = 0
<1>1. attempt \in Attempts => Len(Tests[attempt]) \in Nat
  BY DatabaseAssumption
<1>2. 0 \notin Attempts
  BY DatabaseAssumption
<1>. QED
  BY <1>1, <1>2 DEF NumberOfTests

\* The cache has numbers of tests.
LEMMA CacheType ==
  ASSUME NEW sequence \in Int, sequence >= -1, NEW numTests \in Nat
  PROVE  CachedTests(sequence, numTests) \in Seq(Nat)
<1>. DEFINE tests == After(sequence, numTests)
            K == {k \in DOMAIN tests : HasTest(s.attempt, tests[k])}
<1>1. tests \in Seq(Nat)
  <2>. DEFINE n == numTests - sequence - 1
  <2>1. \A k \in 1..n : sequence + k \in Nat
    OBVIOUS
  <2>2. CASE n \in Nat
    <3>1. tests = [k \in 1..n |-> sequence + k]
      BY DEF After
    <3>. HIDE DEF n, tests
    <3>. QED
      BY <2>1, <2>2, <3>1
  <2>3. CASE n \notin Nat
    <3>1. 1..n = {}
      BY <2>3
    <3>2. tests = [k \in 1..n |-> sequence + k]
      BY DEF After
    <3>. HIDE DEF n, tests
    <3>3. tests = <<>>
      BY <3>1, <3>2
    <3>. QED
      BY <3>3
  <2>. QED
    BY <2>2, <2>3
<1>2. CachedTests(sequence, numTests) = AtPlaces(tests, K)
  BY DEF CachedTests
<1>3. K \in SUBSET DOMAIN tests
  OBVIOUS
<1>. HIDE DEF tests, K
<1>. QED
  BY <1>1, <1>2, <1>3, AtPlacesUsesAll

\* It still has when one is left out.
LEMMA RemoveAtType ==
  ASSUME NEW cache \in Seq(Nat), NEW k \in DOMAIN cache
  PROVE  RemoveAt(cache, k) \in Seq(Nat)
<1>1. SubSeq(cache, 1, k - 1) \in Seq(Nat) /\ SubSeq(cache, k + 1, Len(cache)) \in Seq(Nat)
  OBVIOUS
<1>. QED
  BY <1>1 DEF RemoveAt

\* Attempts of rows are numbers.
LEMMA AttemptTypes ==
  ASSUME temp \in Seq(Row)
  PROVE  /\ \A planned \in BOOLEAN : AttemptForSavedTestData(planned) \in Int
         /\ Continuable \subseteq Int
<1>1. \A planned \in BOOLEAN :
        Kept(planned) \in Seq(Row) /\ (Kept(planned) # <<>> => Head(Kept(planned)) \in Row)
  BY KeptRows
<1>2. \A r \in Row : r.attempt \in Int
  BY DEF Row
<1>3. ASSUME NEW r \in Range(Kept(TRUE)) PROVE r \in Row
  <2>. DEFINE q == Kept(TRUE)
  <2>1. q \in Seq(Row)
    BY <1>1
  <2>2. PICK k \in DOMAIN q : r = q[k]
    BY DEF Range
  <2>. HIDE DEF q
  <2>. QED
    BY <2>1, <2>2
<1>4. \A planned \in BOOLEAN : AttemptForSavedTestData(planned) \in Int
  BY <1>1, <1>2 DEF AttemptForSavedTestData
<1>5. Continuable \subseteq Int
  BY <1>2, <1>3 DEF Continuable
<1>. QED
  BY <1>4, <1>5

\* What a statement has, by its operation.
LEMMA StatementParts ==
  ASSUME NEW x \in Statement
  PROVE  /\ x.op \in {"clear", "insert"} \cup InfoOps \cup PrintOps
         /\ x.op = "clear" => x = Clear
         /\ x.op = "insert" => x.row \in Row /\ x.row.line \in Line
         /\ x.op \in {"print", "append"} => x.number \in Nat /\ x.version \in Int /\ x.line \in Line
         /\ x.op = "execution" => x.number \in Nat /\ x.version \in Int
<1>0. \A r \in Row : r.line \in Line
  BY DEF Row
<1>1. CASE x \in [op : {"clear", "clearInfo"}]
  BY <1>1 DEF InfoOps, PrintOps, Clear
<1>2. CASE x \in [op : {"insert"}, row : Row]
  BY <1>0, <1>2
<1>3. CASE x \in [op : {"insertInfo", "clearMacs", "insertMac"}, version : Int]
  BY <1>3 DEF InfoOps
<1>4. CASE x \in [op : {"print", "append"}, number : Nat, version : Int, line : Line]
  BY <1>4 DEF PrintOps
<1>5. CASE x \in [op : {"execution"}, number : Nat, version : Int]
  BY <1>5 DEF PrintOps
<1>. QED
  BY <1>1, <1>2, <1>3, <1>4, <1>5 DEF Statement

-------------------------------------------------------------------------------
\* What the steps leave alone.
\* Only a statement touches the tables.
LEMMA OnlyExecute ==
  ASSUME [Next]_vars
  PROVE  Execute \/ UNCHANGED <<temp, history>>
<1>. USE DEF dbVars
<1>1. ASSUME Execute PROVE Execute \/ UNCHANGED <<temp, history>>
  BY <1>1 DEF Execute
<1>2. ASSUME StatementFails PROVE Execute \/ UNCHANGED <<temp, history>>
  BY <1>2 DEF StatementFails, MayFail, Fail
<1>3. ASSUME PowerOn PROVE Execute \/ UNCHANGED <<temp, history>>
  BY <1>3 DEF PowerOn, Goto
<1>4. ASSUME PowerOff PROVE Execute \/ UNCHANGED <<temp, history>>
  BY <1>4 DEF PowerOff, Goto
<1>5. ASSUME SaveUnPlannedTestData PROVE Execute \/ UNCHANGED <<temp, history>>
  BY <1>5 DEF SaveUnPlannedTestData, Ready, Goto, MayFail, Fail
<1>6. ASSUME PrintUnplanned PROVE Execute \/ UNCHANGED <<temp, history>>
  BY <1>6 DEF PrintUnplanned, PrintOut, Ready, Goto, MayFail, Fail
<1>7. ASSUME AttemptRestored PROVE Execute \/ UNCHANGED <<temp, history>>
  BY <1>7 DEF AttemptRestored, Ready, Goto
<1>8. ASSUME GetBoardAttempt PROVE Execute \/ UNCHANGED <<temp, history>>
  BY <1>8 DEF GetBoardAttempt, Ready, Goto, Chosen, MayFail, Fail
<1>9. ASSUME GetNumberOfTests PROVE Execute \/ UNCHANGED <<temp, history>>
  BY <1>9 DEF GetNumberOfTests, Ready, Goto, MayFail, Fail
<1>10. ASSUME GetPreviousTestData PROVE Execute \/ UNCHANGED <<temp, history>>
  BY <1>10 DEF GetPreviousTestData, Ready, Goto, MayFail, Fail
<1>11. ASSUME BurninTest PROVE Execute \/ UNCHANGED <<temp, history>>
  BY <1>11 DEF BurninTest, Ready, Goto
<1>12. ASSUME Cache PROVE Execute \/ UNCHANGED <<temp, history>>
  BY <1>12 DEF Cache, Ready, Goto, MayFail, Fail
<1>13. ASSUME StartTest PROVE Execute \/ UNCHANGED <<temp, history>>
  BY <1>13 DEF StartTest, Ready, Goto
<1>14. ASSUME TestRestarts PROVE Execute \/ UNCHANGED <<temp, history>>
  BY <1>14 DEF TestRestarts, Testing, Ready
<1>15. ASSUME TestEnds PROVE Execute \/ UNCHANGED <<temp, history>>
  BY <1>15 DEF TestEnds, Ready, Goto
<1>16. ASSUME TimeIsUp PROVE Execute \/ UNCHANGED <<temp, history>>
  BY <1>16 DEF TimeIsUp, Ready, Goto
<1>17. ASSUME LastTestEnded PROVE Execute \/ UNCHANGED <<temp, history>>
  BY <1>17 DEF LastTestEnded, Ready, Goto
<1>18. ASSUME NEW repeated \in BOOLEAN, ChooseTests(repeated) PROVE Execute \/ UNCHANGED <<temp, history>>
  BY <1>18 DEF ChooseTests, Ready, Goto
<1>19. ASSUME NEW kind \in {"test", "diag"}, TestSends(kind) PROVE Execute \/ UNCHANGED <<temp, history>>
  BY <1>19 DEF TestSends, Testing, Ready
<1>20. ASSUME BeginPrintout PROVE Execute \/ UNCHANGED <<temp, history>>
  BY <1>20 DEF BeginPrintout, Ready, Goto
<1>21. ASSUME Printout PROVE Execute \/ UNCHANGED <<temp, history>>
  BY <1>21 DEF Printout, PrintOut, Ready, Goto, MayFail, Fail
<1>22. ASSUME RemoveData PROVE Execute \/ UNCHANGED <<temp, history>>
  BY <1>22 DEF RemoveData, Ready, Goto
<1>23. ASSUME ListenerKeeps PROVE Execute \/ UNCHANGED <<temp, history>>
  BY <1>23 DEF ListenerKeeps
<1>24. ASSUME ListenerStores PROVE Execute \/ UNCHANGED <<temp, history>>
  BY <1>24 DEF ListenerStores, Goto
<1>25. CASE UNCHANGED vars
  BY <1>25 DEF vars
<1>. QED
  BY <1>1, <1>2, <1>3, <1>4, <1>5, <1>6, <1>7, <1>8, <1>9, <1>10, <1>11, <1>12, <1>13, <1>14,
       <1>15, <1>16, <1>17, <1>18, <1>19, <1>20, <1>21, <1>22, <1>23, <1>24, <1>25 DEF Next

\* What a failure changes in the history variable.
LEMMA FailSeen ==
  ASSUME seen \in Seen, NEW loses \in BOOLEAN
  PROVE  /\ Fail(loses) \in Seen /\ Fail(loses).lossy = (seen.lossy \/ loses)
         /\ Fail(loses).stored = seen.stored /\ Fail(loses).made = seen.made
         /\ Fail(loses).chain = seen.chain /\ Fail(loses).saved = seen.saved
<1>1. seen.fails \in Nat /\ seen.lossy \in BOOLEAN
  BY DEF Seen
<1>2. seen.fails + 1 \in Nat /\ (seen.lossy \/ loses) \in BOOLEAN
  BY <1>1
<1>3. Fail(loses) = [seen EXCEPT !.fails = seen.fails + 1, !.lossy = seen.lossy \/ loses]
  BY DEF Fail
<1>. DEFINE b == seen.lossy \/ loses
            n == seen.fails + 1
<1>4. b \in BOOLEAN /\ n \in Nat /\ Fail(loses) = [seen EXCEPT !.fails = n, !.lossy = b]
  BY <1>2, <1>3
<1>. HIDE DEF b, n
<1>5. Fail(loses) \in Seen
  BY <1>4 DEF Seen
<1>6. /\ Fail(loses).lossy = b /\ Fail(loses).stored = seen.stored /\ Fail(loses).made = seen.made
      /\ Fail(loses).chain = seen.chain /\ Fail(loses).saved = seen.saved
  BY <1>4 DEF Seen
<1>. QED
  BY <1>5, <1>6 DEF b

\* There is nothing to cache before anything is known of the tests.
LEMMA NoTestsToCache ==
  ASSUME s.numTests = 0
  PROVE  CachedTests(-1, s.numTests) = <<>>
<1>. DEFINE tests == After(-1, s.numTests)
            K == {k \in DOMAIN tests : HasTest(s.attempt, tests[k])}
<1>1. tests = <<>>
  BY DEF After
<1>2. CachedTests(-1, s.numTests) = AtPlaces(tests, K)
  BY DEF CachedTests
<1>. HIDE DEF tests
<1>3. tests \in Seq(Nat) /\ K = {}
  BY <1>1, EmptyParts
<1>4. K \in SUBSET DOMAIN tests
  BY <1>3
<1>. HIDE DEF K
<1>5. AtPlaces(tests, K) \in Seq(Nat) /\ Len(AtPlaces(tests, K)) = Cardinality(K)
  BY <1>3, <1>4, AtPlacesUsesAll
<1>. QED
  BY <1>2, <1>3, <1>5, FS_EmptySet

\* A burn-in test begins: it has got a cache, and its chain is not one of functional tests.
LEMMA BurnInBegins ==
  ASSUME AllTypes, BurninTest
  PROVE  /\ at = "burn" /\ script = <<>> /\ at' = "burning" /\ script' = <<>>
         /\ temp' = temp /\ history' = history /\ output' = output
         /\ s' \in Memory /\ \E c : s' = [s EXCEPT !.cache = c, !.current = s.numTests - 1]
         /\ s.numTests = 0 => s'.cache = <<>>
         /\ seen' \in Seen /\ seen'.fails \in {seen.fails, seen.fails + 1}
         /\ seen'.made = seen.made /\ seen'.stored = seen.stored /\ seen'.saved = seen.saved
         /\ seen'.lossy = seen.lossy /\ seen'.chain = [seen.chain EXCEPT !.functional = FALSE]
<1>. USE DEF AllTypes, dbVars
<1>. DEFINE c == CachedTests(-1, s.numTests)
<1>1. /\ at = "burn" /\ script = <<>> /\ at' = "burning" /\ script' = <<>>
      /\ temp' = temp /\ history' = history /\ output' = output
  BY DEF BurninTest, Ready, Goto
<1>2. s.numTests \in Nat /\ s.numTests - 1 \in Int
  <2>1. s.numTests \in Nat
    BY DEF Memory
  <2>. QED
    BY <2>1
<1>3. c \in Seq(Nat)
  <2>1. -1 \in Int /\ -1 >= -1
    OBVIOUS
  <2>. QED
    BY <1>2, <2>1, CacheType, Zenon
<1>4. \/ s' = [s EXCEPT !.cache = c, !.current = s.numTests - 1]
      \/ \E k \in DOMAIN c : s' = [s EXCEPT !.cache = RemoveAt(c, k), !.current = s.numTests - 1]
  BY DEF BurninTest
<1>5. s.numTests = 0 => c = <<>>
  BY NoTestsToCache
<1>6. seen' = [seen EXCEPT !.chain.functional = FALSE] \/ seen' = [Fail(FALSE) EXCEPT !.chain.functional = FALSE]
  BY DEF BurninTest
<1>. HIDE DEF c
<1>7. PICK q \in Seq(Nat) :
        /\ s' = [s EXCEPT !.cache = q, !.current = s.numTests - 1]
        /\ s.numTests = 0 => q = <<>>
  <2>1. CASE s' = [s EXCEPT !.cache = c, !.current = s.numTests - 1]
    BY <1>3, <1>5, <2>1
  <2>2. CASE \E k \in DOMAIN c : s' = [s EXCEPT !.cache = RemoveAt(c, k), !.current = s.numTests - 1]
    <3>1. PICK k \in DOMAIN c : s' = [s EXCEPT !.cache = RemoveAt(c, k), !.current = s.numTests - 1]
      BY <2>2
    <3>2. RemoveAt(c, k) \in Seq(Nat)
      BY <1>3, RemoveAtType
    <3>3. c # <<>>
      BY EmptyParts
    <3>. QED
      BY <1>5, <3>1, <3>2, <3>3
  <2>. QED
    BY <1>4, <2>1, <2>2
<1>8. s' \in Memory /\ (\E x : s' = [s EXCEPT !.cache = x, !.current = s.numTests - 1]) /\ s'.cache = q
  <2>. DEFINE last == s.numTests - 1
  <2>1. last \in Int /\ s' = [s EXCEPT !.cache = q, !.current = last]
    BY <1>2, <1>7
  <2>2. \E x : s' = [s EXCEPT !.cache = x, !.current = last]
    BY <2>1
  <2>. SUFFICES s' \in Memory /\ s'.cache = q
    BY <2>2
  <2>. HIDE DEF last
  <2>. QED
    BY <2>1, <1>7 DEF Memory
<1>9. PICK o \in {seen, Fail(FALSE)} : seen' = [o EXCEPT !.chain = [o.chain EXCEPT !.functional = FALSE]]
  BY <1>6
<1>10. /\ o \in Seen /\ o.made = seen.made /\ o.stored = seen.stored /\ o.saved = seen.saved
       /\ o.lossy = seen.lossy /\ o.chain = seen.chain /\ o.chain \in Chain
       /\ o.fails \in {seen.fails, seen.fails + 1}
  <2>1. /\ Fail(FALSE) \in Seen /\ Fail(FALSE).made = seen.made /\ Fail(FALSE).stored = seen.stored
        /\ Fail(FALSE).saved = seen.saved /\ Fail(FALSE).lossy = (seen.lossy \/ FALSE)
        /\ Fail(FALSE).chain = seen.chain
    BY FailSeen
  <2>2. Fail(FALSE).fails = seen.fails + 1 /\ seen.lossy \in BOOLEAN /\ seen.chain \in Chain
    BY DEF Fail, Seen
  <2>. QED
    BY <1>9, <2>1, <2>2
<1>11. [o.chain EXCEPT !.functional = FALSE] \in Chain
  BY <1>10 DEF Chain
<1>12. /\ seen' \in Seen /\ seen'.fails = o.fails /\ seen'.made = o.made /\ seen'.stored = o.stored
       /\ seen'.saved = o.saved /\ seen'.lossy = o.lossy
       /\ seen'.chain = [o.chain EXCEPT !.functional = FALSE]
  BY <1>9, <1>10, <1>11 DEF Seen
<1>. QED
  BY <1>1, <1>7, <1>8, <1>10, <1>12

\* It ends: either it leaves everything, or it is about to remove the lines.
LEMMA BurnInEnds ==
  ASSUME AllTypes, TimeIsUp
  PROVE  /\ at = "burning" /\ script = <<>> /\ at' = "done" /\ script' \in {<<>>, <<Clear>>}
         /\ temp' = temp /\ history' = history /\ output' = output /\ s' = s
         /\ seen' \in Seen /\ seen'.fails = seen.fails /\ seen'.made = seen.made
         /\ seen'.stored = seen.stored /\ seen'.saved = seen.saved /\ seen'.chain = seen.chain
         /\ seen.lossy => seen'.lossy
         /\ script' # <<>> /\ ~seen'.lossy => temp = <<>>
<1>. USE DEF AllTypes, dbVars
<1>1. /\ at = "burning" /\ script = <<>> /\ at' = "done"
      /\ temp' = temp /\ history' = history /\ output' = output /\ s' = s
  BY DEF TimeIsUp, Ready, Goto
<1>. DEFINE b == seen.lossy \/ temp # <<>>
<1>2. \/ script' = <<Clear>> /\ seen' = [seen EXCEPT !.lossy = b]
      \/ script' = <<>> /\ seen' = seen
  BY DEF TimeIsUp, Goto, RemoveTemporaryTestData
<1>3. b \in BOOLEAN /\ (seen.lossy => b) /\ (~b => temp = <<>>)
  BY DEF Seen
<1>. HIDE DEF b
<1>4. CASE script' = <<Clear>> /\ seen' = [seen EXCEPT !.lossy = b]
  <2>1. /\ seen' \in Seen /\ seen'.fails = seen.fails /\ seen'.made = seen.made
        /\ seen'.stored = seen.stored /\ seen'.saved = seen.saved /\ seen'.chain = seen.chain
        /\ seen'.lossy = b
    BY <1>3, <1>4 DEF Seen
  <2>. QED
    BY <1>1, <1>3, <1>4, <2>1
<1>5. CASE script' = <<>> /\ seen' = seen
  BY <1>1, <1>5
<1>. QED
  BY <1>2, <1>4, <1>5

\* The history variable keeps its type.
LEMMA SeenTyped ==
  ASSUME AllTypes, [Next]_vars
  PROVE  seen' \in Seen
<1>. USE DEF AllTypes
<1>1. ASSUME Execute PROVE seen' \in Seen
  <2>. DEFINE x == Head(script)
              T == seen.stored \cup {x.row.line}
  <2>1. x \in Statement
    <3>1. script \in Seq(Statement) /\ script # <<>>
      BY <1>1 DEF Execute
    <3>. QED
      BY <3>1
  <2>2. CASE x.op # "insert"
    BY <1>1, <2>2 DEF Execute
  <2>3. CASE x.op = "insert"
    <3>1. seen.stored \subseteq Line
      BY DEF Seen
    <3>2. T \in SUBSET Line
      BY <2>1, <2>3, <3>1, StatementParts
    <3>3. seen' = [seen EXCEPT !.stored = T]
      BY <1>1, <2>3 DEF Execute
    <3>. HIDE DEF T
    <3>. QED
      BY <3>2, <3>3 DEF Seen
  <2>. QED
    BY <2>2, <2>3
<1>2. ASSUME StatementFails PROVE seen' \in Seen
  <2>. DEFINE b == Head(script).op \in {"insert", "print", "append"}
  <2>1. b \in BOOLEAN /\ seen' = Fail(b)
    BY <1>2 DEF StatementFails
  <2>. HIDE DEF b
  <2>. QED
    BY <2>1, FailSeen
<1>3. ASSUME PowerOn PROVE seen' \in Seen
  <2>1. seen.started + 1 \in Nat
    BY DEF Seen
  <2>. QED
    BY <1>3, <2>1 DEF PowerOn, Seen
<1>4. ASSUME PowerOff PROVE seen' \in Seen
  <2>. DEFINE b == seen.lossy \/ Rewriting
  <2>1. b \in BOOLEAN /\ seen' = [seen EXCEPT !.lossy = b]
    <3>1. seen.lossy \in BOOLEAN
      BY DEF Seen
    <3>. QED
      BY <1>4, <3>1 DEF PowerOff, Rewriting
  <2>. HIDE DEF b
  <2>. QED
    BY <2>1 DEF Seen
<1>5. ASSUME SaveUnPlannedTestData PROVE seen' \in Seen
  <2>. DEFINE b == Unplanned # <<>>
  <2>1. b \in BOOLEAN /\ FALSE \in BOOLEAN /\ (seen' = seen \/ seen' = Fail(b) \/ seen' = Fail(FALSE))
    BY <1>5 DEF SaveUnPlannedTestData
  <2>. HIDE DEF b
  <2>. QED
    BY <2>1, FailSeen
<1>6. ASSUME PrintUnplanned PROVE seen' \in Seen
  <2>1. seen' = seen \/ seen' = Fail(TRUE)
    BY <1>6 DEF PrintUnplanned, PrintOut
  <2>. QED
    BY <2>1, FailSeen
<1>7. ASSUME AttemptRestored PROVE seen' \in Seen
  BY <1>7 DEF AttemptRestored, Ready, Goto
<1>8. ASSUME GetBoardAttempt PROVE seen' \in Seen
  <2>1. PICK o \in Seen, c \in Chain, b \in BOOLEAN :
          seen' = [o EXCEPT !.chain = c, !.lossy = b]
    <3>1. NoChain \in Chain /\ seen.saved \in Chain /\ seen.lossy \in BOOLEAN
      BY DEF NoChain, Chain, Seen
    <3>2. Fail(FALSE) \in Seen /\ Fail(FALSE).lossy \in BOOLEAN
      BY <3>1, FailSeen
    <3>3. CASE \E attempt \in Continuable, functional \in BOOLEAN :
                 Chosen(attempt, SequenceForAttempt(attempt), functional, seen.saved, seen)
      <4>. DEFINE b(x) == seen.lossy \/ x
      <4>1. PICK attempt \in Continuable, functional \in BOOLEAN :
              Chosen(attempt, SequenceForAttempt(attempt), functional, seen.saved, seen)
        BY <3>3
      <4>2. seen' = [seen EXCEPT !.chain = seen.saved,
                       !.lossy = b(SequenceForAttempt(attempt) = -1 /\ Kept(TRUE) # <<>>)]
        BY <4>1 DEF Chosen
      <4>3. b(SequenceForAttempt(attempt) = -1 /\ Kept(TRUE) # <<>>) \in BOOLEAN
        BY <3>1
      <4>. HIDE DEF b
      <4>. QED
        BY <3>1, <4>2, <4>3
    <3>4. CASE \E attempt \in Continuable, functional \in BOOLEAN :
                 Chosen(attempt, -1, functional, NoChain, Fail(FALSE))
      <4>. DEFINE b(x) == Fail(FALSE).lossy \/ x
      <4>1. seen' = [Fail(FALSE) EXCEPT !.chain = NoChain, !.lossy = b(-1 = -1 /\ Kept(TRUE) # <<>>)]
        BY <3>4 DEF Chosen
      <4>2. b(-1 = -1 /\ Kept(TRUE) # <<>>) \in BOOLEAN
        BY <3>2
      <4>. HIDE DEF b
      <4>. QED
        BY <3>1, <3>2, <4>1, <4>2
    <3>5. CASE \E attempt \in Attempts, functional \in BOOLEAN :
                 Chosen(attempt, -1, functional, [NoChain EXCEPT !.attempt = attempt], seen)
      <4>. DEFINE b(x) == seen.lossy \/ x
                  c(x) == [NoChain EXCEPT !.attempt = x]
      <4>1. PICK attempt \in Attempts, functional \in BOOLEAN :
              Chosen(attempt, -1, functional, c(attempt), seen)
        BY <3>5
      <4>2. seen' = [seen EXCEPT !.chain = c(attempt), !.lossy = b(-1 = -1 /\ Kept(TRUE) # <<>>)]
        BY <4>1 DEF Chosen
      <4>3. b(-1 = -1 /\ Kept(TRUE) # <<>>) \in BOOLEAN
        BY <3>1
      <4>4. c(attempt) \in Chain
        <5>1. attempt \in Nat
          BY DatabaseAssumption
        <5>. QED
          BY <5>1 DEF NoChain, Chain
      <4>. HIDE DEF b, c
      <4>. QED
        BY <4>2, <4>3, <4>4
    <3>6. CASE seen' = [Fail(FALSE) EXCEPT !.chain = NoChain]
      <4>1. [Fail(FALSE) EXCEPT !.chain = NoChain]
              = [Fail(FALSE) EXCEPT !.chain = NoChain, !.lossy = Fail(FALSE).lossy]
        BY <3>2 DEF Seen
      <4>. QED
        BY <3>1, <3>2, <3>6, <4>1
    <3>. QED
      BY <1>8, <3>3, <3>4, <3>5, <3>6 DEF GetBoardAttempt
  <2>. QED
    BY <2>1 DEF Seen
<1>9. ASSUME GetNumberOfTests PROVE seen' \in Seen
  <2>1. seen' = seen \/ seen' = Fail(FALSE)
    BY <1>9 DEF GetNumberOfTests
  <2>. QED
    BY <2>1, FailSeen
<1>10. ASSUME GetPreviousTestData PROVE seen' \in Seen
  <2>1. PICK t \in {Restored, <<>>} : seen' = seen \/ seen' = Fail(t = <<>>)
    BY <1>10 DEF GetPreviousTestData
  <2>. DEFINE b == t = <<>>
  <2>2. b \in BOOLEAN /\ (seen' = seen \/ seen' = Fail(b))
    BY <2>1
  <2>. HIDE DEF b
  <2>. QED
    BY <2>2, FailSeen
<1>11. ASSUME BurninTest PROVE seen' \in Seen
  BY <1>11, BurnInBegins
<1>12. ASSUME Cache PROVE seen' \in Seen
  <2>1. seen' = seen \/ seen' = Fail(FALSE)
    BY <1>12 DEF Cache
  <2>. QED
    BY <2>1, FailSeen
<1>13. ASSUME StartTest PROVE seen' \in Seen
  <2>. DEFINE R == seen.chain.ran \cup {s.cache[s.next + 1]}
  <2>1. seen.chain \in Chain /\ seen.chain.ran \subseteq Nat
    BY DEF Seen, Chain
  <2>2. s.cache[s.next + 1] \in Nat
    <3>1. s.cache \in Seq(Nat) /\ s.next \in Nat
      BY DEF Memory
    <3>2. s.next < Len(s.cache)
      BY <1>13 DEF StartTest
    <3>. DEFINE q == s.cache
                k == s.next
    <3>3. q \in Seq(Nat) /\ k \in Nat /\ k < Len(q)
      BY <3>1, <3>2
    <3>. HIDE DEF q, k
    <3>4. q[k + 1] \in Nat
      BY <3>3
    <3>. QED
      BY <3>4 DEF q, k
  <2>3. R \in SUBSET Nat
    BY <2>1, <2>2
  <2>4. seen' = [seen EXCEPT !.chain = [seen.chain EXCEPT !.ran = R]]
    BY <1>13 DEF StartTest
  <2>. HIDE DEF R
  <2>5. [seen.chain EXCEPT !.ran = R] \in Chain
    BY <2>1, <2>3 DEF Chain
  <2>. QED
    BY <2>4, <2>5 DEF Seen
<1>14. ASSUME TestRestarts PROVE seen' \in Seen
  BY <1>14 DEF TestRestarts, Testing, Ready
<1>15. ASSUME TestEnds PROVE seen' \in Seen
  BY <1>15 DEF TestEnds, Ready, Goto
<1>16. ASSUME TimeIsUp PROVE seen' \in Seen
  BY <1>16, BurnInEnds
<1>17. ASSUME LastTestEnded PROVE seen' \in Seen
  BY <1>17 DEF LastTestEnded, Ready, Goto
<1>18. ASSUME NEW repeated \in BOOLEAN, ChooseTests(repeated) PROVE seen' \in Seen
  BY <1>18 DEF ChooseTests, Ready, Goto
<1>19. ASSUME NEW kind \in {"test", "diag"}, TestSends(kind) PROVE seen' \in Seen
  <2>1. seen.made \in [{"test", "diag"} -> Nat] /\ seen.made[kind] + 1 \in Nat
    BY DEF Seen
  <2>2. [seen.made EXCEPT ![kind] = seen.made[kind] + 1] \in [{"test", "diag"} -> Nat]
    BY <2>1
  <2>3. seen' = [seen EXCEPT !.made = [seen.made EXCEPT ![kind] = seen.made[kind] + 1]]
    BY <1>19 DEF TestSends
  <2>. QED
    BY <2>2, <2>3 DEF Seen
<1>20. ASSUME BeginPrintout PROVE seen' \in Seen
  BY <1>20 DEF BeginPrintout, Ready, Goto
<1>21. ASSUME Printout PROVE seen' \in Seen
  <2>1. seen' = seen \/ seen' = Fail(TRUE)
    BY <1>21 DEF Printout, PrintOut
  <2>. QED
    BY <2>1, FailSeen
<1>22. ASSUME RemoveData PROVE seen' \in Seen
  BY <1>22 DEF RemoveData, Ready, Goto
<1>23. ASSUME ListenerKeeps PROVE seen' \in Seen
  BY <1>23 DEF ListenerKeeps
<1>24. ASSUME ListenerStores PROVE seen' \in Seen
  <2>1. seen.chain \in Chain
    BY DEF Seen
  <2>. QED
    BY <1>24, <2>1 DEF ListenerStores, Seen
<1>25. CASE UNCHANGED vars
  BY <1>25 DEF vars
<1>. QED
  BY <1>1, <1>2, <1>3, <1>4, <1>5, <1>6, <1>7, <1>8, <1>9, <1>10, <1>11, <1>12, <1>13, <1>14,
       <1>15, <1>16, <1>17, <1>18, <1>19, <1>20, <1>21, <1>22, <1>23, <1>24, <1>25 DEF Next

\* What a process starts with.
LEMMA FreshTyped == Fresh \in Memory /\ Fresh.sequence >= -1
<1>1. <<>> \in Seq(Nat) /\ <<>> \in Seq(Line)
  OBVIOUS
<1>. QED
  BY <1>1 DEF Fresh, Memory

\* The memory of the process keeps its type.
LEMMA MemoryTyped ==
  ASSUME AllTypes, [Next]_vars
  PROVE  s' \in Memory /\ s'.sequence >= -1
<1>. USE DEF AllTypes
<1>1. ASSUME Execute PROVE s' \in Memory /\ s'.sequence >= -1
  BY <1>1 DEF Execute
<1>2. ASSUME StatementFails PROVE s' \in Memory /\ s'.sequence >= -1
  BY <1>2 DEF StatementFails, MayFail, Fail
<1>3. ASSUME PowerOn PROVE s' \in Memory /\ s'.sequence >= -1
  BY <1>3, FreshTyped DEF PowerOn
<1>4. ASSUME PowerOff PROVE s' \in Memory /\ s'.sequence >= -1
  BY <1>4, FreshTyped DEF PowerOff
<1>5. ASSUME SaveUnPlannedTestData PROVE s' \in Memory /\ s'.sequence >= -1
  <2>. DEFINE a == AttemptForSavedTestData(FALSE)
  <2>1. a \in Int
    BY AttemptTypes
  <2>2. s' = s \/ \E v \in {a, -1} : s' = [s EXCEPT !.attempt = v]
    BY <1>5 DEF SaveUnPlannedTestData
  <2>3. -1 \in Int
    OBVIOUS
  <2>. HIDE DEF a
  <2>4. ASSUME NEW v \in {a, -1}, s' = [s EXCEPT !.attempt = v] PROVE s' \in Memory /\ s'.sequence >= -1
    <3>1. v \in Int
      BY <2>1, <2>3
    <3>. QED
      BY <2>4, <3>1 DEF Memory
  <2>. QED
    BY <2>2, <2>4
<1>6. ASSUME PrintUnplanned PROVE s' \in Memory /\ s'.sequence >= -1
  BY <1>6 DEF PrintUnplanned, PrintOut, Ready, Goto, MayFail, Fail
<1>7. ASSUME AttemptRestored PROVE s' \in Memory /\ s'.sequence >= -1
  <2>. DEFINE a == 0
  <2>1. a \in Int /\ s' = [s EXCEPT !.attempt = a]
    BY <1>7 DEF AttemptRestored
  <2>. HIDE DEF a
  <2>. QED
    BY <2>1 DEF Memory
<1>8. ASSUME GetBoardAttempt PROVE s' \in Memory /\ s'.sequence >= -1
  <2>1. \/ s' = s
        \/ \E attempt \in Int, sequence \in Int, functional \in BOOLEAN :
             /\ sequence >= -1
             /\ s' = [s EXCEPT !.attempt = attempt, !.functional = functional, !.sequence = sequence]
    <3>1. CASE \E attempt \in Continuable, functional \in BOOLEAN :
                 Chosen(attempt, SequenceForAttempt(attempt), functional, seen.saved, seen)
      <4>1. PICK attempt \in Continuable, functional \in BOOLEAN :
              Chosen(attempt, SequenceForAttempt(attempt), functional, seen.saved, seen)
        BY <3>1
      <4>2. attempt \in Int /\ SequenceForAttempt(attempt) \in Int /\ SequenceForAttempt(attempt) >= -1
        BY AttemptTypes, SequenceType
      <4>. QED
        BY <4>1, <4>2 DEF Chosen
    <3>2. CASE \E attempt \in Continuable, functional \in BOOLEAN :
                 Chosen(attempt, -1, functional, NoChain, Fail(FALSE))
      <4>1. PICK attempt \in Continuable, functional \in BOOLEAN :
              Chosen(attempt, -1, functional, NoChain, Fail(FALSE))
        BY <3>2
      <4>2. attempt \in Int /\ -1 \in Int /\ -1 >= -1
        BY AttemptTypes
      <4>. QED
        BY <4>1, <4>2 DEF Chosen
    <3>3. CASE \E attempt \in Attempts, functional \in BOOLEAN :
                 Chosen(attempt, -1, functional, [NoChain EXCEPT !.attempt = attempt], seen)
      <4>1. PICK attempt \in Attempts, functional \in BOOLEAN :
              Chosen(attempt, -1, functional, [NoChain EXCEPT !.attempt = attempt], seen)
        BY <3>3
      <4>2. attempt \in Int /\ -1 \in Int /\ -1 >= -1
        BY DatabaseAssumption
      <4>. QED
        BY <4>1, <4>2 DEF Chosen
    <3>. QED
      BY <1>8, <3>1, <3>2, <3>3 DEF GetBoardAttempt
  <2>. QED
    BY <2>1 DEF Memory
<1>9. ASSUME GetNumberOfTests PROVE s' \in Memory /\ s'.sequence >= -1
  <2>. DEFINE n == NumberOfTests(s.attempt)
  <2>1. n \in Nat
    BY TestsType
  <2>2. s' = s \/ s' = [s EXCEPT !.numTests = n]
    BY <1>9 DEF GetNumberOfTests
  <2>. HIDE DEF n
  <2>. QED
    BY <2>1, <2>2 DEF Memory
<1>10. ASSUME GetPreviousTestData PROVE s' \in Memory /\ s'.sequence >= -1
  <2>1. Restored \in Seq(Line) /\ <<>> \in Seq(Line)
    <3>1. TestData(TRUE) \in Seq(Line) /\ <<>> \in Seq(Line)
      BY KeptRows, EmptyParts
    <3>. QED
      BY <3>1 DEF Restored
  <2>2. PICK t \in {Restored, <<>>}, d \in {Restored, <<>>} :
          s' = [s EXCEPT !.testData = t, !.diagData = d]
    BY <1>10 DEF GetPreviousTestData
  <2>3. t \in Seq(Line) /\ d \in Seq(Line)
    BY <2>1
  <2>. QED
    BY <2>2, <2>3 DEF Memory
<1>11. ASSUME BurninTest PROVE s' \in Memory /\ s'.sequence >= -1
  <2>1. s' \in Memory /\ \E c : s' = [s EXCEPT !.cache = c, !.current = s.numTests - 1]
    BY <1>11, BurnInBegins
  <2>. QED
    BY <2>1 DEF Memory
<1>12. ASSUME Cache PROVE s' \in Memory /\ s'.sequence >= -1
  <2>. DEFINE c == CachedTests(s.sequence, s.numTests)
  <2>1. s.sequence \in Int /\ s.numTests \in Nat
    BY DEF Memory
  <2>2. c \in Seq(Nat)
    BY <2>1, CacheType
  <2>3. s' = [s EXCEPT !.cache = c] \/ \E k \in DOMAIN c : s' = [s EXCEPT !.cache = RemoveAt(c, k)]
    BY <1>12 DEF Cache
  <2>. HIDE DEF c
  <2>4. PICK q \in Seq(Nat) : s' = [s EXCEPT !.cache = q]
    BY <2>2, <2>3, RemoveAtType
  <2>. QED
    BY <2>4 DEF Memory
<1>13. ASSUME StartTest PROVE s' \in Memory /\ s'.sequence >= -1
  <2>1. s.next \in Nat /\ s.next \in Int /\ s.next + 1 \in Nat
    BY SMTT(60) DEF Memory
  <2>2. s' = [s EXCEPT !.current = s.next, !.next = s.next + 1]
    BY <1>13 DEF StartTest
  <2>. QED
    BY <2>1, <2>2 DEF Memory
<1>14. ASSUME TestRestarts PROVE s' \in Memory /\ s'.sequence >= -1
  BY <1>14 DEF TestRestarts, Testing, Ready
<1>15. ASSUME TestEnds PROVE s' \in Memory /\ s'.sequence >= -1
  <2>1. s.executions + 1 \in Nat
    BY SMTT(60) DEF Memory
  <2>2. s' = [s EXCEPT !.executions = s.executions + 1]
    BY <1>15 DEF TestEnds
  <2>. QED
    BY <2>1, <2>2 DEF Memory
<1>16. ASSUME TimeIsUp PROVE s' \in Memory /\ s'.sequence >= -1
  BY <1>16 DEF TimeIsUp, Ready, Goto
<1>17. ASSUME LastTestEnded PROVE s' \in Memory /\ s'.sequence >= -1
  BY <1>17 DEF LastTestEnded, Ready, Goto
<1>18. ASSUME NEW repeated \in BOOLEAN, ChooseTests(repeated) PROVE s' \in Memory /\ s'.sequence >= -1
  <2>. DEFINE n == ActiveTests(s.cache, s.numTests, repeated)
  <2>1. n \in Nat /\ s' = [s EXCEPT !.numTests = n]
    <3>1. s.numTests \in Nat /\ Len(s.cache) \in Nat
      <4>1. s.cache \in Seq(Nat) /\ s.numTests \in Nat
        BY DEF Memory
      <4>. QED
        BY <4>1
    <3>. QED
      BY <1>18, <3>1 DEF ChooseTests, ActiveTests
  <2>. HIDE DEF n
  <2>. QED
    BY <2>1 DEF Memory
<1>19. ASSUME NEW kind \in {"test", "diag"}, TestSends(kind) PROVE s' \in Memory /\ s'.sequence >= -1
  BY <1>19 DEF TestSends, Testing, Ready
<1>20. ASSUME BeginPrintout PROVE s' \in Memory /\ s'.sequence >= -1
  BY <1>20 DEF BeginPrintout, Ready, Goto
<1>21. ASSUME Printout PROVE s' \in Memory /\ s'.sequence >= -1
  BY <1>21 DEF Printout, PrintOut, Ready, Goto, MayFail, Fail
<1>22. ASSUME RemoveData PROVE s' \in Memory /\ s'.sequence >= -1
  BY <1>22 DEF RemoveData, Ready, Goto
<1>23. ASSUME ListenerKeeps PROVE s' \in Memory /\ s'.sequence >= -1
  <2>. DEFINE x == Head(output)
  <2>1. x \in Line
    <3>1. output \in Seq(Line \cup {Restart}) /\ output # <<>> /\ x # Restart
      BY <1>23 DEF ListenerKeeps
    <3>2. x \in Line \cup {Restart}
      BY <3>1
    <3>. QED
      BY <3>1, <3>2
  <2>2. s.testData \in Seq(Line) /\ s.diagData \in Seq(Line)
    BY DEF Memory
  <2>3. Append(s.testData, x) \in Seq(Line) /\ Append(s.diagData, x) \in Seq(Line)
    BY <2>1, <2>2, AppendParts
  <2>4. s' = [s EXCEPT !.testData = Append(s.testData, x)] \/ s' = [s EXCEPT !.diagData = Append(s.diagData, x)]
    BY <1>23 DEF ListenerKeeps
  <2>. QED
    BY <2>3, <2>4 DEF Memory
<1>24. ASSUME ListenerStores PROVE s' \in Memory /\ s'.sequence >= -1
  BY <1>24 DEF ListenerStores, Goto
<1>25. CASE UNCHANGED vars
  BY <1>25 DEF vars
<1>. QED
  BY <1>1, <1>2, <1>3, <1>4, <1>5, <1>6, <1>7, <1>8, <1>9, <1>10, <1>11, <1>12, <1>13, <1>14,
       <1>15, <1>16, <1>17, <1>18, <1>19, <1>20, <1>21, <1>22, <1>23, <1>24, <1>25 DEF Next

\* What the tests send keeps its type.
LEMMA OutputTyped ==
  ASSUME AllTypes, [Next]_vars
  PROVE  output' \in Seq(Line \cup {Restart})
<1>. USE DEF AllTypes
<1>1. ASSUME Execute PROVE output' \in Seq(Line \cup {Restart})
  BY <1>1 DEF Execute
<1>2. ASSUME StatementFails PROVE output' \in Seq(Line \cup {Restart})
  BY <1>2 DEF StatementFails, MayFail, Fail
<1>3. ASSUME PowerOn PROVE output' \in Seq(Line \cup {Restart})
  <2>1. output' = <<>>
    BY <1>3 DEF PowerOn
  <2>. QED
    BY <2>1, EmptyParts
<1>4. ASSUME PowerOff PROVE output' \in Seq(Line \cup {Restart})
  <2>1. output' = <<>>
    BY <1>4 DEF PowerOff
  <2>. QED
    BY <2>1, EmptyParts
<1>5. ASSUME SaveUnPlannedTestData PROVE output' \in Seq(Line \cup {Restart})
  BY <1>5 DEF SaveUnPlannedTestData, Ready, Goto, MayFail, Fail
<1>6. ASSUME PrintUnplanned PROVE output' \in Seq(Line \cup {Restart})
  BY <1>6 DEF PrintUnplanned, PrintOut, Ready, Goto, MayFail, Fail
<1>7. ASSUME AttemptRestored PROVE output' \in Seq(Line \cup {Restart})
  BY <1>7 DEF AttemptRestored, Ready, Goto
<1>8. ASSUME GetBoardAttempt PROVE output' \in Seq(Line \cup {Restart})
  BY <1>8 DEF GetBoardAttempt, Ready, Goto, Chosen, MayFail, Fail
<1>9. ASSUME GetNumberOfTests PROVE output' \in Seq(Line \cup {Restart})
  BY <1>9 DEF GetNumberOfTests, Ready, Goto, MayFail, Fail
<1>10. ASSUME GetPreviousTestData PROVE output' \in Seq(Line \cup {Restart})
  BY <1>10 DEF GetPreviousTestData, Ready, Goto, MayFail, Fail
<1>11. ASSUME BurninTest PROVE output' \in Seq(Line \cup {Restart})
  BY <1>11 DEF BurninTest, Ready, Goto
<1>12. ASSUME Cache PROVE output' \in Seq(Line \cup {Restart})
  BY <1>12 DEF Cache, Ready, Goto, MayFail, Fail
<1>13. ASSUME StartTest PROVE output' \in Seq(Line \cup {Restart})
  BY <1>13 DEF StartTest, Ready, Goto
<1>14. ASSUME TestRestarts PROVE output' \in Seq(Line \cup {Restart})
  <2>1. Restart \in Line \cup {Restart} /\ output' = Append(output, Restart)
    BY <1>14 DEF TestRestarts
  <2>. QED
    BY <2>1, AppendParts
<1>15. ASSUME TestEnds PROVE output' \in Seq(Line \cup {Restart})
  BY <1>15 DEF TestEnds, Ready, Goto
<1>16. ASSUME TimeIsUp PROVE output' \in Seq(Line \cup {Restart})
  BY <1>16 DEF TimeIsUp, Ready, Goto
<1>17. ASSUME LastTestEnded PROVE output' \in Seq(Line \cup {Restart})
  BY <1>17 DEF LastTestEnded, Ready, Goto
<1>18. ASSUME NEW repeated \in BOOLEAN, ChooseTests(repeated) PROVE output' \in Seq(Line \cup {Restart})
  BY <1>18 DEF ChooseTests, Ready, Goto
<1>19. ASSUME NEW kind \in {"test", "diag"}, TestSends(kind) PROVE output' \in Seq(Line \cup {Restart})
  <2>. DEFINE x == [kind |-> kind, id |-> seen.made[kind] + 1]
  <2>1. seen.made[kind] + 1 \in Nat
    BY DEF Seen
  <2>2. x \in Line \cup {Restart} /\ output' = Append(output, x)
    BY <1>19, <2>1 DEF TestSends, Line
  <2>. HIDE DEF x
  <2>. QED
    BY <2>2, AppendParts
<1>20. ASSUME BeginPrintout PROVE output' \in Seq(Line \cup {Restart})
  BY <1>20 DEF BeginPrintout, Ready, Goto
<1>21. ASSUME Printout PROVE output' \in Seq(Line \cup {Restart})
  BY <1>21 DEF Printout, PrintOut, Ready, Goto, MayFail, Fail
<1>22. ASSUME RemoveData PROVE output' \in Seq(Line \cup {Restart})
  BY <1>22 DEF RemoveData, Ready, Goto
<1>23. ASSUME ListenerKeeps PROVE output' \in Seq(Line \cup {Restart})
  <2>1. output # <<>> /\ output' = Tail(output)
    BY <1>23 DEF ListenerKeeps
  <2>. QED
    BY <2>1, TailParts
<1>24. ASSUME ListenerStores PROVE output' \in Seq(Line \cup {Restart})
  <2>1. output' = <<>>
    BY <1>24 DEF ListenerStores
  <2>. QED
    BY <2>1, EmptyParts
<1>25. CASE UNCHANGED vars
  BY <1>25 DEF vars
<1>. QED
  BY <1>1, <1>2, <1>3, <1>4, <1>5, <1>6, <1>7, <1>8, <1>9, <1>10, <1>11, <1>12, <1>13, <1>14,
       <1>15, <1>16, <1>17, <1>18, <1>19, <1>20, <1>21, <1>22, <1>23, <1>24, <1>25 DEF Next

\* Scripts that fit.
LEMMA FitsEmpty ==
  ASSUME NEW pc
  PROVE  Fits(pc, <<>>) /\ <<>> \in Seq(Statement)
<1>1. DOMAIN <<>> = {} /\ <<>> \in Seq(Statement)
  BY EmptyParts
<1>. QED
  BY <1>1 DEF Fits, OfInfo, OfStore, OfPrint

\* What is left of a script that fits fits too.
LEMMA FitsTail ==
  ASSUME NEW pc, NEW q \in Seq(Statement), q # <<>>, Fits(pc, q)
  PROVE  Fits(pc, Tail(q)) /\ Tail(q) \in Seq(Statement)
<1>1. /\ Tail(q) \in Seq(Statement) /\ Len(q) \in Nat \ {0} /\ DOMAIN q = 1..Len(q)
      /\ DOMAIN Tail(q) = 1..(Len(q) - 1)
      /\ \A k \in 1..(Len(q) - 1) : Tail(q)[k] = q[k + 1]
      /\ Len(Tail(q)) = Len(q) - 1
  BY TailParts
<1>. DEFINE r == Tail(q)
<1>2. \A k \in DOMAIN r : k + 1 \in DOMAIN q /\ r[k] = q[k + 1] /\ k + 1 > 1
  BY <1>1
<1>3. r # <<>> => 1 \in DOMAIN r
  BY <1>1
<1>. HIDE DEF r
<1>4. OfInfo(q) => OfInfo(r)
  BY <1>2 DEF OfInfo
<1>5. OfStore(q) => OfStore(r)
  BY <1>2, <1>3 DEF OfStore
<1>6. OfPrint(q) => OfPrint(r)
  <2>. SUFFICES ASSUME OfPrint(q), NEW k \in DOMAIN r
                PROVE  /\ r[k].op \in PrintOps /\ (k > 1 => r[k].op # "print")
                       /\ r[k].number = r[1].number /\ r[k].version = r[1].version
                       /\ r[k].op = "execution" => \A j \in DOMAIN r : j > k => r[j].op = "execution"
    BY DEF OfPrint
  <2>1. r # <<>>
    BY EmptyParts
  <2>2. \A j \in DOMAIN r : j > k => j + 1 > k + 1
    BY <1>1 DEF r
  <2>. QED
    BY <1>2, <1>3, <2>1, <2>2 DEF OfPrint
<1>7. q = <<Clear>> => r = <<>>
  BY DEF r
<1>. QED
  BY <1>1, <1>4, <1>5, <1>6, <1>7 DEF Fits, r

\* The scripts that functions start with fit their places.
LEMMA FitsOthers ==
  ASSUME NEW q \in Seq(Statement)
  PROVE  /\ OfInfo(q) => Fits("info", q) /\ Fits("unplanned", q) /\ Fits("number", q)
         /\ Stores(q) => Fits("stored", q) /\ Fits("run", q) /\ Fits("waiting", q)
         /\ OfPrint(q) => Fits("printed", q) /\ Fits("remove", q)
         /\ Fits("done", <<Clear>>) /\ <<Clear>> \in Seq(Statement)
<1>1. OfInfo(q) => Fits("info", q) /\ Fits("unplanned", q) /\ Fits("number", q)
  BY DEF Fits
<1>2. Stores(q) => OfStore(q)
  BY DEF Stores, OfStore, Clear
<1>3. OfStore(q) => Fits("stored", q) /\ Fits("run", q) /\ Fits("waiting", q)
  BY DEF Fits
<1>4. OfPrint(q) => Fits("printed", q) /\ Fits("remove", q)
  BY DEF Fits
<1>5. Fits("done", <<Clear>>) /\ <<Clear>> \in Seq(Statement)
  <2>1. Clear \in Statement
    BY DEF Clear, Statement
  <2>. QED
    BY <2>1 DEF Fits
<1>. QED
  BY <1>1, <1>2, <1>3, <1>4, <1>5

\* The printout of the lines that were kept for no restart.
LEMMA UnplannedPrintout ==
  ASSUME AllTypes, LinesToPrint, PrintUnplanned
  PROVE  /\ history' = history /\ temp' = temp /\ s' = s
         /\ \/ script' = <<>> /\ seen' = Fail(TRUE)
            \/ /\ script' \in Seq(Statement) /\ OfPrint(script') /\ script' # <<>> /\ seen' = seen
               /\ script'[1].op = "print" /\ script'[1].number = Len(history) + 1
               /\ PrintedBy(script') = Range(TestData(FALSE))
<1>. DEFINE t == TestData(FALSE)
            n == 0
            q == SaveTestPrintout(NextNumber, s.attempt, t, n)
<1>1. /\ history' = history /\ temp' = temp /\ s' = s
      /\ (script' = <<>> /\ seen' = Fail(TRUE)) \/ (script' = q /\ seen' = seen)
  BY DEF PrintUnplanned, PrintOut, Goto, dbVars
<1>2. NextNumber \in Nat /\ s.attempt \in Int /\ n \in Nat /\ t \in Seq(Line) /\ t # <<>>
  <2>1. at = "unplanned"
    BY DEF PrintUnplanned, PrintOut, Ready
  <2>2. Kept(FALSE) # <<>>
    BY <2>1 DEF LinesToPrint
  <2>3. TestData(FALSE) \in Seq(Line) /\ TestData(FALSE) # <<>>
    BY <2>2, KeptRows DEF AllTypes
  <2>4. NextNumber \in Nat /\ s.attempt \in Int
    BY DEF NextNumber, Memory, AllTypes
  <2>. QED
    BY <2>3, <2>4
<1>3. /\ q \in Seq(Statement) /\ q # <<>> /\ OfPrint(q)
      /\ q[1].op = "print" /\ q[1].number = NextNumber
      /\ PrintedBy(q) = Range(t) /\ CountsTo(q, n)
  <2>. HIDE DEF t, n
  <2>. QED
    BY <1>2, PrintStatements
<1>. HIDE DEF q
<1>. QED
  BY <1>1, <1>3 DEF NextNumber

\* The printout of the tests.
LEMMA TestsPrintout ==
  ASSUME AllTypes, LinesToPrint, Printout
  PROVE  /\ history' = history /\ temp' = temp /\ s' = s
         /\ \/ script' = <<>> /\ seen' = Fail(TRUE)
            \/ /\ script' \in Seq(Statement) /\ OfPrint(script') /\ script' # <<>> /\ seen' = seen
               /\ script'[1].op = "print" /\ script'[1].number = Len(history) + 1
               /\ PrintedBy(script') = Range(s.testData) /\ CountsTo(script', s.executions)
<1>. DEFINE t == s.testData
            n == s.executions
            q == SaveTestPrintout(NextNumber, s.attempt, t, n)
<1>1. /\ history' = history /\ temp' = temp /\ s' = s
      /\ (script' = <<>> /\ seen' = Fail(TRUE)) \/ (script' = q /\ seen' = seen)
  BY DEF Printout, PrintOut, Goto, dbVars
<1>2. NextNumber \in Nat /\ s.attempt \in Int /\ n \in Nat /\ t \in Seq(Line) /\ t # <<>>
  <2>1. at = "number"
    BY DEF Printout, PrintOut, Ready
  <2>2. s.testData # <<>>
    BY <2>1 DEF LinesToPrint
  <2>3. NextNumber \in Nat
    BY DEF NextNumber, AllTypes
  <2>. QED
    BY <2>2, <2>3 DEF Memory, AllTypes
<1>3. /\ q \in Seq(Statement) /\ q # <<>> /\ OfPrint(q)
      /\ q[1].op = "print" /\ q[1].number = NextNumber
      /\ PrintedBy(q) = Range(t) /\ CountsTo(q, n)
  <2>. HIDE DEF t, n
  <2>. QED
    BY <1>2, PrintStatements
<1>. HIDE DEF q
<1>. QED
  BY <1>1, <1>3 DEF NextNumber

\* The listener keeps a line.
LEMMA Keeping ==
  ASSUME AllTypes, ListenerKeeps
  PROVE  \E x \in Line :
           /\ x = Head(output)
           /\ \/ /\ x.kind = "test" /\ s' = [s EXCEPT !.testData = Append(@, x)] /\ s'.testData # <<>>
                 /\ Range(s'.testData) = Range(s.testData) \cup {x} /\ s'.diagData = s.diagData
              \/ /\ x.kind = "diag" /\ s' = [s EXCEPT !.diagData = Append(@, x)]
                 /\ Range(s'.diagData) = Range(s.diagData) \cup {x} /\ s'.testData = s.testData
<1>. DEFINE x == Head(output)
<1>1. x \in Line
  <2>1. output \in Seq(Line \cup {Restart}) /\ output # <<>> /\ x # Restart
    BY DEF ListenerKeeps, AllTypes
  <2>2. x \in Line \cup {Restart}
    BY <2>1
  <2>. QED
    BY <2>1, <2>2
<1>2. s' = IF x.kind = "test" THEN [s EXCEPT !.testData = Append(@, x)] ELSE [s EXCEPT !.diagData = Append(@, x)]
  BY DEF ListenerKeeps
<1>3. s \in Memory /\ s.testData \in Seq(Line) /\ s.diagData \in Seq(Line)
  BY DEF AllTypes, Memory
<1>4. x.kind = "test" \/ x.kind = "diag"
  BY <1>1 DEF Line
<1>8. x = Head(output)
  OBVIOUS
<1>. HIDE DEF x
<1>5. /\ Range(Append(s.testData, x)) = Range(s.testData) \cup {x} /\ Append(s.testData, x) # <<>>
      /\ Range(Append(s.diagData, x)) = Range(s.diagData) \cup {x}
  BY <1>1, <1>3, AppendParts
<1>6. CASE x.kind = "test"
  <2>1. s' = [s EXCEPT !.testData = Append(@, x)]
    BY <1>2, <1>6
  <2>2. s'.testData = Append(s.testData, x) /\ s'.diagData = s.diagData
    BY <1>3, <2>1 DEF Memory
  <2>. QED
    BY <1>1, <1>5, <1>6, <1>8, <2>1, <2>2
<1>7. CASE x.kind = "diag"
  <2>1. s' = [s EXCEPT !.diagData = Append(@, x)]
    BY <1>2, <1>7
  <2>2. s'.diagData = Append(s.diagData, x) /\ s'.testData = s.testData
    BY <1>3, <2>1 DEF Memory
  <2>. QED
    BY <1>1, <1>5, <1>7, <1>8, <2>1, <2>2
<1>. QED
  BY <1>4, <1>6, <1>7, <1>8

\* Every step leaves a script that fits the place.
LEMMA ScriptTyped ==
  ASSUME AllTypes, Fits(at, script), LinesToPrint, [Next]_vars
  PROVE  /\ at' \in Places /\ script' \in Seq(Statement) /\ Fits(at', script')
<1>. USE DEF AllTypes
<1>1. ASSUME Execute PROVE /\ at' \in Places /\ script' \in Seq(Statement) /\ Fits(at', script')
  <2>1. script # <<>> /\ at' = at /\ (script' = Tail(script) \/ script' = <<>>)
    BY <1>1 DEF Execute, Rest
  <2>. QED
    BY <2>1, FitsTail, FitsEmpty
<1>2. ASSUME StatementFails PROVE /\ at' \in Places /\ script' \in Seq(Statement) /\ Fits(at', script')
  <2>1. script # <<>> /\ at' = at /\ (script' = Tail(script) \/ script' = <<>>)
    BY <1>2 DEF StatementFails, Rest
  <2>. QED
    BY <2>1, FitsTail, FitsEmpty
<1>3. ASSUME PowerOn PROVE /\ at' \in Places /\ script' \in Seq(Statement) /\ Fits(at', script')
  <2>1. at' = "info" /\ script' = DBUpdateBoardInfo(0)
    BY <1>3 DEF PowerOn, Goto
  <2>2. script' \in Seq(Statement) /\ OfInfo(script')
    BY <2>1, InfoStatements
  <2>. QED
    BY <2>1, <2>2, FitsOthers DEF Places
<1>4. ASSUME PowerOff PROVE /\ at' \in Places /\ script' \in Seq(Statement) /\ Fits(at', script')
  <2>1. at' \in Places /\ script' = <<>>
    BY <1>4 DEF PowerOff, Goto, Places
  <2>. QED
    BY <2>1, FitsEmpty
<1>5. ASSUME SaveUnPlannedTestData PROVE /\ at' \in Places /\ script' \in Seq(Statement) /\ Fits(at', script')
  <2>1. \/ at' = "attempt" /\ script' = <<>>
        \/ at' = "unplanned" /\ script' = DBUpdateBoardInfo(AttemptForSavedTestData(FALSE))
        \/ at' = "unplanned" /\ script' = DBUpdateBoardInfo(-1)
    BY <1>5 DEF SaveUnPlannedTestData, Goto
  <2>2. CASE at' = "attempt" /\ script' = <<>>
    BY <2>2, FitsEmpty DEF Places
  <2>3. CASE at' = "unplanned" /\ script' = DBUpdateBoardInfo(AttemptForSavedTestData(FALSE))
    <3>1. AttemptForSavedTestData(FALSE) \in Int
      BY AttemptTypes
    <3>2. script' \in Seq(Statement) /\ OfInfo(script')
      BY <2>3, <3>1, InfoStatements
    <3>. QED
      BY <2>3, <3>2, FitsOthers DEF Places
  <2>4. CASE at' = "unplanned" /\ script' = DBUpdateBoardInfo(-1)
    <3>1. script' \in Seq(Statement) /\ OfInfo(script')
      BY <2>4, InfoStatements
    <3>. QED
      BY <2>4, <3>1, FitsOthers DEF Places
  <2>. QED
    BY <2>1, <2>2, <2>3, <2>4
<1>6. ASSUME PrintUnplanned PROVE /\ at' \in Places /\ script' \in Seq(Statement) /\ Fits(at', script')
  <2>1. at' = "printed"
    BY <1>6 DEF PrintUnplanned, PrintOut, Goto
  <2>2. script' = <<>> \/ (script' \in Seq(Statement) /\ OfPrint(script'))
    BY <1>6, UnplannedPrintout
  <2>. QED
    BY <2>1, <2>2, FitsEmpty, FitsOthers DEF Places
<1>7. ASSUME AttemptRestored PROVE /\ at' \in Places /\ script' \in Seq(Statement) /\ Fits(at', script')
  <2>1. at' \in Places /\ script' = <<>>
    BY <1>7 DEF AttemptRestored, Goto, Places
  <2>. QED
    BY <2>1, FitsEmpty
<1>8. ASSUME GetBoardAttempt PROVE /\ at' \in Places /\ script' \in Seq(Statement) /\ Fits(at', script')
  <2>1. at' \in Places /\ script' = <<>>
    BY <1>8 DEF GetBoardAttempt, Goto, Places
  <2>. QED
    BY <2>1, FitsEmpty
<1>9. ASSUME GetNumberOfTests PROVE /\ at' \in Places /\ script' \in Seq(Statement) /\ Fits(at', script')
  <2>1. at' \in Places /\ script' = <<>>
    BY <1>9 DEF GetNumberOfTests, Goto, Places
  <2>. QED
    BY <2>1, FitsEmpty
<1>10. ASSUME GetPreviousTestData PROVE /\ at' \in Places /\ script' \in Seq(Statement) /\ Fits(at', script')
  <2>1. PICK t \in {Restored, <<>>}, d \in {Restored, <<>>} :
          IF s.functional
          THEN at' = "stored" /\ script' = InsertTemporaryTestData(FALSE, s.attempt, s.sequence, t, d)
          ELSE at' = "burn" /\ script' = <<>>
    BY <1>10 DEF GetPreviousTestData, Goto
  <2>2. t \in Seq(Line) /\ d \in Seq(Line) /\ s.attempt \in Int /\ s.sequence \in Int
    <3>1. TestData(TRUE) \in Seq(Line) /\ <<>> \in Seq(Line)
      BY KeptRows, EmptyParts
    <3>. QED
      BY <2>1, <3>1 DEF Restored, Memory
  <2>3. CASE s.functional
    <3>1. Stores(script')
      BY <2>1, <2>2, <2>3, StoreStatements DEF StoresLines
    <3>2. script' \in Seq(Statement)
      BY <3>1 DEF Stores
    <3>. QED
      BY <2>1, <2>3, <3>1, <3>2, FitsOthers DEF Places
  <2>4. CASE ~s.functional
    BY <2>1, <2>4, FitsEmpty DEF Places
  <2>. QED
    BY <2>3, <2>4
<1>11. ASSUME BurninTest PROVE /\ at' \in Places /\ script' \in Seq(Statement) /\ Fits(at', script')
  <2>1. at' \in Places /\ script' = <<>>
    BY <1>11, BurnInBegins DEF Places
  <2>. QED
    BY <2>1, FitsEmpty
<1>12. ASSUME Cache PROVE /\ at' \in Places /\ script' \in Seq(Statement) /\ Fits(at', script')
  <2>1. at' \in Places /\ script' = <<>>
    BY <1>12 DEF Cache, Goto, Places
  <2>. QED
    BY <2>1, FitsEmpty
<1>13. ASSUME StartTest PROVE /\ at' \in Places /\ script' \in Seq(Statement) /\ Fits(at', script')
  <2>1. at' \in Places /\ script' = <<>>
    BY <1>13 DEF StartTest, Goto, Places
  <2>. QED
    BY <2>1, FitsEmpty
<1>14. ASSUME TestRestarts PROVE /\ at' \in Places /\ script' \in Seq(Statement) /\ Fits(at', script')
  BY <1>14 DEF TestRestarts
<1>15. ASSUME TestEnds PROVE /\ at' \in Places /\ script' \in Seq(Statement) /\ Fits(at', script')
  <2>1. /\ at' = "run"
        /\ script' = InsertTemporaryTestData(FALSE, s.attempt, s.current, s.testData, s.diagData)
    BY <1>15 DEF TestEnds, Goto
  <2>2. s.testData \in Seq(Line) /\ s.diagData \in Seq(Line) /\ s.attempt \in Int /\ s.current \in Int
    BY DEF Memory
  <2>3. Stores(script')
    BY <2>1, <2>2, StoreStatements DEF StoresLines
  <2>4. script' \in Seq(Statement)
    BY <2>3 DEF Stores
  <2>. QED
    BY <2>1, <2>3, <2>4, FitsOthers DEF Places
<1>16. ASSUME TimeIsUp PROVE /\ at' \in Places /\ script' \in Seq(Statement) /\ Fits(at', script')
  <2>1. at' = "done" /\ (script' = <<>> \/ script' = <<Clear>>)
    BY <1>16, BurnInEnds
  <2>. QED
    BY <2>1, FitsEmpty, FitsOthers DEF Places
<1>17. ASSUME LastTestEnded PROVE /\ at' \in Places /\ script' \in Seq(Statement) /\ Fits(at', script')
  <2>1. at' \in Places /\ script' = <<>>
    BY <1>17 DEF LastTestEnded, Goto, Places
  <2>. QED
    BY <2>1, FitsEmpty
<1>18. ASSUME NEW repeated \in BOOLEAN, ChooseTests(repeated) PROVE /\ at' \in Places /\ script' \in Seq(Statement) /\ Fits(at', script')
  <2>1. at' \in Places /\ script' = <<>>
    BY <1>18 DEF ChooseTests, Goto, Places
  <2>. QED
    BY <2>1, FitsEmpty
<1>19. ASSUME NEW kind \in {"test", "diag"}, TestSends(kind) PROVE /\ at' \in Places /\ script' \in Seq(Statement) /\ Fits(at', script')
  BY <1>19 DEF TestSends
<1>20. ASSUME BeginPrintout PROVE /\ at' \in Places /\ script' \in Seq(Statement) /\ Fits(at', script')
  <2>1. (at' = "remove" /\ script' = <<>>) \/ (at' = "number" /\ script' = DBUpdateBoardInfo(s.attempt))
    BY <1>20 DEF BeginPrintout, Goto
  <2>2. CASE at' = "remove" /\ script' = <<>>
    BY <2>2, FitsEmpty DEF Places
  <2>3. CASE at' = "number" /\ script' = DBUpdateBoardInfo(s.attempt)
    <3>1. s.attempt \in Int
      BY DEF Memory
    <3>2. script' \in Seq(Statement) /\ OfInfo(script')
      BY <2>3, <3>1, InfoStatements
    <3>. QED
      BY <2>3, <3>2, FitsOthers DEF Places
  <2>. QED
    BY <2>1, <2>2, <2>3
<1>21. ASSUME Printout PROVE /\ at' \in Places /\ script' \in Seq(Statement) /\ Fits(at', script')
  <2>1. at' = "remove"
    BY <1>21 DEF Printout, PrintOut, Goto
  <2>2. script' = <<>> \/ (script' \in Seq(Statement) /\ OfPrint(script'))
    BY <1>21, TestsPrintout
  <2>. QED
    BY <2>1, <2>2, FitsEmpty, FitsOthers DEF Places
<1>22. ASSUME RemoveData PROVE /\ at' \in Places /\ script' \in Seq(Statement) /\ Fits(at', script')
  <2>1. at' = "done" /\ script' = <<Clear>>
    BY <1>22 DEF RemoveData, Goto, RemoveTemporaryTestData
  <2>. QED
    BY <2>1, FitsEmpty, FitsOthers DEF Places
<1>23. ASSUME ListenerKeeps PROVE /\ at' \in Places /\ script' \in Seq(Statement) /\ Fits(at', script')
  BY <1>23 DEF ListenerKeeps
<1>24. ASSUME ListenerStores PROVE /\ at' \in Places /\ script' \in Seq(Statement) /\ Fits(at', script')
  <2>1. /\ at' = "waiting"
        /\ script' = InsertTemporaryTestData(TRUE, s.attempt, s.current, s.testData, s.diagData)
    BY <1>24 DEF ListenerStores, Goto
  <2>2. s.testData \in Seq(Line) /\ s.diagData \in Seq(Line) /\ s.attempt \in Int /\ s.current \in Int
    BY DEF Memory
  <2>3. Stores(script')
    BY <2>1, <2>2, StoreStatements DEF StoresLines
  <2>4. script' \in Seq(Statement)
    BY <2>3 DEF Stores
  <2>. QED
    BY <2>1, <2>3, <2>4, FitsOthers DEF Places
<1>25. CASE UNCHANGED vars
  BY <1>25 DEF vars
<1>. QED
  BY <1>1, <1>2, <1>3, <1>4, <1>5, <1>6, <1>7, <1>8, <1>9, <1>10, <1>11, <1>12, <1>13, <1>14,
       <1>15, <1>16, <1>17, <1>18, <1>19, <1>20, <1>21, <1>22, <1>23, <1>24, <1>25 DEF Next

-------------------------------------------------------------------------------
\* What a statement does to the tables.
LEMMA FirstOp ==
  ASSUME script \in Seq(Statement), script # <<>>, Fits(at, script), at \in Places
  PROVE  /\ Head(script) = script[1] /\ script[1] \in Statement
         /\ at \in {"info", "unplanned", "number"} => script[1].op \in InfoOps
         /\ at \in {"stored", "run", "waiting"} => script[1].op \in {"clear", "insert"}
         /\ at \in {"printed", "remove"} => script[1].op \in PrintOps
         /\ at = "done" => script[1] = Clear
         /\ at \in {"info", "unplanned", "number", "stored", "run", "waiting", "printed", "remove", "done"}
<1>1. Head(script) = script[1] /\ script[1] \in Statement /\ 1 \in DOMAIN script
  BY TailParts
<1>2. at = "done" => script[1] = Clear
  BY DEF Fits
<1>. QED
  BY <1>1, <1>2 DEF Fits, OfInfo, OfStore, OfPrint, Places

\* The rows of the table.
LEMMA TempAfter ==
  ASSUME temp \in Seq(Row), NEW x \in Statement, Executed(x)
  PROVE  /\ temp' \in Seq(Row)
         /\ x.op = "clear" => temp' = <<>> /\ InTemp' = {}
         /\ x.op = "insert" => InTemp' = InTemp \cup {x.row.line} /\ temp' = Append(temp, x.row)
         /\ x.op \in InfoOps \cup PrintOps => temp' = temp
<1>1. CASE x.op = "clear"
  <2>1. temp' = <<>>
    BY <1>1 DEF Executed
  <2>2. temp' \in Seq(Row) /\ DOMAIN temp' = {}
    BY <2>1, EmptyParts
  <2>. QED
    BY <1>1, <2>1, <2>2 DEF InTemp, InfoOps, PrintOps
<1>2. CASE x.op = "insert"
  <2>1. temp' = Append(temp, x.row) /\ x.row \in Row
    BY <1>2, StatementParts DEF Executed
  <2>2. /\ temp' \in Seq(Row) /\ DOMAIN temp = 1..Len(temp) /\ DOMAIN temp' = 1..(Len(temp) + 1)
        /\ \A k \in 1..Len(temp) : temp'[k] = temp[k]
        /\ temp'[Len(temp) + 1] = x.row /\ Len(temp) \in Nat
    BY <2>1, AppendParts
  <2>3. InTemp' = InTemp \cup {x.row.line}
    <3>1. InTemp' = {temp'[k].line : k \in 1..(Len(temp) + 1)} /\ InTemp = {temp[k].line : k \in 1..Len(temp)}
      BY <2>2 DEF InTemp
    <3>2. 1..(Len(temp) + 1) = 1..Len(temp) \cup {Len(temp) + 1}
      BY <2>2
    <3>3. {temp'[k].line : k \in 1..Len(temp)} = {temp[k].line : k \in 1..Len(temp)}
      BY <2>2
    <3>. QED
      BY <2>2, <3>1, <3>2, <3>3
  <2>. QED
    BY <1>2, <2>1, <2>2, <2>3 DEF InfoOps, PrintOps
<1>3. CASE x.op \in InfoOps \cup PrintOps
  BY <1>3 DEF InfoOps, PrintOps, Executed
<1>. QED
  BY <1>1, <1>2, <1>3, StatementParts

\* The printouts.
LEMMA HistoryAfter ==
  ASSUME history \in Seq(Record), Numbered, NEW x \in Statement, Executed(x),
         x.op = "print" => x.number = Len(history) + 1,
         x.op \in {"append", "execution"} =>
           history # <<>> /\ x.number = Len(history) /\ x.version = history[Len(history)].version
  PROVE  /\ history' \in Seq(Record) /\ Numbered'
         /\ \A k \in DOMAIN history : k < Len(history) => history'[k] = history[k]
         /\ x.op \in {"print", "append"} => Printed' = Printed \cup {x.line}
         /\ x.op \notin {"print", "append"} => Printed' = Printed
         /\ x.op \in PrintOps => /\ history' # <<>> /\ x.number = Len(history')
                                 /\ x.version = history'[Len(history')].version
         /\ x.op \notin PrintOps => history' = history
<1>1. Len(history) \in Nat /\ DOMAIN history = 1..Len(history)
      /\ \A k \in 1..Len(history) : history[k] \in Record /\ history[k].lines \in Seq(Line)
  <2>1. Len(history) \in Nat /\ DOMAIN history = 1..Len(history) /\ \A k \in 1..Len(history) : history[k] \in Record
    OBVIOUS
  <2>. QED
    BY <2>1 DEF Record
<1>2. CASE x.op = "print"
  <2>. DEFINE r == [number |-> x.number, version |-> x.version, lines |-> <<x.line>>, executions |-> 0]
  <2>0. x.number \in Nat /\ x.version \in Int /\ x.line \in Line
    BY <1>2, StatementParts
  <2>1. <<x.line>> \in Seq(Line) /\ Range(<<x.line>>) = {x.line}
    <3>1. DOMAIN <<x.line>> = {1}
      OBVIOUS
    <3>. QED
      BY <2>0, <3>1 DEF Range
  <2>2. r \in Record /\ r.lines = <<x.line>> /\ r.number = x.number /\ r.version = x.version
    BY <2>0, <2>1 DEF Record
  <2>3. history' = Append(history, r)
    BY <1>2 DEF Executed
  <2>. HIDE DEF r
  <2>4. /\ history' \in Seq(Record) /\ Len(history') = Len(history) + 1
        /\ DOMAIN history' = 1..(Len(history) + 1)
        /\ \A k \in 1..Len(history) : history'[k] = history[k]
        /\ history'[Len(history) + 1] = r /\ history' # <<>>
    BY <2>2, <2>3, AppendParts
  <2>5. 1..(Len(history) + 1) = 1..Len(history) \cup {Len(history) + 1}
    BY <1>1
  <2>6. Numbered'
    BY <1>1, <1>2, <2>2, <2>4, <2>5 DEF Numbered
  <2>7. Printed' = Printed \cup {x.line}
    <3>1. Printed = UNION {Range(history[k].lines) : k \in 1..Len(history)}
          /\ Printed' = UNION {Range(history'[k].lines) : k \in 1..Len(history) \cup {Len(history) + 1}}
      BY <1>1, <2>4, <2>5 DEF Printed
    <3>2. \A k \in 1..Len(history) : Range(history'[k].lines) = Range(history[k].lines)
      BY <2>4
    <3>3. Range(history'[Len(history) + 1].lines) = {x.line}
      BY <2>1, <2>2, <2>4
    <3>. QED
      BY <3>1, <3>2, <3>3
  <2>. QED
    BY <1>1, <1>2, <2>2, <2>4, <2>6, <2>7 DEF PrintOps
<1>3. CASE x.op \in {"append", "execution"}
  <2>. DEFINE n == Len(history)
              r == history[n]
              lines == IF x.op = "append" THEN Append(r.lines, x.line) ELSE r.lines
              t == IF x.op = "append" THEN [r EXCEPT !.lines = Append(@, x.line)]
                   ELSE [r EXCEPT !.executions = @ + 1]
  <2>0. x.number = n /\ x.version = r.version /\ n \in 1..n /\ r \in Record /\ n \in Nat
    BY <1>1, <1>3
  <2>1. \A k \in 1..n : Of(history[k], x) <=> k = n
    BY <1>1, <2>0 DEF Of, Numbered
  <2>2. t \in Record /\ t.number = r.number /\ t.version = r.version /\ t.lines = lines
        /\ (x.op = "append" => Range(lines) = Range(r.lines) \cup {x.line})
    <3>1. r.lines \in Seq(Line) /\ r.executions + 1 \in Nat
      BY <2>0 DEF Record
    <3>2. CASE x.op = "append"
      <4>1. x.line \in Line
        BY <3>2, StatementParts
      <4>2. Append(r.lines, x.line) \in Seq(Line)
            /\ Range(Append(r.lines, x.line)) = Range(r.lines) \cup {x.line}
        BY <3>1, <4>1, AppendParts
      <4>3. t = [r EXCEPT !.lines = Append(r.lines, x.line)] /\ lines = Append(r.lines, x.line)
        BY <3>2
      <4>. HIDE DEF r, t, lines
      <4>. QED
        BY <2>0, <4>2, <4>3 DEF Record
    <3>3. CASE x.op # "append"
      <4>1. t = [r EXCEPT !.executions = r.executions + 1] /\ lines = r.lines
        BY <3>3
      <4>. HIDE DEF r, t, lines
      <4>. QED
        BY <2>0, <3>1, <3>3, <4>1 DEF Record
    <3>. QED
      BY <3>2, <3>3
  <2>3. history' = [k \in 1..n |-> IF k = n THEN t ELSE history[k]]
    <3>1. CASE x.op = "append"
      <4>1. history' = [k \in 1..n |-> IF ~Of(history[k], x) THEN history[k]
                                       ELSE [history[k] EXCEPT !.lines = Append(@, x.line)]]
        BY <1>1, <3>1 DEF Executed
      <4>2. \A k \in 1..n : (IF ~Of(history[k], x) THEN history[k]
                             ELSE [history[k] EXCEPT !.lines = Append(@, x.line)])
                             = IF k = n THEN t ELSE history[k]
        BY <2>1, <3>1
      <4>. HIDE DEF t, n
      <4>. QED
        BY <4>1, <4>2
    <3>2. CASE x.op = "execution"
      <4>1. history' = [k \in 1..n |-> IF ~Of(history[k], x) THEN history[k]
                                       ELSE [history[k] EXCEPT !.executions = @ + 1]]
        BY <1>1, <3>2 DEF Executed
      <4>2. \A k \in 1..n : (IF ~Of(history[k], x) THEN history[k]
                             ELSE [history[k] EXCEPT !.executions = @ + 1])
                             = IF k = n THEN t ELSE history[k]
        BY <2>1, <3>2
      <4>. HIDE DEF t, n
      <4>. QED
        BY <4>1, <4>2
    <3>. QED
      BY <1>3, <3>1, <3>2
  <2>. HIDE DEF t, lines
  <2>4. /\ history' \in Seq(Record) /\ Len(history') = n /\ DOMAIN history' = 1..n
        /\ \A k \in 1..n : k # n => history'[k] = history[k]
        /\ history'[n] = t
    <3>1. \A k \in 1..n : (IF k = n THEN t ELSE history[k]) \in Record
      BY <1>1, <2>2
    <3>. HIDE DEF n, r
    <3>. QED
      BY <2>0, <2>3, <3>1
  <2>5. Numbered' /\ history' # <<>>
    <3>1. \A k \in 1..n : history[k].number = k
      BY <1>1 DEF Numbered
    <3>2. t.number = n
      BY <2>0, <2>2, <3>1
    <3>. HIDE DEF n, r
    <3>3. \A k \in 1..n : history'[k].number = k
      BY <2>4, <3>1, <3>2
    <3>4. history' # <<>>
      BY <2>0, <2>4
    <3>. QED
      BY <2>4, <3>3, <3>4 DEF Numbered
  <2>6. Printed' = Printed \cup (IF x.op = "append" THEN {x.line} ELSE {})
    <3>1. Printed = UNION {Range(history[k].lines) : k \in 1..n}
          /\ Printed' = UNION {Range(history'[k].lines) : k \in 1..n}
      BY <1>1, <2>4 DEF Printed
    <3>2. \A k \in 1..n : k # n => Range(history'[k].lines) = Range(history[k].lines)
      BY <2>4
    <3>3. Range(history'[n].lines) = Range(history[n].lines) \cup (IF x.op = "append" THEN {x.line} ELSE {})
      BY <2>2, <2>4, <1>3 DEF lines
    <3>. HIDE DEF n
    <3>. QED
      BY <2>0, <3>1, <3>2, <3>3
  <2>7. \A k \in DOMAIN history : k < Len(history) => history'[k] = history[k]
    <3>1. n = Len(history) /\ DOMAIN history = 1..n /\ n \in Nat
      BY <1>1
    <3>. HIDE DEF n, r
    <3>. SUFFICES ASSUME NEW k \in DOMAIN history, k < Len(history) PROVE history'[k] = history[k]
      OBVIOUS
    <3>2. k \in 1..n /\ k # n
      BY <3>1
    <3>. QED
      BY <2>4, <3>2
  <2>8. x.number = Len(history') /\ x.version = history'[Len(history')].version
    <3>. HIDE DEF n, r
    <3>. QED
      BY <2>0, <2>2, <2>4
  <2>9. x.op \in PrintOps
    BY <1>3 DEF PrintOps
  <2>10. x.op = "append" => Printed' = Printed \cup {x.line}
    BY <2>6
  <2>11. x.op # "append" => Printed' = Printed
    BY <2>6
  <2>. HIDE DEF n, r
  <2>. QED
    BY <1>3, <2>4, <2>5, <2>7, <2>8, <2>9, <2>10, <2>11
<1>4. CASE x.op \notin PrintOps
  <2>1. history' = history
    BY <1>4 DEF PrintOps, Executed
  <2>. QED
    BY <1>4, <2>1 DEF PrintOps, Numbered, Printed
<1>. QED
  BY <1>2, <1>3, <1>4 DEF PrintOps

\* Both, of the statement that is next.
LEMMA Executing ==
  ASSUME PrintIInv, Execute
  PROVE  /\ script[1] \in Statement /\ script' = Tail(script) /\ script # <<>>
         /\ temp' \in Seq(Row)
         /\ script[1].op = "clear" => temp' = <<>> /\ InTemp' = {}
         /\ script[1].op = "insert" =>
              InTemp' = InTemp \cup {script[1].row.line} /\ temp' = Append(temp, script[1].row)
         /\ script[1].op \in InfoOps \cup PrintOps => temp' = temp
         /\ history' \in Seq(Record) /\ Numbered'
         /\ \A k \in DOMAIN history : k < Len(history) => history'[k] = history[k]
         /\ script[1].op \in {"print", "append"} => Printed' = Printed \cup {script[1].line}
         /\ script[1].op \notin {"print", "append"} => Printed' = Printed
         /\ script[1].op \in PrintOps => /\ history' # <<>> /\ script[1].number = Len(history')
                                        /\ script[1].version = history'[Len(history')].version
         /\ script[1].op \notin PrintOps => history' = history
<1>. USE DEF PrintIInv, AllTypes, ScriptFits
<1>1. /\ script # <<>> /\ script[1] \in Statement /\ Executed(script[1]) /\ script' = Tail(script)
      /\ script[1].op \in PrintOps => at \in {"printed", "remove"}
  <2>1. script # <<>> /\ Executed(Head(script)) /\ script' = Tail(script)
    BY DEF Execute, Rest
  <2>2. script[1].op \in PrintOps => at \in {"printed", "remove"}
    BY <2>1, FirstOp DEF InfoOps, PrintOps, Clear
  <2>. QED
    BY <2>1, <2>2, FirstOp
<1>. DEFINE x == script[1]
<1>2. /\ x.op = "print" => x.number = Len(history) + 1
      /\ x.op \in {"append", "execution"} =>
           history # <<>> /\ x.number = Len(history) /\ x.version = history[Len(history)].version
  BY <1>1 DEF OfLast, PrintOps
<1>3. x \in Statement /\ Executed(x)
  BY <1>1
<1>. HIDE DEF x
<1>4. /\ temp' \in Seq(Row)
      /\ x.op = "clear" => temp' = <<>> /\ InTemp' = {}
      /\ x.op = "insert" => InTemp' = InTemp \cup {x.row.line} /\ temp' = Append(temp, x.row)
      /\ x.op \in InfoOps \cup PrintOps => temp' = temp
  BY <1>3, TempAfter
<1>5. /\ history' \in Seq(Record) /\ Numbered'
      /\ \A k \in DOMAIN history : k < Len(history) => history'[k] = history[k]
      /\ x.op \in {"print", "append"} => Printed' = Printed \cup {x.line}
      /\ x.op \notin {"print", "append"} => Printed' = Printed
      /\ x.op \in PrintOps => /\ history' # <<>> /\ x.number = Len(history')
                              /\ x.version = history'[Len(history')].version
      /\ x.op \notin PrintOps => history' = history
  BY <1>2, <1>3, HistoryAfter
<1>. QED
  BY <1>1, <1>4, <1>5 DEF x

\* The tables keep their types, and the printouts their numbers.
LEMMA TablesTyped ==
  ASSUME PrintIInv, [Next]_vars
  PROVE  temp' \in Seq(Row) /\ history' \in Seq(Record) /\ Numbered'
<1>1. CASE Execute
  BY <1>1, Executing
<1>2. CASE UNCHANGED <<temp, history>>
  BY <1>2 DEF PrintIInv, AllTypes, Numbered
<1>. QED
  BY <1>1, <1>2, OnlyExecute

\* What is left of a printout goes to the last one, or makes the next.
LEMMA PrintoutGoesOn ==
  ASSUME PrintIInv, [Next]_vars
  PROVE  (at' \in {"printed", "remove"} => OfLast')
<1>. USE DEF dbVars
<1>0. AllTypes /\ Fits(at, script) /\ LinesToPrint /\ (at \in {"printed", "remove"} => OfLast)
  BY DEF PrintIInv, ScriptFits
<1>t. at \in Places /\ script \in Seq(Statement) /\ temp \in Seq(Row) /\ s \in Memory
  BY <1>0 DEF AllTypes
<1>. USE <1>0, <1>t
<1>1. ASSUME Execute PROVE (at' \in {"printed", "remove"} => OfLast')
  <2>. SUFFICES ASSUME at' \in {"printed", "remove"}, script' # <<>> PROVE OfLast'
    BY DEF OfLast
  <2>1. at \in {"printed", "remove"} /\ script # <<>> /\ script' = Tail(script)
    BY <1>1 DEF Execute, Rest
  <2>2. script[1].op \in PrintOps /\ OfPrint(script)
    BY <2>1, FirstOp DEF Fits
  <2>3. script'[1] = script[2] /\ 2 \in DOMAIN script
    <3>1. Len(script) \in Nat /\ DOMAIN script = 1..Len(script) /\ Len(script') = Len(script) - 1
          /\ script' \in Seq(Statement)
          /\ \A k \in 1..(Len(script) - 1) : script'[k] = script[k + 1]
      BY <2>1, TailParts
    <3>2. Len(script') >= 1
      BY <3>1
    <3>. QED
      BY <3>1, <3>2
  <2>4. script[2].op # "print" /\ script[2].number = script[1].number /\ script[2].version = script[1].version
    BY <2>2, <2>3 DEF OfPrint
  <2>5. history' # <<>> /\ script[1].number = Len(history') /\ script[1].version = history'[Len(history')].version
    BY <1>1, <2>2, Executing
  <2>. QED
    BY <2>3, <2>4, <2>5 DEF OfLast
<1>2. ASSUME StatementFails PROVE (at' \in {"printed", "remove"} => OfLast')
  <2>. SUFFICES ASSUME at' \in {"printed", "remove"} PROVE script' = <<>>
    BY DEF OfLast
  <2>1. at \in {"printed", "remove"} /\ script # <<>> /\ script' = Rest(script, FALSE)
    BY <1>2 DEF StatementFails
  <2>2. Head(script).op \in PrintOps
    BY <2>1, FirstOp
  <2>. QED
    BY <2>1, <2>2 DEF Rest, Clear, PrintOps
<1>3. ASSUME PowerOn PROVE (at' \in {"printed", "remove"} => OfLast')
  BY <1>3 DEF OfLast, PowerOn, Goto
<1>4. ASSUME PowerOff PROVE (at' \in {"printed", "remove"} => OfLast')
  BY <1>4 DEF OfLast, PowerOff, Goto
<1>5. ASSUME SaveUnPlannedTestData PROVE (at' \in {"printed", "remove"} => OfLast')
  BY <1>5 DEF OfLast, SaveUnPlannedTestData, Ready, Goto, MayFail, Fail
<1>6. ASSUME PrintUnplanned PROVE (at' \in {"printed", "remove"} => OfLast')
  <2>1. history' = history /\ (script' = <<>> \/
          (script'[1].op = "print" /\ script'[1].number = Len(history) + 1))
    BY <1>6, UnplannedPrintout
  <2>. QED
    BY <2>1 DEF OfLast
<1>7. ASSUME AttemptRestored PROVE (at' \in {"printed", "remove"} => OfLast')
  BY <1>7 DEF OfLast, AttemptRestored, Ready, Goto
<1>8. ASSUME GetBoardAttempt PROVE (at' \in {"printed", "remove"} => OfLast')
  BY <1>8 DEF OfLast, GetBoardAttempt, Ready, Goto, Chosen, MayFail, Fail
<1>9. ASSUME GetNumberOfTests PROVE (at' \in {"printed", "remove"} => OfLast')
  BY <1>9 DEF OfLast, GetNumberOfTests, Ready, Goto, MayFail, Fail
<1>10. ASSUME GetPreviousTestData PROVE (at' \in {"printed", "remove"} => OfLast')
  BY <1>10 DEF OfLast, GetPreviousTestData, Ready, Goto, MayFail, Fail
<1>11. ASSUME BurninTest PROVE (at' \in {"printed", "remove"} => OfLast')
  BY <1>11 DEF OfLast, BurninTest, Ready, Goto
<1>12. ASSUME Cache PROVE (at' \in {"printed", "remove"} => OfLast')
  BY <1>12 DEF OfLast, Cache, Ready, Goto, MayFail, Fail
<1>13. ASSUME StartTest PROVE (at' \in {"printed", "remove"} => OfLast')
  BY <1>13 DEF OfLast, StartTest, Ready, Goto
<1>14. ASSUME TestRestarts PROVE (at' \in {"printed", "remove"} => OfLast')
  BY <1>14 DEF TestRestarts, OfLast
<1>15. ASSUME TestEnds PROVE (at' \in {"printed", "remove"} => OfLast')
  BY <1>15 DEF OfLast, TestEnds, Ready, Goto
<1>16. ASSUME TimeIsUp PROVE (at' \in {"printed", "remove"} => OfLast')
  BY <1>16 DEF OfLast, TimeIsUp, Ready, Goto
<1>17. ASSUME LastTestEnded PROVE (at' \in {"printed", "remove"} => OfLast')
  BY <1>17 DEF OfLast, LastTestEnded, Ready, Goto
<1>18. ASSUME NEW repeated \in BOOLEAN, ChooseTests(repeated) PROVE (at' \in {"printed", "remove"} => OfLast')
  BY <1>18 DEF OfLast, ChooseTests, Ready, Goto
<1>19. ASSUME NEW kind \in {"test", "diag"}, TestSends(kind) PROVE (at' \in {"printed", "remove"} => OfLast')
  BY <1>19 DEF TestSends, OfLast
<1>20. ASSUME BeginPrintout PROVE (at' \in {"printed", "remove"} => OfLast')
  BY <1>20 DEF OfLast, BeginPrintout, Ready, Goto
<1>21. ASSUME Printout PROVE (at' \in {"printed", "remove"} => OfLast')
  <2>1. history' = history /\ (script' = <<>> \/
          (script'[1].op = "print" /\ script'[1].number = Len(history) + 1))
    BY <1>21, TestsPrintout
  <2>. QED
    BY <2>1 DEF OfLast
<1>22. ASSUME RemoveData PROVE (at' \in {"printed", "remove"} => OfLast')
  BY <1>22 DEF OfLast, RemoveData, Ready, Goto
<1>23. ASSUME ListenerKeeps PROVE (at' \in {"printed", "remove"} => OfLast')
  BY <1>23 DEF ListenerKeeps, OfLast
<1>24. ASSUME ListenerStores PROVE (at' \in {"printed", "remove"} => OfLast')
  BY <1>24 DEF OfLast, ListenerStores, Goto
<1>25. CASE UNCHANGED vars
  BY <1>25 DEF vars, OfLast
<1>. QED
  BY <1>1, <1>2, <1>3, <1>4, <1>5, <1>6, <1>7, <1>8, <1>9, <1>10, <1>11, <1>12, <1>13, <1>14,
       <1>15, <1>16, <1>17, <1>18, <1>19, <1>20, <1>21, <1>22, <1>23, <1>24, <1>25 DEF Next

\* Nothing is printed without lines.
LEMMA LinesToPrintKept ==
  ASSUME PrintIInv, [Next]_vars
  PROVE  LinesToPrint'
<1>. USE DEF dbVars
<1>0. AllTypes /\ Fits(at, script) /\ LinesToPrint /\ (at \in {"printed", "remove"} => OfLast)
  BY DEF PrintIInv, ScriptFits
<1>t. at \in Places /\ script \in Seq(Statement) /\ temp \in Seq(Row) /\ s \in Memory
  BY <1>0 DEF AllTypes
<1>. USE <1>0, <1>t
<1>1. ASSUME Execute PROVE LinesToPrint'
  <2>1. at' = at /\ s' = s /\ script # <<>>
    BY <1>1 DEF Execute
  <2>2. at = "unplanned" => temp' = temp
    BY <1>1, <2>1, Executing, FirstOp
  <2>. QED
    BY <2>1, <2>2 DEF LinesToPrint, Kept
<1>2. ASSUME StatementFails PROVE LinesToPrint'
  BY <1>2 DEF StatementFails, LinesToPrint, Kept
<1>3. ASSUME PowerOn PROVE LinesToPrint'
  BY <1>3 DEF LinesToPrint, PowerOn, Goto
<1>4. ASSUME PowerOff PROVE LinesToPrint'
  BY <1>4 DEF LinesToPrint, PowerOff, Goto
<1>5. ASSUME SaveUnPlannedTestData PROVE LinesToPrint'
  <2>1. (at' = "attempt" \/ (at' = "unplanned" /\ Unplanned # <<>>)) /\ temp' = temp
    BY <1>5 DEF SaveUnPlannedTestData, Goto
  <2>. QED
    BY <2>1 DEF LinesToPrint, Unplanned, Kept
<1>6. ASSUME PrintUnplanned PROVE LinesToPrint'
  BY <1>6 DEF LinesToPrint, PrintUnplanned, PrintOut, Ready, Goto, MayFail, Fail
<1>7. ASSUME AttemptRestored PROVE LinesToPrint'
  BY <1>7 DEF LinesToPrint, AttemptRestored, Ready, Goto
<1>8. ASSUME GetBoardAttempt PROVE LinesToPrint'
  BY <1>8 DEF LinesToPrint, GetBoardAttempt, Ready, Goto, Chosen, MayFail, Fail
<1>9. ASSUME GetNumberOfTests PROVE LinesToPrint'
  BY <1>9 DEF LinesToPrint, GetNumberOfTests, Ready, Goto, MayFail, Fail
<1>10. ASSUME GetPreviousTestData PROVE LinesToPrint'
  BY <1>10 DEF LinesToPrint, GetPreviousTestData, Ready, Goto, MayFail, Fail
<1>11. ASSUME BurninTest PROVE LinesToPrint'
  BY <1>11 DEF LinesToPrint, BurninTest, Ready, Goto
<1>12. ASSUME Cache PROVE LinesToPrint'
  BY <1>12 DEF LinesToPrint, Cache, Ready, Goto, MayFail, Fail
<1>13. ASSUME StartTest PROVE LinesToPrint'
  BY <1>13 DEF LinesToPrint, StartTest, Ready, Goto
<1>14. ASSUME TestRestarts PROVE LinesToPrint'
  BY <1>14 DEF TestRestarts, LinesToPrint, Kept
<1>15. ASSUME TestEnds PROVE LinesToPrint'
  BY <1>15 DEF LinesToPrint, TestEnds, Ready, Goto
<1>16. ASSUME TimeIsUp PROVE LinesToPrint'
  BY <1>16 DEF LinesToPrint, TimeIsUp, Ready, Goto
<1>17. ASSUME LastTestEnded PROVE LinesToPrint'
  BY <1>17 DEF LinesToPrint, LastTestEnded, Ready, Goto
<1>18. ASSUME NEW repeated \in BOOLEAN, ChooseTests(repeated) PROVE LinesToPrint'
  BY <1>18 DEF LinesToPrint, ChooseTests, Ready, Goto
<1>19. ASSUME NEW kind \in {"test", "diag"}, TestSends(kind) PROVE LinesToPrint'
  BY <1>19 DEF TestSends, LinesToPrint, Kept
<1>20. ASSUME BeginPrintout PROVE LinesToPrint'
  <2>1. (at' = "remove" \/ (at' = "number" /\ s.testData # <<>>)) /\ s' = s
    BY <1>20 DEF BeginPrintout, Goto
  <2>. QED
    BY <2>1 DEF LinesToPrint
<1>21. ASSUME Printout PROVE LinesToPrint'
  BY <1>21 DEF LinesToPrint, Printout, PrintOut, Ready, Goto, MayFail, Fail
<1>22. ASSUME RemoveData PROVE LinesToPrint'
  BY <1>22 DEF LinesToPrint, RemoveData, Ready, Goto
<1>23. ASSUME ListenerKeeps PROVE LinesToPrint'
  <2>1. at' = at /\ temp' = temp
    BY <1>23 DEF ListenerKeeps
  <2>2. s'.testData = s.testData \/ s'.testData # <<>>
    BY <1>23, Keeping
  <2>. QED
    BY <2>1, <2>2 DEF LinesToPrint, Kept
<1>24. ASSUME ListenerStores PROVE LinesToPrint'
  BY <1>24 DEF LinesToPrint, ListenerStores, Goto
<1>25. CASE UNCHANGED vars
  BY <1>25 DEF vars, LinesToPrint, Kept
<1>. QED
  BY <1>1, <1>2, <1>3, <1>4, <1>5, <1>6, <1>7, <1>8, <1>9, <1>10, <1>11, <1>12, <1>13, <1>14,
       <1>15, <1>16, <1>17, <1>18, <1>19, <1>20, <1>21, <1>22, <1>23, <1>24, <1>25 DEF Next

\* The invariants about types, scripts and printouts hold at first.
LEMMA PrintInit == Init => PrintIInv
<1>. SUFFICES ASSUME Init PROVE PrintIInv
  OBVIOUS
<1>. USE DEF Init, DatabaseInit
<1>1. at \in Places /\ s \in Memory /\ s.sequence >= -1
  BY FreshTyped DEF Places
<1>2. /\ temp \in Seq(Row) /\ history \in Seq(Record) /\ script \in Seq(Statement)
      /\ output \in Seq(Line \cup {Restart}) /\ DOMAIN history = {}
  BY EmptyParts
<1>3. seen \in Seen
  <2>1. NoChain \in Chain
    BY DEF NoChain, Chain
  <2>. QED
    BY <2>1 DEF Seen
<1>4. Fits(at, script)
  BY FitsEmpty
<1>. QED
  BY <1>1, <1>2, <1>3, <1>4 DEF PrintIInv, AllTypes, ScriptFits, Numbered, LinesToPrint

\* Every step keeps them.
LEMMA PrintStep ==
  ASSUME PrintIInv, [Next]_vars
  PROVE  PrintIInv'
<1>1. AllTypes /\ Fits(at, script) /\ LinesToPrint
  BY DEF PrintIInv, ScriptFits
<1>2. seen' \in Seen
  BY <1>1, SeenTyped
<1>3. s' \in Memory /\ s'.sequence >= -1
  BY <1>1, MemoryTyped
<1>4. output' \in Seq(Line \cup {Restart})
  BY <1>1, OutputTyped
<1>5. at' \in Places /\ script' \in Seq(Statement) /\ Fits(at', script')
  BY <1>1, ScriptTyped
<1>6. temp' \in Seq(Row) /\ history' \in Seq(Record) /\ Numbered'
  BY TablesTyped
<1>7. at' \in {"printed", "remove"} => OfLast'
  BY PrintoutGoesOn
<1>8. LinesToPrint'
  BY LinesToPrintKept
<1>9. AllTypes'
  BY <1>2, <1>3, <1>4, <1>5, <1>6 DEF AllTypes
<1>10. ScriptFits'
  BY <1>5, <1>7 DEF ScriptFits
<1>. QED
  BY <1>6, <1>8, <1>9, <1>10 DEF PrintIInv

\* They are invariants.
THEOREM PrintInvariant == Spec => []PrintIInv
<1>1. PrintIInv /\ [Next]_vars => PrintIInv'
  BY PrintStep
<1>. QED
  BY <1>1, PrintInit, PTL DEF Spec

\* A crash, a restart or a failed statement never lets databaseSaveTestPrintout write into a
\* printout that is not the last one.
THEOREM PrintedStaysPrinted == Spec => PrintoutsFinal
<1>1. PrintIInv /\ [Next]_vars =>
        [\A k \in DOMAIN history : k < Len(history) => history'[k] = history[k]]_vars
  <2>. SUFFICES ASSUME PrintIInv, [Next]_vars
                PROVE  \A k \in DOMAIN history : k < Len(history) => history'[k] = history[k]
    OBVIOUS
  <2>1. CASE Execute
    BY <2>1, Executing
  <2>2. CASE UNCHANGED <<temp, history>>
    BY <2>2
  <2>. QED
    BY <2>1, <2>2, OnlyExecute
<1>. QED
  BY <1>1, PrintInvariant, PTL DEF Spec, PrintoutsFinal

-------------------------------------------------------------------------------
\* What the next statements store and print.
LEMMA InFlightIs == InFlight = InsertedBy(script) /\ InFlight' = InsertedBy(script')
  BY DEF InFlight, InsertedBy, Range

\* No statements store and print nothing.
LEMMA OfEmptyScript == InsertedBy(<<>>) = {} /\ PrintedBy(<<>>) = {}
  BY EmptyParts DEF InsertedBy, PrintedBy

\* What the first statement stores or prints, and what the rest does.
LEMMA OfScript ==
  ASSUME NEW q \in Seq(Statement), q # <<>>
  PROVE  /\ InsertedBy(q) = InsertedBy(Tail(q)) \cup (IF q[1].op = "insert" THEN {q[1].row.line} ELSE {})
         /\ PrintedBy(q) = PrintedBy(Tail(q)) \cup (IF q[1].op \in {"print", "append"} THEN {q[1].line} ELSE {})
<1>1. Range(q) = {q[1]} \cup Range(Tail(q))
  BY TailRange
<1>. DEFINE r == Tail(q)
<1>2. Range(q) = {q[1]} \cup Range(r)
  BY <1>1
<1>. HIDE DEF r
<1>3. InsertedBy(q) = InsertedBy(r) \cup (IF q[1].op = "insert" THEN {q[1].row.line} ELSE {})
  BY <1>2 DEF InsertedBy
<1>4. PrintedBy(q) = PrintedBy(r) \cup (IF q[1].op \in {"print", "append"} THEN {q[1].line} ELSE {})
  BY <1>2 DEF PrintedBy
<1>. QED
  BY <1>3, <1>4 DEF r

\* Behind a deletion or an insertion there are insertions only.
LEMMA StoreTail ==
  ASSUME script \in Seq(Statement), script # <<>>, Fits(at, script), at \in Places,
         script[1].op \in {"clear", "insert"}, Tail(script) # <<>>
  PROVE  Tail(script)[1].op = "insert"
<1>1. Len(script) \in Nat /\ DOMAIN script = 1..Len(script) /\ Len(Tail(script)) = Len(script) - 1
      /\ Tail(script) \in Seq(Statement)
      /\ \A k \in 1..(Len(script) - 1) : Tail(script)[k] = script[k + 1]
  BY TailParts
<1>2. Len(Tail(script)) >= 1
  BY <1>1
<1>3. 2 \in DOMAIN script /\ Tail(script)[1] = script[2]
  BY <1>1, <1>2
<1>4. at \in {"stored", "run", "waiting", "done"}
  BY FirstOp DEF InfoOps, PrintOps
<1>5. CASE at = "done"
  <2>1. script = <<Clear>>
    BY <1>5 DEF Fits
  <2>. QED
    BY <1>3, <2>1
<1>6. CASE at # "done"
  BY <1>3, <1>4, <1>6 DEF Fits, OfStore
<1>. QED
  BY <1>5, <1>6

\* A deletion is only the first statement of a script.
LEMMA NoLaterDeletion ==
  ASSUME script \in Seq(Statement), script # <<>>, Fits(at, script), at \in Places, Tail(script) # <<>>
  PROVE  Tail(script)[1] # Clear
<1>1. Len(script) \in Nat /\ DOMAIN script = 1..Len(script) /\ Len(Tail(script)) = Len(script) - 1
      /\ Tail(script) \in Seq(Statement)
      /\ \A k \in 1..(Len(script) - 1) : Tail(script)[k] = script[k + 1]
  BY TailParts
<1>2. Len(Tail(script)) >= 1
  BY <1>1
<1>3. 2 \in DOMAIN script /\ Tail(script)[1] = script[2]
  BY <1>1, <1>2
<1>4. CASE script[1].op \in {"clear", "insert"}
  <2>1. Tail(script)[1].op = "insert"
    BY <1>4, StoreTail
  <2>. QED
    BY <2>1 DEF Clear
<1>5. CASE script[1].op \notin {"clear", "insert"}
  <2>1. at \in {"info", "unplanned", "number", "printed", "remove"}
    BY <1>5, FirstOp DEF Clear
  <2>2. script[2].op \in InfoOps \cup PrintOps
    BY <1>3, <2>1 DEF Fits, OfInfo, OfPrint
  <2>. QED
    BY <1>3, <2>2 DEF Clear, InfoOps, PrintOps
<1>. QED
  BY <1>4, <1>5

\* Behind an execution nothing is printed.
LEMMA NothingMore ==
  ASSUME script \in Seq(Statement), script # <<>>, OfPrint(script), script[1].op = "execution"
  PROVE  PrintedBy(script) = {}
<1>1. Len(script) \in Nat \ {0} /\ DOMAIN script = 1..Len(script)
  BY TailParts
<1>2. \A k \in DOMAIN script : script[k].op = "execution"
  <2>1. 1 \in DOMAIN script
    BY <1>1
  <2>2. \A k \in DOMAIN script : k = 1 \/ k > 1
    BY <1>1
  <2>. QED
    BY <2>1, <2>2 DEF OfPrint
<1>. QED
  BY <1>2 DEF PrintedBy, Range

\* Lines once lost are lost, and only a statement stores one.
LEMMA SeenGrows ==
  ASSUME PrintIInv, [Next]_vars
  PROVE  (seen.lossy => seen'.lossy) /\ (Execute \/ seen'.stored = seen.stored)
<1>. USE DEF dbVars
<1>0. AllTypes /\ Fits(at, script) /\ LinesToPrint /\ at \in Places /\ seen \in Seen
      /\ script \in Seq(Statement) /\ temp \in Seq(Row) /\ s \in Memory
  BY DEF PrintIInv, ScriptFits, AllTypes
<1>. USE <1>0
<1>1. ASSUME Execute PROVE (seen.lossy => seen'.lossy) /\ (Execute \/ seen'.stored = seen.stored)
  <2>1. seen'.lossy = seen.lossy
    BY <1>1 DEF Execute, Seen
  <2>. QED
    BY <1>1, <2>1
<1>2. ASSUME StatementFails PROVE (seen.lossy => seen'.lossy) /\ (Execute \/ seen'.stored = seen.stored)
  <2>. DEFINE b == Head(script).op \in {"insert", "print", "append"}
  <2>1. b \in BOOLEAN /\ seen' = Fail(b)
    BY <1>2 DEF StatementFails
  <2>. HIDE DEF b
  <2>. QED
    BY <2>1, FailSeen
<1>3. ASSUME PowerOn PROVE (seen.lossy => seen'.lossy) /\ (Execute \/ seen'.stored = seen.stored)
  BY <1>3 DEF PowerOn, Seen
<1>4. ASSUME PowerOff PROVE (seen.lossy => seen'.lossy) /\ (Execute \/ seen'.stored = seen.stored)
  <2>1. seen' = [seen EXCEPT !.lossy = @ \/ Rewriting]
    BY <1>4 DEF PowerOff
  <2>. QED
    BY <2>1 DEF Seen
<1>5. ASSUME SaveUnPlannedTestData PROVE (seen.lossy => seen'.lossy) /\ (Execute \/ seen'.stored = seen.stored)
  <2>. DEFINE b == Unplanned # <<>>
  <2>1. b \in BOOLEAN /\ FALSE \in BOOLEAN /\ (seen' = seen \/ seen' = Fail(b) \/ seen' = Fail(FALSE))
    BY <1>5 DEF SaveUnPlannedTestData
  <2>. HIDE DEF b
  <2>. QED
    BY <2>1, FailSeen
<1>6. ASSUME PrintUnplanned PROVE (seen.lossy => seen'.lossy) /\ (Execute \/ seen'.stored = seen.stored)
  <2>1. seen' = seen \/ seen' = Fail(TRUE)
    BY <1>6 DEF PrintUnplanned, PrintOut
  <2>. QED
    BY <2>1, FailSeen
<1>7. ASSUME AttemptRestored PROVE (seen.lossy => seen'.lossy) /\ (Execute \/ seen'.stored = seen.stored)
  BY <1>7 DEF AttemptRestored, Seen
<1>8. ASSUME GetBoardAttempt PROVE (seen.lossy => seen'.lossy) /\ (Execute \/ seen'.stored = seen.stored)
  <2>1. PICK o \in {seen, Fail(FALSE)} :
          \/ \E c, x : seen' = [o EXCEPT !.chain = c, !.lossy = @ \/ x]
          \/ \E c : seen' = [o EXCEPT !.chain = c]
    <3>1. CASE \E attempt \in Continuable, functional \in BOOLEAN :
                 \/ Chosen(attempt, SequenceForAttempt(attempt), functional, seen.saved, seen)
                 \/ Chosen(attempt, -1, functional, NoChain, Fail(FALSE))
      BY <3>1, Zenon DEF Chosen
    <3>2. CASE \E attempt \in Attempts, functional \in BOOLEAN :
                 Chosen(attempt, -1, functional, [NoChain EXCEPT !.attempt = attempt], seen)
      BY <3>2, Zenon DEF Chosen
    <3>3. CASE seen' = [Fail(FALSE) EXCEPT !.chain = NoChain]
      BY <3>3, Zenon
    <3>. QED
      BY <1>8, <3>1, <3>2, <3>3 DEF GetBoardAttempt
  <2>2. o \in Seen /\ o.stored = seen.stored /\ (seen.lossy => o.lossy)
    <3>1. Fail(FALSE) \in Seen /\ Fail(FALSE).stored = seen.stored /\ Fail(FALSE).lossy = (seen.lossy \/ FALSE)
      BY FailSeen
    <3>. QED
      BY <2>1, <3>1
  <2>3. CASE \E c, x : seen' = [o EXCEPT !.chain = c, !.lossy = @ \/ x]
    BY <2>2, <2>3 DEF Seen
  <2>4. CASE \E c : seen' = [o EXCEPT !.chain = c]
    BY <2>2, <2>4 DEF Seen
  <2>. QED
    BY <2>1, <2>3, <2>4
<1>9. ASSUME GetNumberOfTests PROVE (seen.lossy => seen'.lossy) /\ (Execute \/ seen'.stored = seen.stored)
  <2>1. seen' = seen \/ seen' = Fail(FALSE)
    BY <1>9 DEF GetNumberOfTests, PrintOut
  <2>. QED
    BY <2>1, FailSeen
<1>10. ASSUME GetPreviousTestData PROVE (seen.lossy => seen'.lossy) /\ (Execute \/ seen'.stored = seen.stored)
  <2>1. PICK t \in {Restored, <<>>} : seen' = seen \/ seen' = Fail(t = <<>>)
    BY <1>10 DEF GetPreviousTestData
  <2>. DEFINE b == t = <<>>
  <2>2. b \in BOOLEAN /\ (seen' = seen \/ seen' = Fail(b))
    BY <2>1
  <2>. HIDE DEF b
  <2>. QED
    BY <2>2, FailSeen
<1>11. ASSUME BurninTest PROVE (seen.lossy => seen'.lossy) /\ (Execute \/ seen'.stored = seen.stored)
  BY <1>11, BurnInBegins
<1>12. ASSUME Cache PROVE (seen.lossy => seen'.lossy) /\ (Execute \/ seen'.stored = seen.stored)
  <2>1. seen' = seen \/ seen' = Fail(FALSE)
    BY <1>12 DEF Cache, PrintOut
  <2>. QED
    BY <2>1, FailSeen
<1>13. ASSUME StartTest PROVE (seen.lossy => seen'.lossy) /\ (Execute \/ seen'.stored = seen.stored)
  BY <1>13 DEF StartTest, Seen
<1>14. ASSUME TestRestarts PROVE (seen.lossy => seen'.lossy) /\ (Execute \/ seen'.stored = seen.stored)
  BY <1>14 DEF TestRestarts, Seen
<1>15. ASSUME TestEnds PROVE (seen.lossy => seen'.lossy) /\ (Execute \/ seen'.stored = seen.stored)
  BY <1>15 DEF TestEnds, Seen
<1>16. ASSUME TimeIsUp PROVE (seen.lossy => seen'.lossy) /\ (Execute \/ seen'.stored = seen.stored)
  BY <1>16, BurnInEnds
<1>17. ASSUME LastTestEnded PROVE (seen.lossy => seen'.lossy) /\ (Execute \/ seen'.stored = seen.stored)
  BY <1>17 DEF LastTestEnded, Seen
<1>18. ASSUME NEW repeated \in BOOLEAN, ChooseTests(repeated) PROVE (seen.lossy => seen'.lossy) /\ (Execute \/ seen'.stored = seen.stored)
  BY <1>18 DEF ChooseTests, Seen
<1>19. ASSUME NEW kind \in {"test", "diag"}, TestSends(kind) PROVE (seen.lossy => seen'.lossy) /\ (Execute \/ seen'.stored = seen.stored)
  BY <1>19 DEF TestSends, Seen
<1>20. ASSUME BeginPrintout PROVE (seen.lossy => seen'.lossy) /\ (Execute \/ seen'.stored = seen.stored)
  BY <1>20 DEF BeginPrintout, Seen
<1>21. ASSUME Printout PROVE (seen.lossy => seen'.lossy) /\ (Execute \/ seen'.stored = seen.stored)
  <2>1. seen' = seen \/ seen' = Fail(TRUE)
    BY <1>21 DEF Printout, PrintOut
  <2>. QED
    BY <2>1, FailSeen
<1>22. ASSUME RemoveData PROVE (seen.lossy => seen'.lossy) /\ (Execute \/ seen'.stored = seen.stored)
  BY <1>22 DEF RemoveData, Seen
<1>23. ASSUME ListenerKeeps PROVE (seen.lossy => seen'.lossy) /\ (Execute \/ seen'.stored = seen.stored)
  BY <1>23 DEF ListenerKeeps, Seen
<1>24. ASSUME ListenerStores PROVE (seen.lossy => seen'.lossy) /\ (Execute \/ seen'.stored = seen.stored)
  BY <1>24 DEF ListenerStores, Seen
<1>25. CASE UNCHANGED vars
  BY <1>25 DEF vars
<1>. QED
  BY <1>1, <1>2, <1>3, <1>4, <1>5, <1>6, <1>7, <1>8, <1>9, <1>10, <1>11, <1>12, <1>13, <1>14,
       <1>15, <1>16, <1>17, <1>18, <1>19, <1>20, <1>21, <1>22, <1>23, <1>24, <1>25 DEF Next

\* Before an attempt is chosen the memory has nothing of one.
LEMMA FreshKept ==
  ASSUME PrintIInv, FreshAttempt, [Next]_vars
  PROVE  FreshAttempt'
<1>. USE DEF dbVars
<1>0. AllTypes /\ Fits(at, script) /\ LinesToPrint /\ at \in Places /\ seen \in Seen
      /\ script \in Seq(Statement) /\ temp \in Seq(Row) /\ s \in Memory
  BY DEF PrintIInv, ScriptFits, AllTypes
<1>. USE <1>0
<1>1. ASSUME Execute PROVE FreshAttempt'
  BY <1>1 DEF Execute, FreshAttempt
<1>2. ASSUME StatementFails PROVE FreshAttempt'
  BY <1>2 DEF StatementFails, MayFail, Fail, FreshAttempt
<1>3. ASSUME PowerOn PROVE FreshAttempt'
  <2>1. s' = Fresh
    BY <1>3 DEF PowerOn
  <2>. QED
    BY <2>1 DEF FreshAttempt, Fresh
<1>4. ASSUME PowerOff PROVE FreshAttempt'
  BY <1>4 DEF PowerOff, Goto, FreshAttempt
<1>5. ASSUME SaveUnPlannedTestData PROVE FreshAttempt'
  <2>1. /\ at = "info"
        /\ \/ at' = "attempt" /\ s' = s
           \/ at' = "unplanned" /\ \E a : s' = [s EXCEPT !.attempt = a]
    BY <1>5 DEF SaveUnPlannedTestData, Ready, Goto
  <2>2. CASE at' = "attempt" /\ s' = s
    BY <2>1, <2>2 DEF FreshAttempt
  <2>3. CASE at' = "unplanned" /\ \E a : s' = [s EXCEPT !.attempt = a]
    BY <2>1, <2>3 DEF FreshAttempt, Memory
  <2>. QED
    BY <2>1, <2>2, <2>3
<1>6. ASSUME PrintUnplanned PROVE FreshAttempt'
  <2>1. at = "unplanned" /\ at' = "printed" /\ s' = s
    BY <1>6 DEF PrintUnplanned, PrintOut, Ready, Goto
  <2>. QED
    BY <2>1 DEF FreshAttempt
<1>7. ASSUME AttemptRestored PROVE FreshAttempt'
  <2>1. at = "printed" /\ at' = "attempt" /\ s' = [s EXCEPT !.attempt = 0]
    BY <1>7 DEF AttemptRestored, Ready, Goto
  <2>. QED
    BY <2>1 DEF FreshAttempt, Memory
<1>8. ASSUME GetBoardAttempt PROVE FreshAttempt'
  BY <1>8 DEF GetBoardAttempt, Ready, Goto, Chosen, MayFail, Fail, FreshAttempt
<1>9. ASSUME GetNumberOfTests PROVE FreshAttempt'
  BY <1>9 DEF GetNumberOfTests, Ready, Goto, MayFail, Fail, FreshAttempt
<1>10. ASSUME GetPreviousTestData PROVE FreshAttempt'
  BY <1>10 DEF GetPreviousTestData, Ready, Goto, MayFail, Fail, FreshAttempt
<1>11. ASSUME BurninTest PROVE FreshAttempt'
  BY <1>11, BurnInBegins DEF FreshAttempt
<1>12. ASSUME Cache PROVE FreshAttempt'
  BY <1>12 DEF Cache, Ready, Goto, MayFail, Fail, FreshAttempt
<1>13. ASSUME StartTest PROVE FreshAttempt'
  BY <1>13 DEF StartTest, Ready, Goto, FreshAttempt
<1>14. ASSUME TestRestarts PROVE FreshAttempt'
  BY <1>14 DEF TestRestarts, Testing, Ready, FreshAttempt
<1>15. ASSUME TestEnds PROVE FreshAttempt'
  BY <1>15 DEF TestEnds, Ready, Goto, FreshAttempt
<1>16. ASSUME TimeIsUp PROVE FreshAttempt'
  BY <1>16 DEF TimeIsUp, Ready, Goto, FreshAttempt
<1>17. ASSUME LastTestEnded PROVE FreshAttempt'
  BY <1>17 DEF LastTestEnded, Ready, Goto, FreshAttempt
<1>18. ASSUME NEW repeated \in BOOLEAN, ChooseTests(repeated) PROVE FreshAttempt'
  BY <1>18 DEF ChooseTests, Ready, Goto, FreshAttempt
<1>19. ASSUME NEW kind \in {"test", "diag"}, TestSends(kind) PROVE FreshAttempt'
  BY <1>19 DEF TestSends, Testing, Ready, FreshAttempt
<1>20. ASSUME BeginPrintout PROVE FreshAttempt'
  BY <1>20 DEF BeginPrintout, Ready, Goto, FreshAttempt
<1>21. ASSUME Printout PROVE FreshAttempt'
  BY <1>21 DEF Printout, PrintOut, Ready, Goto, MayFail, Fail, FreshAttempt
<1>22. ASSUME RemoveData PROVE FreshAttempt'
  BY <1>22 DEF RemoveData, Ready, Goto, FreshAttempt
<1>23. ASSUME ListenerKeeps PROVE FreshAttempt'
  <2>1. at' = at
    BY <1>23 DEF ListenerKeeps
  <2>2. s'.sequence = s.sequence /\ s'.functional = s.functional /\ s'.numTests = s.numTests
        /\ s'.attempt = s.attempt
    BY <1>23, Keeping DEF Memory
  <2>. QED
    BY <2>1, <2>2 DEF FreshAttempt
<1>24. ASSUME ListenerStores PROVE FreshAttempt'
  BY <1>24 DEF ListenerStores, Goto, FreshAttempt
<1>25. CASE UNCHANGED vars
  BY <1>25 DEF FreshAttempt, vars
<1>. QED
  BY <1>1, <1>2, <1>3, <1>4, <1>5, <1>6, <1>7, <1>8, <1>9, <1>10, <1>11, <1>12, <1>13, <1>14,
       <1>15, <1>16, <1>17, <1>18, <1>19, <1>20, <1>21, <1>22, <1>23, <1>24, <1>25 DEF Next

\* The output is empty until a test runs.
LEMMA QuietKept ==
  ASSUME PrintIInv, Quiet, [Next]_vars
  PROVE  Quiet'
<1>. USE DEF dbVars
<1>0. AllTypes /\ Fits(at, script) /\ LinesToPrint /\ at \in Places /\ seen \in Seen
      /\ script \in Seq(Statement) /\ temp \in Seq(Row) /\ s \in Memory
  BY DEF PrintIInv, ScriptFits, AllTypes
<1>. USE <1>0
<1>1. ASSUME Execute PROVE Quiet'
  BY <1>1 DEF Execute, Quiet, Early
<1>2. ASSUME StatementFails PROVE Quiet'
  BY <1>2 DEF StatementFails, MayFail, Fail, Quiet, Early
<1>3. ASSUME PowerOn PROVE Quiet'
  BY <1>3 DEF PowerOn, Goto, Quiet, Early
<1>4. ASSUME PowerOff PROVE Quiet'
  BY <1>4 DEF PowerOff, Goto, Quiet, Early
<1>5. ASSUME SaveUnPlannedTestData PROVE Quiet'
  BY <1>5 DEF SaveUnPlannedTestData, Ready, Goto, MayFail, Fail, Quiet, Early
<1>6. ASSUME PrintUnplanned PROVE Quiet'
  BY <1>6 DEF PrintUnplanned, PrintOut, Ready, Goto, MayFail, Fail, Quiet, Early
<1>7. ASSUME AttemptRestored PROVE Quiet'
  BY <1>7 DEF AttemptRestored, Ready, Goto, Quiet, Early
<1>8. ASSUME GetBoardAttempt PROVE Quiet'
  BY <1>8 DEF GetBoardAttempt, Ready, Goto, Chosen, MayFail, Fail, Quiet, Early
<1>9. ASSUME GetNumberOfTests PROVE Quiet'
  BY <1>9 DEF GetNumberOfTests, Ready, Goto, MayFail, Fail, Quiet, Early
<1>10. ASSUME GetPreviousTestData PROVE Quiet'
  BY <1>10 DEF GetPreviousTestData, Ready, Goto, MayFail, Fail, Quiet, Early
<1>11. ASSUME BurninTest PROVE Quiet'
  <2>1. /\ at = "burn" /\ at' = "burning" /\ output' = output /\ (s.numTests = 0 => s'.cache = <<>>)
        /\ \E c : s' = [s EXCEPT !.cache = c, !.current = s.numTests - 1]
    BY <1>11, BurnInBegins
  <2>2. s'.numTests = s.numTests
    BY <2>1 DEF Memory
  <2>. QED
    BY <2>1, <2>2 DEF Quiet, Early
<1>12. ASSUME Cache PROVE Quiet'
  BY <1>12 DEF Cache, Ready, Goto, MayFail, Fail, Quiet, Early
<1>13. ASSUME StartTest PROVE Quiet'
  BY <1>13 DEF StartTest, Ready, Goto, Quiet, Early
<1>14. ASSUME TestRestarts PROVE Quiet'
  BY <1>14 DEF TestRestarts, Testing, Ready, Quiet, Early
<1>15. ASSUME TestEnds PROVE Quiet'
  BY <1>15 DEF TestEnds, Ready, Goto, Quiet, Early
<1>16. ASSUME TimeIsUp PROVE Quiet'
  BY <1>16 DEF TimeIsUp, Ready, Goto, Quiet, Early
<1>17. ASSUME LastTestEnded PROVE Quiet'
  BY <1>17 DEF LastTestEnded, Ready, Goto, Quiet, Early
<1>18. ASSUME NEW repeated \in BOOLEAN, ChooseTests(repeated) PROVE Quiet'
  BY <1>18 DEF ChooseTests, Ready, Goto, Quiet, Early
<1>19. ASSUME NEW kind \in {"test", "diag"}, TestSends(kind) PROVE Quiet'
  BY <1>19 DEF TestSends, Testing, Ready, Quiet, Early
<1>20. ASSUME BeginPrintout PROVE Quiet'
  BY <1>20 DEF BeginPrintout, Ready, Goto, Quiet, Early
<1>21. ASSUME Printout PROVE Quiet'
  BY <1>21 DEF Printout, PrintOut, Ready, Goto, MayFail, Fail, Quiet, Early
<1>22. ASSUME RemoveData PROVE Quiet'
  BY <1>22 DEF RemoveData, Ready, Goto, Quiet, Early
<1>23. ASSUME ListenerKeeps PROVE Quiet'
  <2>1. at' = at /\ s'.numTests = s.numTests /\ output # <<>>
    BY <1>23, Keeping DEF ListenerKeeps, Memory
  <2>. QED
    BY <2>1 DEF Quiet
<1>24. ASSUME ListenerStores PROVE Quiet'
  BY <1>24 DEF ListenerStores, Goto, Quiet, Early
<1>25. CASE UNCHANGED vars
  BY <1>25 DEF vars, Quiet, Early
<1>. QED
  BY <1>1, <1>2, <1>3, <1>4, <1>5, <1>6, <1>7, <1>8, <1>9, <1>10, <1>11, <1>12, <1>13, <1>14,
       <1>15, <1>16, <1>17, <1>18, <1>19, <1>20, <1>21, <1>22, <1>23, <1>24, <1>25 DEF Next

\* A function starts when no other has statements left.
LEMMA OneScript ==
  ASSUME PrintIInv, [Next]_vars
  PROVE  Execute \/ StatementFails \/ PowerOff \/ script = <<>> \/ UNCHANGED script
<1>. USE DEF dbVars
<1>0. AllTypes /\ Fits(at, script) /\ LinesToPrint /\ at \in Places /\ seen \in Seen
      /\ script \in Seq(Statement) /\ temp \in Seq(Row) /\ s \in Memory
  BY DEF PrintIInv, ScriptFits, AllTypes
<1>. USE <1>0
<1>1. ASSUME Execute PROVE Execute \/ StatementFails \/ PowerOff \/ script = <<>> \/ UNCHANGED script
  BY <1>1
<1>2. ASSUME StatementFails PROVE Execute \/ StatementFails \/ PowerOff \/ script = <<>> \/ UNCHANGED script
  BY <1>2
<1>3. ASSUME PowerOn PROVE Execute \/ StatementFails \/ PowerOff \/ script = <<>> \/ UNCHANGED script
  BY <1>3 DEF PowerOn, Goto, Fits
<1>4. ASSUME PowerOff PROVE Execute \/ StatementFails \/ PowerOff \/ script = <<>> \/ UNCHANGED script
  BY <1>4
<1>5. ASSUME SaveUnPlannedTestData PROVE Execute \/ StatementFails \/ PowerOff \/ script = <<>> \/ UNCHANGED script
  BY <1>5 DEF SaveUnPlannedTestData, Ready, Goto, MayFail, Fail, Fits
<1>6. ASSUME PrintUnplanned PROVE Execute \/ StatementFails \/ PowerOff \/ script = <<>> \/ UNCHANGED script
  BY <1>6 DEF PrintUnplanned, PrintOut, Ready, Goto, MayFail, Fail, Fits
<1>7. ASSUME AttemptRestored PROVE Execute \/ StatementFails \/ PowerOff \/ script = <<>> \/ UNCHANGED script
  BY <1>7 DEF AttemptRestored, Ready, Goto, Fits
<1>8. ASSUME GetBoardAttempt PROVE Execute \/ StatementFails \/ PowerOff \/ script = <<>> \/ UNCHANGED script
  BY <1>8 DEF GetBoardAttempt, Ready, Goto, Chosen, MayFail, Fail, Fits
<1>9. ASSUME GetNumberOfTests PROVE Execute \/ StatementFails \/ PowerOff \/ script = <<>> \/ UNCHANGED script
  BY <1>9 DEF GetNumberOfTests, Ready, Goto, MayFail, Fail, Fits
<1>10. ASSUME GetPreviousTestData PROVE Execute \/ StatementFails \/ PowerOff \/ script = <<>> \/ UNCHANGED script
  BY <1>10 DEF GetPreviousTestData, Ready, Goto, MayFail, Fail, Fits
<1>11. ASSUME BurninTest PROVE Execute \/ StatementFails \/ PowerOff \/ script = <<>> \/ UNCHANGED script
  BY <1>11 DEF BurninTest, Ready, Goto, Fits
<1>12. ASSUME Cache PROVE Execute \/ StatementFails \/ PowerOff \/ script = <<>> \/ UNCHANGED script
  BY <1>12 DEF Cache, Ready, Goto, MayFail, Fail, Fits
<1>13. ASSUME StartTest PROVE Execute \/ StatementFails \/ PowerOff \/ script = <<>> \/ UNCHANGED script
  BY <1>13 DEF StartTest, Ready, Goto, Fits
<1>14. ASSUME TestRestarts PROVE Execute \/ StatementFails \/ PowerOff \/ script = <<>> \/ UNCHANGED script
  BY <1>14 DEF TestRestarts, Testing, Ready, Fits
<1>15. ASSUME TestEnds PROVE Execute \/ StatementFails \/ PowerOff \/ script = <<>> \/ UNCHANGED script
  BY <1>15 DEF TestEnds, Ready, Goto, Fits
<1>16. ASSUME TimeIsUp PROVE Execute \/ StatementFails \/ PowerOff \/ script = <<>> \/ UNCHANGED script
  BY <1>16 DEF TimeIsUp, Ready, Goto, Fits
<1>17. ASSUME LastTestEnded PROVE Execute \/ StatementFails \/ PowerOff \/ script = <<>> \/ UNCHANGED script
  BY <1>17 DEF LastTestEnded, Ready, Goto, Fits
<1>18. ASSUME NEW repeated \in BOOLEAN, ChooseTests(repeated) PROVE Execute \/ StatementFails \/ PowerOff \/ script = <<>> \/ UNCHANGED script
  BY <1>18 DEF ChooseTests, Ready, Goto, Fits
<1>19. ASSUME NEW kind \in {"test", "diag"}, TestSends(kind) PROVE Execute \/ StatementFails \/ PowerOff \/ script = <<>> \/ UNCHANGED script
  BY <1>19 DEF TestSends, Testing, Ready, Fits
<1>20. ASSUME BeginPrintout PROVE Execute \/ StatementFails \/ PowerOff \/ script = <<>> \/ UNCHANGED script
  BY <1>20 DEF BeginPrintout, Ready, Goto, Fits
<1>21. ASSUME Printout PROVE Execute \/ StatementFails \/ PowerOff \/ script = <<>> \/ UNCHANGED script
  BY <1>21 DEF Printout, PrintOut, Ready, Goto, MayFail, Fail, Fits
<1>22. ASSUME RemoveData PROVE Execute \/ StatementFails \/ PowerOff \/ script = <<>> \/ UNCHANGED script
  BY <1>22 DEF RemoveData, Ready, Goto, Fits
<1>23. ASSUME ListenerKeeps PROVE Execute \/ StatementFails \/ PowerOff \/ script = <<>> \/ UNCHANGED script
  BY <1>23 DEF ListenerKeeps, Fits
<1>24. ASSUME ListenerStores PROVE Execute \/ StatementFails \/ PowerOff \/ script = <<>> \/ UNCHANGED script
  BY <1>24 DEF ListenerStores, Goto, Fits
<1>25. CASE UNCHANGED vars
  BY <1>25 DEF vars
<1>. QED
  BY <1>1, <1>2, <1>3, <1>4, <1>5, <1>6, <1>7, <1>8, <1>9, <1>10, <1>11, <1>12, <1>13, <1>14,
       <1>15, <1>16, <1>17, <1>18, <1>19, <1>20, <1>21, <1>22, <1>23, <1>24, <1>25 DEF Next

\* A line that was stored stays stored, or is about to be put back, or is printed.
LEMMA StoredSafeKept ==
  ASSUME PrintIInv, [Next]_vars, StoredSafe, DeletionSafe, ~seen.lossy, ~seen'.lossy
  PROVE  StoredSafe'
<1>0. AllTypes /\ Fits(at, script) /\ LinesToPrint /\ at \in Places /\ seen \in Seen
      /\ script \in Seq(Statement) /\ temp \in Seq(Row) /\ s \in Memory
  BY DEF PrintIInv, ScriptFits, AllTypes
<1>. USE <1>0
<1>1. ASSUME NEW l \in seen.stored, l.kind = "test"
      PROVE  l \in InTemp \/ l \in Printed \/ (script # <<>> /\ script[1].op = "insert" /\ l \in InFlight)
  <2>1. script # <<>> => Head(script) = script[1]
    BY TailParts
  <2>. QED
    BY <1>1, <2>1 DEF StoredSafe, Rewriting
<1>2. script' # <<>> /\ script'[1].op = "insert" => Rewriting'
  <2>1. script' \in Seq(Statement)
    BY PrintStep DEF PrintIInv, AllTypes
  <2>2. script' # <<>> => Head(script') = script'[1]
    BY <2>1, TailParts
  <2>. QED
    BY <2>2 DEF Rewriting
<1>3. CASE Execute
  <2>1. /\ script # <<>> /\ script' = Tail(script) /\ script[1] \in Statement
    BY <1>3, Executing
  <2>2. /\ InFlight = InFlight' \cup (IF script[1].op = "insert" THEN {script[1].row.line} ELSE {})
        /\ script' = <<>> => InFlight' = {}
    BY <2>1, OfScript, OfEmptyScript, InFlightIs
  <2>3. seen'.stored = IF script[1].op = "insert" THEN seen.stored \cup {script[1].row.line} ELSE seen.stored
    <3>1. Head(script) = script[1]
      BY <2>1, TailParts
    <3>. QED
      BY <1>3, <3>1 DEF Execute, Seen
  <2>4. CASE script[1].op = "clear"
    <3>1. InTemp' = {} /\ Printed' = Printed /\ script[1] = Clear
      BY <1>3, <2>4, Executing, StatementParts
    <3>2. script' # <<>> => script'[1].op = "insert"
      BY <2>1, <2>4, StoreTail
    <3>3. \A l \in seen.stored : l.kind = "test" => l \in InFlight \/ l \in Printed
      BY <1>1, <2>1, <2>4, <3>1 DEF DeletionSafe
    <3>4. \A l \in seen.stored : l.kind = "test" => l \in Printed' \/ (Rewriting' /\ l \in InFlight')
      BY <1>2, <2>2, <2>4, <3>1, <3>2, <3>3
    <3>. QED
      BY <2>3, <2>4, <3>4 DEF StoredSafe
  <2>5. CASE script[1].op = "insert"
    <3>1. InTemp' = InTemp \cup {script[1].row.line} /\ Printed' = Printed
      BY <1>3, <2>5, Executing
    <3>2. script' # <<>> => script'[1].op = "insert"
      BY <2>1, <2>5, StoreTail
    <3>3. \A l \in InFlight : l = script[1].row.line \/ (Rewriting' /\ l \in InFlight')
      BY <1>2, <2>2, <2>5, <3>2
    <3>4. \A l \in seen.stored : l.kind = "test" => l \in InTemp \/ l \in Printed \/ l \in InFlight
      BY <1>1
    <3>. QED
      BY <2>3, <2>5, <3>1, <3>3, <3>4 DEF StoredSafe
  <2>6. CASE script[1].op \notin {"clear", "insert"}
    <3>1. temp' = temp /\ Printed \subseteq Printed'
      BY <1>3, <2>1, <2>6, Executing, StatementParts
    <3>2. InTemp' = InTemp
      BY <3>1 DEF InTemp
    <3>. QED
      BY <1>1, <2>3, <2>6, <3>1, <3>2 DEF StoredSafe
  <2>. QED
    BY <2>4, <2>5, <2>6
<1>4. CASE ~Execute
  <2>1. /\ seen'.stored = seen.stored /\ InTemp' = InTemp /\ Printed' = Printed
    BY <1>4, SeenGrows, OnlyExecute DEF InTemp, Printed
  <2>2. CASE UNCHANGED script
    BY <1>1, <1>2, <2>1, <2>2, InFlightIs DEF StoredSafe
  <2>3. CASE ~(script # <<>> /\ script[1].op = "insert")
    BY <1>1, <2>1, <2>3 DEF StoredSafe
  <2>4. CASE StatementFails
    <3>1. script # <<>> /\ Head(script) = script[1] /\ seen' = Fail(script[1].op \in {"insert", "print", "append"})
      BY <2>4, TailParts DEF StatementFails
    <3>2. script[1].op # "insert"
      <4>. DEFINE b == script[1].op \in {"insert", "print", "append"}
      <4>1. b \in BOOLEAN /\ seen' = Fail(b)
        BY <3>1
      <4>2. ~b
        <5>. HIDE DEF b
        <5>. QED
          BY <4>1, FailSeen
      <4>. QED
        BY <4>2
    <3>. QED
      BY <2>3, <3>2
  <2>5. CASE PowerOff
    <3>1. ~Rewriting
      BY <2>5 DEF PowerOff, Seen
    <3>2. script # <<>> => Head(script) = script[1]
      BY TailParts
    <3>. QED
      BY <2>3, <3>1, <3>2 DEF Rewriting
  <2>6. CASE script = <<>>
    BY <2>3, <2>6
  <2>. QED
    BY <1>4, <2>2, <2>4, <2>5, <2>6, OneScript
<1>. QED
  BY <1>3, <1>4

\* What a printout has or will have it keeps, unless a statement that prints a line fails.
LEMMA PrintingGoesOn ==
  ASSUME PrintIInv, [Next]_vars, Execute \/ StatementFails, at \in {"printed", "remove"}, ~seen.lossy, ~seen'.lossy
  PROVE  at' = at /\ temp' = temp /\ Printed \cup ToPrint \subseteq Printed' \cup ToPrint'
<1>0. AllTypes /\ Fits(at, script) /\ LinesToPrint /\ at \in Places /\ seen \in Seen
      /\ script \in Seq(Statement) /\ temp \in Seq(Row) /\ s \in Memory
  BY DEF PrintIInv, ScriptFits, AllTypes
<1>. USE <1>0
<1>1. CASE Execute
  <2>1. /\ script # <<>> /\ script' = Tail(script) /\ script[1] \in Statement /\ script[1].op \in PrintOps
        /\ at' = at
    BY <1>1, FirstOp, Executing DEF Execute
  <2>2. temp' = temp
    BY <1>1, <2>1, Executing
  <2>3. PrintedBy(script) = PrintedBy(script')
          \cup (IF script[1].op \in {"print", "append"} THEN {script[1].line} ELSE {})
    BY <2>1, OfScript
  <2>4. script[1].op \in {"print", "append"} => Printed' = Printed \cup {script[1].line}
    BY <1>1, Executing
  <2>5. script[1].op \notin {"print", "append"} => Printed' = Printed
    BY <1>1, Executing
  <2>. QED
    BY <2>1, <2>2, <2>3, <2>4, <2>5 DEF ToPrint
<1>2. CASE StatementFails
  <2>1. /\ script # <<>> /\ Head(script) = script[1] /\ at' = at /\ temp' = temp /\ history' = history
        /\ seen' = Fail(script[1].op \in {"insert", "print", "append"})
    BY <1>2, TailParts DEF StatementFails, dbVars
  <2>2. script[1].op \notin {"insert", "print", "append"}
    <3>. DEFINE b == script[1].op \in {"insert", "print", "append"}
    <3>1. b \in BOOLEAN /\ seen' = Fail(b)
      BY <2>1
    <3>2. ~b
      <4>. HIDE DEF b
      <4>. QED
        BY <3>1, FailSeen
    <3>. QED
      BY <3>2
  <2>3. script[1].op = "execution" /\ OfPrint(script)
    BY <2>1, <2>2, FirstOp DEF PrintOps, Fits
  <2>4. ToPrint = {}
    BY <2>1, <2>3, NothingMore DEF ToPrint
  <2>5. Printed' = Printed
    BY <2>1 DEF Printed
  <2>. QED
    BY <2>1, <2>4, <2>5
<1>. QED
  BY <1>1, <1>2

\* Lines that were kept for no restart are printed before an attempt is chosen.
LEMMA UnplannedPrintedKept ==
  ASSUME PrintIInv, UnplannedPrinted, ~seen.lossy, ~seen'.lossy, [Next]_vars
  PROVE  UnplannedPrinted'
<1>. USE DEF dbVars
<1>0. AllTypes /\ Fits(at, script) /\ LinesToPrint /\ at \in Places /\ seen \in Seen
      /\ script \in Seq(Statement) /\ temp \in Seq(Row) /\ s \in Memory
  BY DEF PrintIInv, ScriptFits, AllTypes
<1>. USE <1>0
<1>1. ASSUME Execute PROVE UnplannedPrinted'
  <2>. SUFFICES ASSUME at' \in {"printed", "attempt", "tests", "restore"} PROVE UnplannedPrinted'
    BY DEF UnplannedPrinted
  <2>1. at' = at /\ script # <<>>
    BY <1>1 DEF Execute
  <2>2. at = "printed"
    BY <2>1, FirstOp
  <2>3. temp' = temp /\ Printed \cup ToPrint \subseteq Printed' \cup ToPrint'
    BY <1>1, <2>2, PrintingGoesOn
  <2>. QED
    BY <2>1, <2>2, <2>3 DEF UnplannedPrinted
<1>2. ASSUME StatementFails PROVE UnplannedPrinted'
  <2>. SUFFICES ASSUME at' \in {"printed", "attempt", "tests", "restore"} PROVE UnplannedPrinted'
    BY DEF UnplannedPrinted
  <2>1. at' = at /\ script # <<>>
    BY <1>2 DEF StatementFails
  <2>2. at = "printed"
    BY <2>1, FirstOp
  <2>3. temp' = temp /\ Printed \cup ToPrint \subseteq Printed' \cup ToPrint'
    BY <1>2, <2>2, PrintingGoesOn
  <2>. QED
    BY <2>1, <2>2, <2>3 DEF UnplannedPrinted
<1>3. ASSUME PowerOn PROVE UnplannedPrinted'
  BY <1>3 DEF PowerOn, Goto, UnplannedPrinted
<1>4. ASSUME PowerOff PROVE UnplannedPrinted'
  BY <1>4 DEF PowerOff, Goto, UnplannedPrinted
<1>5. ASSUME SaveUnPlannedTestData PROVE UnplannedPrinted'
  <2>. SUFFICES ASSUME at' \in {"printed", "attempt", "tests", "restore"},
                       NEW k \in DOMAIN temp', ~temp'[k].planned
                PROVE  FALSE
    BY DEF UnplannedPrinted
  <2>1. temp' = temp /\ (Unplanned = <<>> \/ seen' = Fail(Unplanned # <<>>))
    BY <1>5 DEF SaveUnPlannedTestData, Goto
  <2>2. Unplanned # <<>>
    <3>1. k \in DOMAIN temp /\ temp[k].planned \in BOOLEAN /\ ~temp[k].planned
      <4>1. k \in DOMAIN temp /\ temp[k] \in Row
        BY <2>1
      <4>. QED
        BY <2>1, <4>1 DEF Row
    <3>2. temp[k].planned = FALSE
      BY <3>1
    <3>. QED
      BY <3>1, <3>2, KeptRows DEF Unplanned
  <2>. DEFINE b == Unplanned # <<>>
  <2>3. b \in BOOLEAN /\ b /\ seen' = Fail(b)
    BY <2>1, <2>2
  <2>. HIDE DEF b
  <2>. QED
    BY <2>3, FailSeen
<1>6. ASSUME PrintUnplanned PROVE UnplannedPrinted'
  <2>1. temp' = temp /\ (seen' = Fail(TRUE) \/ PrintedBy(script') = Range(TestData(FALSE)))
    BY <1>6, UnplannedPrintout
  <2>2. seen' # Fail(TRUE)
    BY FailSeen
  <2>3. \A k \in DOMAIN temp : ~temp[k].planned => temp[k].planned = FALSE
    <3>1. \A k \in DOMAIN temp : temp[k] \in Row
      OBVIOUS
    <3>. QED
      BY <3>1 DEF Row
  <2>4. \A k \in DOMAIN temp : ~temp[k].planned => temp[k].line \in Range(TestData(FALSE))
    BY <2>3, KeptRows
  <2>. QED
    BY <2>1, <2>2, <2>4 DEF UnplannedPrinted, ToPrint
<1>7. ASSUME AttemptRestored PROVE UnplannedPrinted'
  <2>1. at = "printed" /\ script = <<>> /\ script' = <<>> /\ temp' = temp /\ history' = history
    BY <1>7 DEF AttemptRestored, Ready, Goto
  <2>2. ToPrint = {} /\ ToPrint' = {} /\ Printed' = Printed
    BY <2>1, OfEmptyScript DEF ToPrint, Printed
  <2>. QED
    BY <2>1, <2>2 DEF UnplannedPrinted
<1>8. ASSUME GetBoardAttempt PROVE UnplannedPrinted'
  <2>1. at = "attempt" /\ script = <<>> /\ script' = <<>> /\ temp' = temp /\ history' = history
    BY <1>8 DEF GetBoardAttempt, Ready, Goto
  <2>2. ToPrint = {} /\ ToPrint' = {} /\ Printed' = Printed
    BY <2>1, OfEmptyScript DEF ToPrint, Printed
  <2>. QED
    BY <2>1, <2>2 DEF UnplannedPrinted
<1>9. ASSUME GetNumberOfTests PROVE UnplannedPrinted'
  <2>1. at = "tests" /\ script = <<>> /\ script' = <<>> /\ temp' = temp /\ history' = history
    BY <1>9 DEF GetNumberOfTests, Ready, Goto
  <2>2. ToPrint = {} /\ ToPrint' = {} /\ Printed' = Printed
    BY <2>1, OfEmptyScript DEF ToPrint, Printed
  <2>. QED
    BY <2>1, <2>2 DEF UnplannedPrinted
<1>10. ASSUME GetPreviousTestData PROVE UnplannedPrinted'
  BY <1>10 DEF GetPreviousTestData, Ready, Goto, MayFail, Fail, UnplannedPrinted
<1>11. ASSUME BurninTest PROVE UnplannedPrinted'
  BY <1>11 DEF BurninTest, Ready, Goto, UnplannedPrinted
<1>12. ASSUME Cache PROVE UnplannedPrinted'
  BY <1>12 DEF Cache, Ready, Goto, MayFail, Fail, UnplannedPrinted
<1>13. ASSUME StartTest PROVE UnplannedPrinted'
  BY <1>13 DEF StartTest, Ready, Goto, UnplannedPrinted
<1>14. ASSUME TestRestarts PROVE UnplannedPrinted'
  <2>1. at' = at /\ script' = script /\ temp' = temp /\ history' = history
    BY <1>14 DEF TestRestarts
  <2>2. ToPrint' = ToPrint /\ Printed' = Printed
    BY <2>1 DEF ToPrint, Printed
  <2>. QED
    BY <2>1, <2>2 DEF UnplannedPrinted
<1>15. ASSUME TestEnds PROVE UnplannedPrinted'
  BY <1>15 DEF TestEnds, Ready, Goto, UnplannedPrinted
<1>16. ASSUME TimeIsUp PROVE UnplannedPrinted'
  BY <1>16 DEF TimeIsUp, Ready, Goto, UnplannedPrinted
<1>17. ASSUME LastTestEnded PROVE UnplannedPrinted'
  BY <1>17 DEF LastTestEnded, Ready, Goto, UnplannedPrinted
<1>18. ASSUME NEW repeated \in BOOLEAN, ChooseTests(repeated) PROVE UnplannedPrinted'
  BY <1>18 DEF ChooseTests, Ready, Goto, UnplannedPrinted
<1>19. ASSUME NEW kind \in {"test", "diag"}, TestSends(kind) PROVE UnplannedPrinted'
  <2>1. at' = at /\ script' = script /\ temp' = temp /\ history' = history
    BY <1>19 DEF TestSends
  <2>2. ToPrint' = ToPrint /\ Printed' = Printed
    BY <2>1 DEF ToPrint, Printed
  <2>. QED
    BY <2>1, <2>2 DEF UnplannedPrinted
<1>20. ASSUME BeginPrintout PROVE UnplannedPrinted'
  BY <1>20 DEF BeginPrintout, Ready, Goto, UnplannedPrinted
<1>21. ASSUME Printout PROVE UnplannedPrinted'
  BY <1>21 DEF Printout, PrintOut, Ready, Goto, MayFail, Fail, UnplannedPrinted
<1>22. ASSUME RemoveData PROVE UnplannedPrinted'
  BY <1>22 DEF RemoveData, Ready, Goto, UnplannedPrinted
<1>23. ASSUME ListenerKeeps PROVE UnplannedPrinted'
  <2>1. at' = at /\ script' = script /\ temp' = temp /\ history' = history
    BY <1>23 DEF ListenerKeeps
  <2>2. ToPrint' = ToPrint /\ Printed' = Printed
    BY <2>1 DEF ToPrint, Printed
  <2>. QED
    BY <2>1, <2>2 DEF UnplannedPrinted
<1>24. ASSUME ListenerStores PROVE UnplannedPrinted'
  BY <1>24 DEF ListenerStores, Goto, UnplannedPrinted
<1>25. CASE UNCHANGED vars
  <2>1. at' = at /\ script' = script /\ temp' = temp /\ history' = history
    BY <1>25 DEF vars
  <2>2. ToPrint' = ToPrint /\ Printed' = Printed
    BY <2>1 DEF ToPrint, Printed
  <2>. QED
    BY <2>1, <2>2 DEF UnplannedPrinted
<1>. QED
  BY <1>1, <1>2, <1>3, <1>4, <1>5, <1>6, <1>7, <1>8, <1>9, <1>10, <1>11, <1>12, <1>13, <1>14,
       <1>15, <1>16, <1>17, <1>18, <1>19, <1>20, <1>21, <1>22, <1>23, <1>24, <1>25 DEF Next

\* Everything is printed before the table is cleared at the end.
LEMMA AllPrintedKept ==
  ASSUME PrintIInv, AllPrinted, MemoryHasAll, ~seen.lossy, ~seen'.lossy, [Next]_vars
  PROVE  AllPrinted'
<1>. USE DEF dbVars
<1>0. AllTypes /\ Fits(at, script) /\ LinesToPrint /\ at \in Places /\ seen \in Seen
      /\ script \in Seq(Statement) /\ temp \in Seq(Row) /\ s \in Memory
  BY DEF PrintIInv, ScriptFits, AllTypes
<1>. USE <1>0
<1>1. ASSUME Execute PROVE AllPrinted'
  <2>. SUFFICES ASSUME at' = "remove" PROVE AllPrinted'
    BY DEF AllPrinted
  <2>1. at = "remove"
    BY <1>1 DEF Execute
  <2>2. temp' = temp /\ Printed \cup ToPrint \subseteq Printed' \cup ToPrint'
    BY <1>1, <2>1, PrintingGoesOn
  <2>3. InTemp' = InTemp
    BY <2>2 DEF InTemp
  <2>. QED
    BY <2>1, <2>2, <2>3 DEF AllPrinted
<1>2. ASSUME StatementFails PROVE AllPrinted'
  <2>. SUFFICES ASSUME at' = "remove" PROVE AllPrinted'
    BY DEF AllPrinted
  <2>1. at = "remove"
    BY <1>2 DEF StatementFails
  <2>2. temp' = temp /\ Printed \cup ToPrint \subseteq Printed' \cup ToPrint'
    BY <1>2, <2>1, PrintingGoesOn
  <2>3. InTemp' = InTemp
    BY <2>2 DEF InTemp
  <2>. QED
    BY <2>1, <2>2, <2>3 DEF AllPrinted
<1>3. ASSUME PowerOn PROVE AllPrinted'
  BY <1>3 DEF PowerOn, Goto, AllPrinted
<1>4. ASSUME PowerOff PROVE AllPrinted'
  BY <1>4 DEF PowerOff, Goto, AllPrinted
<1>5. ASSUME SaveUnPlannedTestData PROVE AllPrinted'
  BY <1>5 DEF SaveUnPlannedTestData, Ready, Goto, MayFail, Fail, AllPrinted
<1>6. ASSUME PrintUnplanned PROVE AllPrinted'
  BY <1>6 DEF PrintUnplanned, PrintOut, Ready, Goto, MayFail, Fail, AllPrinted
<1>7. ASSUME AttemptRestored PROVE AllPrinted'
  BY <1>7 DEF AttemptRestored, Ready, Goto, AllPrinted
<1>8. ASSUME GetBoardAttempt PROVE AllPrinted'
  BY <1>8 DEF GetBoardAttempt, Ready, Goto, Chosen, MayFail, Fail, AllPrinted
<1>9. ASSUME GetNumberOfTests PROVE AllPrinted'
  BY <1>9 DEF GetNumberOfTests, Ready, Goto, MayFail, Fail, AllPrinted
<1>10. ASSUME GetPreviousTestData PROVE AllPrinted'
  BY <1>10 DEF GetPreviousTestData, Ready, Goto, MayFail, Fail, AllPrinted
<1>11. ASSUME BurninTest PROVE AllPrinted'
  BY <1>11 DEF BurninTest, Ready, Goto, AllPrinted
<1>12. ASSUME Cache PROVE AllPrinted'
  BY <1>12 DEF Cache, Ready, Goto, MayFail, Fail, AllPrinted
<1>13. ASSUME StartTest PROVE AllPrinted'
  BY <1>13 DEF StartTest, Ready, Goto, AllPrinted
<1>14. ASSUME TestRestarts PROVE AllPrinted'
  <2>1. at' = at /\ script' = script /\ temp' = temp /\ history' = history
    BY <1>14 DEF TestRestarts
  <2>2. ToPrint' = ToPrint /\ Printed' = Printed
    BY <2>1 DEF ToPrint, Printed
  <2>. QED
    BY <2>1, <2>2 DEF AllPrinted, InTemp
<1>15. ASSUME TestEnds PROVE AllPrinted'
  BY <1>15 DEF TestEnds, Ready, Goto, AllPrinted
<1>16. ASSUME TimeIsUp PROVE AllPrinted'
  BY <1>16 DEF TimeIsUp, Ready, Goto, AllPrinted
<1>17. ASSUME LastTestEnded PROVE AllPrinted'
  BY <1>17 DEF LastTestEnded, Ready, Goto, AllPrinted
<1>18. ASSUME NEW repeated \in BOOLEAN, ChooseTests(repeated) PROVE AllPrinted'
  BY <1>18 DEF ChooseTests, Ready, Goto, AllPrinted
<1>19. ASSUME NEW kind \in {"test", "diag"}, TestSends(kind) PROVE AllPrinted'
  <2>1. at' = at /\ script' = script /\ temp' = temp /\ history' = history
    BY <1>19 DEF TestSends
  <2>2. ToPrint' = ToPrint /\ Printed' = Printed
    BY <2>1 DEF ToPrint, Printed
  <2>. QED
    BY <2>1, <2>2 DEF AllPrinted, InTemp
<1>20. ASSUME BeginPrintout PROVE AllPrinted'
  <2>. SUFFICES ASSUME at' = "remove" PROVE AllPrinted'
    BY DEF AllPrinted
  <2>1. at = "print" /\ s.testData = <<>> /\ temp' = temp /\ history' = history
    BY <1>20 DEF BeginPrintout, Ready, Goto
  <2>2. \A l \in InTemp : l.kind = "test" => l \in Printed
    BY <2>1, EmptyParts DEF MemoryHasAll, Having
  <2>3. InTemp' = InTemp /\ Printed' = Printed
    BY <2>1 DEF InTemp, Printed
  <2>. QED
    BY <2>2, <2>3 DEF AllPrinted
<1>21. ASSUME Printout PROVE AllPrinted'
  <2>1. /\ temp' = temp /\ history' = history /\ at = "number"
        /\ seen' = Fail(TRUE) \/ PrintedBy(script') = Range(s.testData)
    BY <1>21, TestsPrintout DEF Printout, PrintOut, Ready
  <2>2. seen' # Fail(TRUE)
    BY FailSeen
  <2>3. \A l \in InTemp : l.kind = "test" => l \in Range(s.testData) \cup Printed
    BY <2>1 DEF MemoryHasAll, Having
  <2>4. InTemp' = InTemp /\ Printed' = Printed
    BY <2>1 DEF InTemp, Printed
  <2>. QED
    BY <2>1, <2>2, <2>3, <2>4 DEF AllPrinted, ToPrint
<1>22. ASSUME RemoveData PROVE AllPrinted'
  BY <1>22 DEF RemoveData, Ready, Goto, AllPrinted
<1>23. ASSUME ListenerKeeps PROVE AllPrinted'
  <2>1. at' = at /\ script' = script /\ temp' = temp /\ history' = history
    BY <1>23 DEF ListenerKeeps
  <2>2. ToPrint' = ToPrint /\ Printed' = Printed
    BY <2>1 DEF ToPrint, Printed
  <2>. QED
    BY <2>1, <2>2 DEF AllPrinted, InTemp
<1>24. ASSUME ListenerStores PROVE AllPrinted'
  BY <1>24 DEF ListenerStores, Goto, AllPrinted
<1>25. CASE UNCHANGED vars
  <2>1. at' = at /\ script' = script /\ temp' = temp /\ history' = history
    BY <1>25 DEF vars
  <2>2. ToPrint' = ToPrint /\ Printed' = Printed
    BY <2>1 DEF ToPrint, Printed
  <2>. QED
    BY <2>1, <2>2 DEF AllPrinted, InTemp
<1>. QED
  BY <1>1, <1>2, <1>3, <1>4, <1>5, <1>6, <1>7, <1>8, <1>9, <1>10, <1>11, <1>12, <1>13, <1>14,
       <1>15, <1>16, <1>17, <1>18, <1>19, <1>20, <1>21, <1>22, <1>23, <1>24, <1>25 DEF Next

\* Lines that were kept for a restart belong to the sequence that goes on.
LEMMA SequenceKnownKept ==
  ASSUME PrintIInv, FreshAttempt, SequenceKnown, ~seen.lossy, ~seen'.lossy, [Next]_vars
  PROVE  SequenceKnown'
<1>. USE DEF dbVars
<1>0. AllTypes /\ Fits(at, script) /\ LinesToPrint /\ at \in Places /\ seen \in Seen
      /\ script \in Seq(Statement) /\ temp \in Seq(Row) /\ s \in Memory
  BY DEF PrintIInv, ScriptFits, AllTypes
<1>. USE <1>0
<1>1. ASSUME Execute PROVE SequenceKnown'
  <2>1. at' = at /\ script # <<>>
    BY <1>1 DEF Execute
  <2>. QED
    BY <2>1, FirstOp DEF SequenceKnown
<1>2. ASSUME StatementFails PROVE SequenceKnown'
  <2>1. at' = at /\ script # <<>>
    BY <1>2 DEF StatementFails
  <2>. QED
    BY <2>1, FirstOp DEF SequenceKnown
<1>3. ASSUME PowerOn PROVE SequenceKnown'
  BY <1>3 DEF PowerOn, Goto, SequenceKnown
<1>4. ASSUME PowerOff PROVE SequenceKnown'
  BY <1>4 DEF PowerOff, Goto, SequenceKnown
<1>5. ASSUME SaveUnPlannedTestData PROVE SequenceKnown'
  BY <1>5 DEF SaveUnPlannedTestData, Ready, Goto, MayFail, Fail, SequenceKnown
<1>6. ASSUME PrintUnplanned PROVE SequenceKnown'
  BY <1>6 DEF PrintUnplanned, PrintOut, Ready, Goto, MayFail, Fail, SequenceKnown
<1>7. ASSUME AttemptRestored PROVE SequenceKnown'
  BY <1>7 DEF AttemptRestored, Ready, Goto, SequenceKnown
<1>8. ASSUME GetBoardAttempt PROVE SequenceKnown'
  <2>1. at = "attempt" /\ temp' = temp
    BY <1>8 DEF GetBoardAttempt, Ready
  <2>2. ASSUME NEW attempt, NEW sequence \in Int, sequence >= -1, NEW functional, NEW chain,
               NEW o \in {seen, Fail(FALSE)}, Chosen(attempt, sequence, functional, chain, o)
        PROVE  SequenceKnown'
    <3>2. o \in Seen
      BY <2>2, FailSeen
    <3>3. s'.sequence = sequence
      BY <2>2 DEF Chosen, Memory
    <3>4. ~(sequence = -1 /\ Kept(TRUE) # <<>>)
      BY <2>2, <3>2 DEF Chosen, Seen
    <3>5. sequence = -1 \/ sequence >= 0
      BY <2>2
    <3>6. Kept(TRUE)' = Kept(TRUE)
      BY <2>1 DEF Kept
    <3>. QED
      BY <3>3, <3>4, <3>5, <3>6 DEF SequenceKnown
  <2>3. CASE s' = s
    BY <2>1, <2>3 DEF FreshAttempt, SequenceKnown
  <2>4. CASE \E attempt \in Continuable, functional \in BOOLEAN :
               Chosen(attempt, SequenceForAttempt(attempt), functional, seen.saved, seen)
    <3>1. PICK attempt \in Continuable, functional \in BOOLEAN :
            Chosen(attempt, SequenceForAttempt(attempt), functional, seen.saved, seen)
      BY <2>4
    <3>2. SequenceForAttempt(attempt) \in Int /\ SequenceForAttempt(attempt) >= -1
      BY SequenceType
    <3>. QED
      BY <2>2, <3>1, <3>2
  <2>5. CASE \E attempt \in Continuable, functional \in BOOLEAN :
               Chosen(attempt, -1, functional, NoChain, Fail(FALSE))
    <3>1. -1 \in Int /\ -1 >= -1
      OBVIOUS
    <3>. QED
      BY <2>2, <2>5, <3>1
  <2>6. CASE \E attempt \in Attempts, functional \in BOOLEAN :
               Chosen(attempt, -1, functional, [NoChain EXCEPT !.attempt = attempt], seen)
    <3>1. -1 \in Int /\ -1 >= -1
      OBVIOUS
    <3>. QED
      BY <2>2, <2>6, <3>1
  <2>. QED
    BY <1>8, <2>3, <2>4, <2>5, <2>6 DEF GetBoardAttempt
<1>9. ASSUME GetNumberOfTests PROVE SequenceKnown'
  <2>. DEFINE n == NumberOfTests(s.attempt)
  <2>1. at = "tests" /\ temp' = temp /\ (s' = s \/ s' = [s EXCEPT !.numTests = n])
    BY <1>9 DEF GetNumberOfTests, Ready
  <2>2. s.attempt = 0 => n = 0
    BY TestsType
  <2>. HIDE DEF n
  <2>3. /\ s'.sequence = s.sequence /\ s'.functional = s.functional /\ s'.attempt = s.attempt
        /\ s'.numTests = s.numTests \/ s'.numTests = n
    BY <2>1 DEF Memory
  <2>4. Kept(TRUE)' = Kept(TRUE)
    BY <2>1 DEF Kept
  <2>. QED
    BY <2>1, <2>2, <2>3, <2>4 DEF SequenceKnown
<1>10. ASSUME GetPreviousTestData PROVE SequenceKnown'
  <2>1. at = "restore" /\ temp' = temp
        /\ \E t, d : s' = [s EXCEPT !.testData = t, !.diagData = d]
    BY <1>10 DEF GetPreviousTestData, Ready
  <2>2. /\ s'.sequence = s.sequence /\ s'.functional = s.functional /\ s'.attempt = s.attempt
        /\ s'.numTests = s.numTests
    BY <2>1 DEF Memory
  <2>3. Kept(TRUE)' = Kept(TRUE)
    BY <2>1 DEF Kept
  <2>. QED
    BY <2>1, <2>2, <2>3 DEF SequenceKnown
<1>11. ASSUME BurninTest PROVE SequenceKnown'
  BY <1>11 DEF BurninTest, Ready, Goto, SequenceKnown
<1>12. ASSUME Cache PROVE SequenceKnown'
  BY <1>12 DEF Cache, Ready, Goto, MayFail, Fail, SequenceKnown
<1>13. ASSUME StartTest PROVE SequenceKnown'
  BY <1>13 DEF StartTest, Ready, Goto, SequenceKnown
<1>14. ASSUME TestRestarts PROVE SequenceKnown'
  BY <1>14 DEF TestRestarts, SequenceKnown, Kept
<1>15. ASSUME TestEnds PROVE SequenceKnown'
  BY <1>15 DEF TestEnds, Ready, Goto, SequenceKnown
<1>16. ASSUME TimeIsUp PROVE SequenceKnown'
  BY <1>16 DEF TimeIsUp, Ready, Goto, SequenceKnown
<1>17. ASSUME LastTestEnded PROVE SequenceKnown'
  BY <1>17 DEF LastTestEnded, Ready, Goto, SequenceKnown
<1>18. ASSUME NEW repeated \in BOOLEAN, ChooseTests(repeated) PROVE SequenceKnown'
  BY <1>18 DEF ChooseTests, Ready, Goto, SequenceKnown
<1>19. ASSUME NEW kind \in {"test", "diag"}, TestSends(kind) PROVE SequenceKnown'
  BY <1>19 DEF TestSends, SequenceKnown, Kept
<1>20. ASSUME BeginPrintout PROVE SequenceKnown'
  BY <1>20 DEF BeginPrintout, Ready, Goto, SequenceKnown
<1>21. ASSUME Printout PROVE SequenceKnown'
  BY <1>21 DEF Printout, PrintOut, Ready, Goto, MayFail, Fail, SequenceKnown
<1>22. ASSUME RemoveData PROVE SequenceKnown'
  BY <1>22 DEF RemoveData, Ready, Goto, SequenceKnown
<1>23. ASSUME ListenerKeeps PROVE SequenceKnown'
  <2>1. at' = at /\ temp' = temp
    BY <1>23 DEF ListenerKeeps
  <2>2. /\ s'.sequence = s.sequence /\ s'.functional = s.functional /\ s'.attempt = s.attempt
        /\ s'.numTests = s.numTests
    BY <1>23, Keeping DEF Memory
  <2>3. Kept(TRUE)' = Kept(TRUE)
    BY <2>1 DEF Kept
  <2>. QED
    BY <2>1, <2>2, <2>3 DEF SequenceKnown
<1>24. ASSUME ListenerStores PROVE SequenceKnown'
  BY <1>24 DEF ListenerStores, Goto, SequenceKnown
<1>25. CASE UNCHANGED vars
  BY <1>25 DEF vars, SequenceKnown, Kept
<1>. QED
  BY <1>1, <1>2, <1>3, <1>4, <1>5, <1>6, <1>7, <1>8, <1>9, <1>10, <1>11, <1>12, <1>13, <1>14,
       <1>15, <1>16, <1>17, <1>18, <1>19, <1>20, <1>21, <1>22, <1>23, <1>24, <1>25 DEF Next

\* What a step leaves alone, the memory still has.
LEMMA StillHasAll ==
  ASSUME MemoryHasAll, at \in Having, at \notin {"burn", "burning"} \/ s.numTests # 0, NEW X \in SUBSET Line,
         Range(s'.testData) = Range(s.testData) \cup X,
         \A l \in Range(s'.diagData) : l.kind = "test" => l \in Range(s'.testData),
         \A l \in InTemp' : l.kind = "test" => l \in InTemp \cup InFlight,
         Printed \subseteq Printed',
         \A l \in InFlight' : l.kind = "test" => l \in InFlight \cup Range(s'.testData)
  PROVE  MemoryHasAll'
BY DEF MemoryHasAll

\* The memory of a session has every line of the table that is not printed.
LEMMA MemoryHasAllKept ==
  ASSUME PrintIInv, Quiet, MemoryHasAll, UnplannedPrinted, SequenceKnown, ~seen.lossy, ~seen'.lossy, [Next]_vars
  PROVE  MemoryHasAll'
<1>. USE DEF dbVars
<1>0. AllTypes /\ Fits(at, script) /\ LinesToPrint /\ at \in Places /\ seen \in Seen
      /\ script \in Seq(Statement) /\ temp \in Seq(Row) /\ s \in Memory
  BY DEF PrintIInv, ScriptFits, AllTypes
<1>. USE <1>0
<1>1. ASSUME Execute PROVE MemoryHasAll'
  <2>. SUFFICES ASSUME at' \in Having PROVE MemoryHasAll'
    BY DEF MemoryHasAll
  <2>1. /\ at' = at /\ s' = s /\ script # <<>> /\ script' = Tail(script) /\ script[1] \in Statement
    BY <1>1, Executing DEF Execute
  <2>2. at \notin {"burn", "burning"}
    BY <2>1 DEF Fits
  <2>3. InFlight = InFlight' \cup (IF script[1].op = "insert" THEN {script[1].row.line} ELSE {})
    BY <2>1, OfScript, InFlightIs
  <2>4. InTemp' \subseteq InTemp \cup InFlight
    <3>1. CASE script[1].op = "clear"
      BY <1>1, <3>1, Executing
    <3>2. CASE script[1].op = "insert"
      BY <1>1, <2>3, <3>2, Executing
    <3>3. CASE script[1].op \notin {"clear", "insert"}
      <4>1. temp' = temp
        BY <1>1, <2>1, <3>3, Executing, StatementParts
      <4>. QED
        BY <4>1 DEF InTemp
    <3>. QED
      BY <3>1, <3>2, <3>3
  <2>5. Printed \subseteq Printed'
    BY <1>1, Executing
  <2>6. \A l \in Range(s.diagData) : l.kind = "test" => l \in Range(s.testData)
    BY <2>1 DEF MemoryHasAll
  <2>7. {} \in SUBSET Line /\ Range(s'.testData) = Range(s.testData) \cup {}
    BY <2>1
  <2>. QED
    BY <2>1, <2>2, <2>3, <2>4, <2>5, <2>6, <2>7, StillHasAll
<1>2. ASSUME StatementFails PROVE MemoryHasAll'
  <2>. SUFFICES ASSUME at' \in Having PROVE MemoryHasAll'
    BY DEF MemoryHasAll
  <2>1. /\ at' = at /\ s' = s /\ script # <<>> /\ (script' = Tail(script) \/ script' = <<>>)
        /\ temp' = temp /\ history' = history
    BY <1>2 DEF StatementFails, Rest
  <2>2. at \notin {"burn", "burning"}
    BY <2>1 DEF Fits
  <2>3. InFlight' \subseteq InFlight
    BY <2>1, OfScript, OfEmptyScript, InFlightIs
  <2>4. InTemp' = InTemp /\ Printed' = Printed
    BY <2>1 DEF InTemp, Printed
  <2>6. \A l \in Range(s.diagData) : l.kind = "test" => l \in Range(s.testData)
    BY <2>1 DEF MemoryHasAll
  <2>7. {} \in SUBSET Line /\ Range(s'.testData) = Range(s.testData) \cup {}
    BY <2>1
  <2>. QED
    BY <2>1, <2>2, <2>3, <2>4, <2>6, <2>7, StillHasAll
<1>3. ASSUME PowerOn PROVE MemoryHasAll'
  BY <1>3 DEF PowerOn, Goto, MemoryHasAll, Having
<1>4. ASSUME PowerOff PROVE MemoryHasAll'
  BY <1>4 DEF PowerOff, Goto, MemoryHasAll, Having
<1>5. ASSUME SaveUnPlannedTestData PROVE MemoryHasAll'
  BY <1>5 DEF SaveUnPlannedTestData, Ready, Goto, MayFail, Fail, MemoryHasAll, Having
<1>6. ASSUME PrintUnplanned PROVE MemoryHasAll'
  BY <1>6 DEF PrintUnplanned, PrintOut, Ready, Goto, MayFail, Fail, MemoryHasAll, Having
<1>7. ASSUME AttemptRestored PROVE MemoryHasAll'
  BY <1>7 DEF AttemptRestored, Ready, Goto, MemoryHasAll, Having
<1>8. ASSUME GetBoardAttempt PROVE MemoryHasAll'
  BY <1>8 DEF GetBoardAttempt, Ready, Goto, Chosen, MayFail, Fail, MemoryHasAll, Having
<1>9. ASSUME GetNumberOfTests PROVE MemoryHasAll'
  BY <1>9 DEF GetNumberOfTests, Ready, Goto, MayFail, Fail, MemoryHasAll, Having
<1>10. ASSUME GetPreviousTestData PROVE MemoryHasAll'
  <2>1. /\ at = "restore" /\ script = <<>> /\ temp' = temp /\ history' = history
        /\ \E t, d \in {Restored, <<>>} :
             /\ \/ t = Restored /\ d = Restored
                \/ t # d /\ seen' = Fail(t = <<>>)
             /\ s' = [s EXCEPT !.testData = t, !.diagData = d]
             /\ IF s.functional
                THEN at' = "stored" /\ script' = InsertTemporaryTestData(FALSE, s.attempt, s.sequence, t, d)
                ELSE at' = "burn" /\ script' = <<>>
    BY <1>10 DEF GetPreviousTestData, Ready, Goto
  <2>2. PICK t \in {Restored, <<>>}, d \in {Restored, <<>>} :
          /\ \/ t = Restored /\ d = Restored
             \/ t # d /\ seen' = Fail(t = <<>>)
          /\ s' = [s EXCEPT !.testData = t, !.diagData = d]
          /\ IF s.functional
             THEN at' = "stored" /\ script' = InsertTemporaryTestData(FALSE, s.attempt, s.sequence, t, d)
             ELSE at' = "burn" /\ script' = <<>>
    BY <2>1
  <2>3. t = Restored
    <3>. DEFINE b == t = <<>>
    <3>1. t # d /\ seen' = Fail(b) => ~b
      <4>1. b \in BOOLEAN
        OBVIOUS
      <4>. HIDE DEF b
      <4>. QED
        BY <4>1, FailSeen
    <3>. QED
      BY <2>2, <3>1
  <2>4. /\ s'.testData = t /\ s'.diagData = d /\ s'.numTests = s.numTests
        /\ s.attempt \in Int /\ s.sequence \in Int
    BY <2>2 DEF Memory
  <2>5. Restored \in Seq(Line) /\ <<>> \in Seq(Line) /\ Range(<<>>) = {}
    <3>1. TestData(TRUE) \in Seq(Line)
      BY KeptRows
    <3>. QED
      BY <3>1, EmptyParts DEF Restored
  <2>6. Range(d) \subseteq Range(t)
    BY <2>2, <2>3, <2>5
  <2>7. InFlight' \subseteq Range(t)
    <3>1. CASE s.functional
      <4>1. t \in Seq(Line) /\ d \in Seq(Line)
        BY <2>2, <2>5
      <4>3. FALSE \in BOOLEAN /\ s.attempt \in Int /\ s.sequence \in Int
        BY <2>4
      <4>4. StoresLines(InsertTemporaryTestData(FALSE, s.attempt, s.sequence, t, d), t, d)
        BY <4>1, <4>3, StoreStatements
      <4>2. InsertedBy(script') = Range(t) \cup Range(d)
        BY <2>2, <3>1, <4>4 DEF StoresLines
      <4>. QED
        BY <2>6, <4>2, InFlightIs
    <3>2. CASE ~s.functional
      BY <2>2, <3>2, InFlightIs, OfEmptyScript
    <3>. QED
      BY <3>1, <3>2
  <2>8. ASSUME at' \notin {"burn", "burning"} \/ s'.numTests # 0, NEW l \in InTemp, l.kind = "test"
        PROVE  l \in Range(t) \cup Printed
    <3>1. PICK k \in DOMAIN temp : l = temp[k].line
      BY DEF InTemp
    <3>2. temp[k] \in Row
      OBVIOUS
    <3>3. temp[k].planned = TRUE \/ ~temp[k].planned
      BY <3>2 DEF Row
    <3>4. CASE ~temp[k].planned
      BY <2>1, <3>1, <3>4, OfEmptyScript DEF UnplannedPrinted, ToPrint
    <3>5. CASE temp[k].planned = TRUE
      <4>1. Kept(TRUE) # <<>> /\ l \in Range(TestData(TRUE))
        BY <3>1, <3>5, KeptRows
      <4>2. s.sequence >= 0
        BY <2>1, <2>2, <2>4, <2>8, <4>1 DEF SequenceKnown
      <4>. QED
        BY <2>3, <4>1, <4>2 DEF Restored
    <3>. QED
      BY <3>3, <3>4, <3>5
  <2>9. InTemp' = InTemp /\ Printed' = Printed
    BY <2>1 DEF InTemp, Printed
  <2>. QED
    BY <2>4, <2>6, <2>7, <2>8, <2>9 DEF MemoryHasAll
<1>11. ASSUME BurninTest PROVE MemoryHasAll'
  <2>1. /\ at = "burn" /\ at' = "burning" /\ temp' = temp /\ history' = history /\ script' = <<>>
        /\ script = <<>> /\ \E c : s' = [s EXCEPT !.cache = c, !.current = s.numTests - 1]
    BY <1>11, BurnInBegins
  <2>2. s'.testData = s.testData /\ s'.diagData = s.diagData /\ s'.numTests = s.numTests
    BY <2>1 DEF Memory
  <2>3. InTemp' = InTemp /\ Printed' = Printed /\ InFlight' = {}
    BY <2>1, InFlightIs, OfEmptyScript DEF InTemp, Printed
  <2>. QED
    BY <2>1, <2>2, <2>3 DEF MemoryHasAll, Having
<1>12. ASSUME Cache PROVE MemoryHasAll'
  <2>1. at \in Having /\ at \notin {"burn", "burning"} /\ temp' = temp /\ history' = history /\ script' = <<>>
    BY <1>12 DEF Cache, Ready, Goto, Having
  <2>2. s'.testData = s.testData /\ s'.diagData = s.diagData
    BY <1>12 DEF Cache, Memory
  <2>3. InTemp' = InTemp /\ Printed' = Printed /\ InFlight' = {}
    BY <2>1, InFlightIs, OfEmptyScript DEF InTemp, Printed
  <2>4. \A l \in Range(s.diagData) : l.kind = "test" => l \in Range(s.testData)
    BY <2>1 DEF MemoryHasAll
  <2>5. {} \in SUBSET Line /\ Range(s'.testData) = Range(s.testData) \cup {}
    BY <2>2
  <2>. QED
    BY <2>1, <2>2, <2>3, <2>4, <2>5, StillHasAll
<1>13. ASSUME StartTest PROVE MemoryHasAll'
  <2>1. at \in Having /\ at \notin {"burn", "burning"} /\ temp' = temp /\ history' = history /\ script' = <<>>
    BY <1>13 DEF StartTest, Ready, Goto, Having
  <2>2. s'.testData = s.testData /\ s'.diagData = s.diagData
    BY <1>13 DEF StartTest, Memory
  <2>3. InTemp' = InTemp /\ Printed' = Printed /\ InFlight' = {}
    BY <2>1, InFlightIs, OfEmptyScript DEF InTemp, Printed
  <2>4. \A l \in Range(s.diagData) : l.kind = "test" => l \in Range(s.testData)
    BY <2>1 DEF MemoryHasAll
  <2>5. {} \in SUBSET Line /\ Range(s'.testData) = Range(s.testData) \cup {}
    BY <2>2
  <2>. QED
    BY <2>1, <2>2, <2>3, <2>4, <2>5, StillHasAll
<1>14. ASSUME TestRestarts PROVE MemoryHasAll'
  <2>1. at' = at /\ script' = script /\ temp' = temp /\ history' = history /\ s' = s
    BY <1>14 DEF TestRestarts
  <2>2. InTemp' = InTemp /\ Printed' = Printed /\ InFlight' = InFlight
    BY <2>1, InFlightIs DEF InTemp, Printed
  <2>. QED
    BY <2>1, <2>2 DEF MemoryHasAll
<1>15. ASSUME TestEnds PROVE MemoryHasAll'
  <2>1. /\ at = "testing" /\ temp' = temp /\ history' = history /\ s' = [s EXCEPT !.executions = @ + 1]
        /\ script' = InsertTemporaryTestData(FALSE, s.attempt, s.current, s.testData, s.diagData)
    BY <1>15 DEF TestEnds, Ready, Goto
  <2>2. /\ s.testData \in Seq(Line) /\ s.diagData \in Seq(Line) /\ s.attempt \in Int /\ s.current \in Int
        /\ s'.testData = s.testData /\ s'.diagData = s.diagData
    BY <2>1 DEF Memory
  <2>7. StoresLines(InsertTemporaryTestData(FALSE, s.attempt, s.current, s.testData, s.diagData),
                    s.testData, s.diagData)
    <3>1. FALSE \in BOOLEAN
      OBVIOUS
    <3>. QED
      BY <2>2, <3>1, StoreStatements
  <2>3. InFlight' = Range(s.testData) \cup Range(s.diagData)
    BY <2>1, <2>7, InFlightIs DEF StoresLines
  <2>4. InTemp' = InTemp /\ Printed' = Printed
    BY <2>1 DEF InTemp, Printed
  <2>5. \A l \in Range(s.diagData) : l.kind = "test" => l \in Range(s.testData)
    BY <2>1 DEF MemoryHasAll, Having
  <2>6. {} \in SUBSET Line /\ Range(s'.testData) = Range(s.testData) \cup {} /\ at \in Having /\ at \notin {"burn", "burning"}
    BY <2>1, <2>2 DEF Having
  <2>. QED
    BY <2>2, <2>3, <2>4, <2>5, <2>6, StillHasAll
<1>16. ASSUME TimeIsUp PROVE MemoryHasAll'
  BY <1>16 DEF TimeIsUp, Ready, Goto, MemoryHasAll, Having
<1>17. ASSUME LastTestEnded PROVE MemoryHasAll'
  <2>1. at \in Having /\ at \notin {"burn", "burning"} /\ temp' = temp /\ history' = history /\ script' = <<>>
    BY <1>17 DEF LastTestEnded, Ready, Goto, Having
  <2>2. s'.testData = s.testData /\ s'.diagData = s.diagData
    BY <1>17 DEF LastTestEnded, Memory
  <2>3. InTemp' = InTemp /\ Printed' = Printed /\ InFlight' = {}
    BY <2>1, InFlightIs, OfEmptyScript DEF InTemp, Printed
  <2>4. \A l \in Range(s.diagData) : l.kind = "test" => l \in Range(s.testData)
    BY <2>1 DEF MemoryHasAll
  <2>5. {} \in SUBSET Line /\ Range(s'.testData) = Range(s.testData) \cup {}
    BY <2>2
  <2>. QED
    BY <2>1, <2>2, <2>3, <2>4, <2>5, StillHasAll
<1>18. ASSUME NEW repeated \in BOOLEAN, ChooseTests(repeated) PROVE MemoryHasAll'
  <2>1. at \in Having /\ at \notin {"burn", "burning"} /\ temp' = temp /\ history' = history /\ script' = <<>>
    BY <1>18 DEF ChooseTests, Ready, Goto, Having
  <2>2. s'.testData = s.testData /\ s'.diagData = s.diagData
    BY <1>18 DEF ChooseTests, Memory
  <2>3. InTemp' = InTemp /\ Printed' = Printed /\ InFlight' = {}
    BY <2>1, InFlightIs, OfEmptyScript DEF InTemp, Printed
  <2>4. \A l \in Range(s.diagData) : l.kind = "test" => l \in Range(s.testData)
    BY <2>1 DEF MemoryHasAll
  <2>5. {} \in SUBSET Line /\ Range(s'.testData) = Range(s.testData) \cup {}
    BY <2>2
  <2>. QED
    BY <2>1, <2>2, <2>3, <2>4, <2>5, StillHasAll
<1>19. ASSUME NEW kind \in {"test", "diag"}, TestSends(kind) PROVE MemoryHasAll'
  <2>1. at' = at /\ script' = script /\ temp' = temp /\ history' = history /\ s' = s
    BY <1>19 DEF TestSends
  <2>2. InTemp' = InTemp /\ Printed' = Printed /\ InFlight' = InFlight
    BY <2>1, InFlightIs DEF InTemp, Printed
  <2>. QED
    BY <2>1, <2>2 DEF MemoryHasAll
<1>20. ASSUME BeginPrintout PROVE MemoryHasAll'
  <2>. SUFFICES ASSUME at' \in Having PROVE MemoryHasAll'
    BY DEF MemoryHasAll
  <2>1. /\ at = "print" /\ temp' = temp /\ history' = history /\ s' = s
        /\ script' = DBUpdateBoardInfo(s.attempt)
    BY <1>20 DEF BeginPrintout, Ready, Goto, Having
  <2>2. OfInfo(script')
    <3>1. s.attempt \in Int
      BY DEF Memory
    <3>. QED
      BY <2>1, <3>1, InfoStatements
  <2>3. InFlight' = {}
    BY <2>2, InFlightIs DEF InsertedBy, OfInfo, InfoOps, Range
  <2>4. InTemp' = InTemp /\ Printed' = Printed
    BY <2>1 DEF InTemp, Printed
  <2>5. \A l \in Range(s.diagData) : l.kind = "test" => l \in Range(s.testData)
    BY <2>1 DEF MemoryHasAll, Having
  <2>6. {} \in SUBSET Line /\ Range(s'.testData) = Range(s.testData) \cup {} /\ at \in Having /\ at \notin {"burn", "burning"}
    BY <2>1 DEF Having
  <2>. QED
    BY <2>1, <2>3, <2>4, <2>5, <2>6, StillHasAll
<1>21. ASSUME Printout PROVE MemoryHasAll'
  BY <1>21 DEF Printout, PrintOut, Ready, Goto, MayFail, Fail, MemoryHasAll, Having
<1>22. ASSUME RemoveData PROVE MemoryHasAll'
  BY <1>22 DEF RemoveData, Ready, Goto, MemoryHasAll, Having
<1>23. ASSUME ListenerKeeps PROVE MemoryHasAll'
  <2>. SUFFICES ASSUME at' \in Having PROVE MemoryHasAll'
    BY DEF MemoryHasAll
  <2>1. at' = at /\ script' = script /\ temp' = temp /\ history' = history
    BY <1>23 DEF ListenerKeeps
  <2>2. InTemp' = InTemp /\ Printed' = Printed /\ InFlight' = InFlight
    BY <2>1, InFlightIs DEF InTemp, Printed
  <2>3. PICK x \in Line :
           \/ /\ x.kind = "test" /\ Range(s'.testData) = Range(s.testData) \cup {x} /\ s'.diagData = s.diagData
           \/ /\ x.kind = "diag" /\ Range(s'.diagData) = Range(s.diagData) \cup {x} /\ s'.testData = s.testData
    BY <1>23, Keeping
  <2>4. s'.numTests = s.numTests
    BY <1>23, Keeping DEF Memory
  <2>5. /\ Range(s.testData) \subseteq Range(s'.testData)
        /\ \A l \in Range(s'.diagData) : l.kind = "test" => l \in Range(s'.testData)
    <3>1. \A l \in Range(s.diagData) : l.kind = "test" => l \in Range(s.testData)
      BY <2>1 DEF MemoryHasAll
    <3>. QED
      BY <2>3, <3>1
  <2>. QED
    BY <2>1, <2>2, <2>4, <2>5 DEF MemoryHasAll
<1>24. ASSUME ListenerStores PROVE MemoryHasAll'
  <2>1. /\ at \in {"testing", "burning"} /\ temp' = temp /\ history' = history /\ s' = s
        /\ script' = InsertTemporaryTestData(TRUE, s.attempt, s.current, s.testData, s.diagData)
    BY <1>24 DEF ListenerStores, Goto
  <2>2. /\ s.testData \in Seq(Line) /\ s.diagData \in Seq(Line) /\ s.attempt \in Int /\ s.current \in Int
        /\ s'.testData = s.testData /\ s'.diagData = s.diagData
    BY <2>1 DEF Memory
  <2>7. StoresLines(InsertTemporaryTestData(TRUE, s.attempt, s.current, s.testData, s.diagData),
                    s.testData, s.diagData)
    <3>1. TRUE \in BOOLEAN
      OBVIOUS
    <3>. QED
      BY <2>2, <3>1, StoreStatements
  <2>3. InFlight' = Range(s.testData) \cup Range(s.diagData)
    BY <2>1, <2>7, InFlightIs DEF StoresLines
  <2>4. InTemp' = InTemp /\ Printed' = Printed
    BY <2>1 DEF InTemp, Printed
  <2>5. \A l \in Range(s.diagData) : l.kind = "test" => l \in Range(s.testData)
    BY <2>1 DEF MemoryHasAll, Having
  <2>6. {} \in SUBSET Line /\ Range(s'.testData) = Range(s.testData) \cup {} /\ at \in Having
    BY <2>1, <2>2 DEF Having
  <2>8. at \notin {"burn", "burning"} \/ s.numTests # 0
    BY <1>24, <2>1 DEF Quiet, ListenerStores
  <2>. QED
    BY <2>2, <2>3, <2>4, <2>5, <2>6, <2>8, StillHasAll
<1>25. CASE UNCHANGED vars
  <2>1. at' = at /\ script' = script /\ temp' = temp /\ history' = history /\ s' = s
    BY <1>25 DEF vars
  <2>2. InTemp' = InTemp /\ Printed' = Printed /\ InFlight' = InFlight
    BY <2>1, InFlightIs DEF InTemp, Printed
  <2>. QED
    BY <2>1, <2>2 DEF MemoryHasAll
<1>. QED
  BY <1>1, <1>2, <1>3, <1>4, <1>5, <1>6, <1>7, <1>8, <1>9, <1>10, <1>11, <1>12, <1>13, <1>14,
       <1>15, <1>16, <1>17, <1>18, <1>19, <1>20, <1>21, <1>22, <1>23, <1>24, <1>25 DEF Next

\* No deletion takes away what is neither printed nor about to be put back.
LEMMA DeletionSafeKept ==
  ASSUME PrintIInv, DeletionSafe, AllPrinted, MemoryHasAll', ~seen.lossy, ~seen'.lossy, [Next]_vars
  PROVE  DeletionSafe'
<1>. USE DEF dbVars
<1>0. AllTypes /\ Fits(at, script) /\ LinesToPrint /\ at \in Places /\ seen \in Seen
      /\ script \in Seq(Statement) /\ temp \in Seq(Row) /\ s \in Memory
  BY DEF PrintIInv, ScriptFits, AllTypes
<1>. USE <1>0
<1>1. ASSUME Execute PROVE DeletionSafe'
  <2>. SUFFICES ASSUME script' # <<>>, script'[1] = Clear PROVE FALSE
    BY DEF DeletionSafe
  <2>1. script # <<>> /\ script' = Tail(script)
    BY <1>1 DEF Execute, Rest
  <2>. QED
    BY <2>1, NoLaterDeletion
<1>2. ASSUME StatementFails PROVE DeletionSafe'
  <2>. SUFFICES ASSUME script' # <<>>, script'[1] = Clear PROVE FALSE
    BY DEF DeletionSafe
  <2>1. script # <<>> /\ script' = Tail(script)
    BY <1>2 DEF StatementFails, Rest
  <2>. QED
    BY <2>1, NoLaterDeletion
<1>3. ASSUME PowerOn PROVE DeletionSafe'
  <2>1. script' = DBUpdateBoardInfo(0)
    BY <1>3 DEF PowerOn, Goto
  <2>. QED
    BY <2>1, ClearInfoFirst DEF DeletionSafe, Clear
<1>4. ASSUME PowerOff PROVE DeletionSafe'
  BY <1>4 DEF PowerOff, Goto, DeletionSafe
<1>5. ASSUME SaveUnPlannedTestData PROVE DeletionSafe'
  <2>1. script' = <<>> \/ \E a : script' = DBUpdateBoardInfo(a)
    BY <1>5 DEF SaveUnPlannedTestData, Goto
  <2>2. script' = <<>> \/ script'[1].op = "clearInfo"
    BY <2>1, ClearInfoFirst
  <2>. QED
    BY <2>2 DEF DeletionSafe, Clear
<1>6. ASSUME PrintUnplanned PROVE DeletionSafe'
  <2>1. script' = <<>> \/ script'[1].op = "print"
    BY <1>6, UnplannedPrintout
  <2>. QED
    BY <2>1 DEF DeletionSafe, Clear
<1>7. ASSUME AttemptRestored PROVE DeletionSafe'
  BY <1>7 DEF AttemptRestored, Ready, Goto, DeletionSafe
<1>8. ASSUME GetBoardAttempt PROVE DeletionSafe'
  BY <1>8 DEF GetBoardAttempt, Ready, Goto, Chosen, MayFail, Fail, DeletionSafe
<1>9. ASSUME GetNumberOfTests PROVE DeletionSafe'
  BY <1>9 DEF GetNumberOfTests, Ready, Goto, MayFail, Fail, DeletionSafe
<1>10. ASSUME GetPreviousTestData PROVE DeletionSafe'
  <2>1. PICK t \in {Restored, <<>>}, d \in {Restored, <<>>} :
          /\ s' = [s EXCEPT !.testData = t, !.diagData = d]
          /\ IF s.functional
             THEN at' = "stored" /\ script' = InsertTemporaryTestData(FALSE, s.attempt, s.sequence, t, d)
             ELSE at' = "burn" /\ script' = <<>>
    BY <1>10 DEF GetPreviousTestData, Goto
  <2>2. CASE ~s.functional
    BY <2>1, <2>2 DEF DeletionSafe
  <2>3. CASE s.functional
    <3>1. s'.testData = t /\ s.attempt \in Int /\ s.sequence \in Int
      BY <2>1 DEF Memory
    <3>2. t \in Seq(Line) /\ d \in Seq(Line)
      <4>1. TestData(TRUE) \in Seq(Line) /\ <<>> \in Seq(Line)
        BY KeptRows, EmptyParts
      <4>. QED
        BY <2>1, <4>1 DEF Restored
    <3>5. StoresLines(InsertTemporaryTestData(FALSE, s.attempt, s.sequence, t, d), t, d)
      <4>1. FALSE \in BOOLEAN
        OBVIOUS
      <4>. QED
        BY <3>1, <3>2, <4>1, StoreStatements
    <3>3. InFlight' = Range(t) \cup Range(d)
      BY <2>1, <2>3, <3>5, InFlightIs DEF StoresLines
    <3>4. \A l \in InTemp' : l.kind = "test" => l \in Range(t) \cup Printed'
      BY <2>1, <2>3, <3>1 DEF MemoryHasAll, Having
    <3>. QED
      BY <3>3, <3>4 DEF DeletionSafe
  <2>. QED
    BY <2>2, <2>3
<1>11. ASSUME BurninTest PROVE DeletionSafe'
  BY <1>11, BurnInBegins DEF DeletionSafe
<1>12. ASSUME Cache PROVE DeletionSafe'
  BY <1>12 DEF Cache, Ready, Goto, MayFail, Fail, DeletionSafe
<1>13. ASSUME StartTest PROVE DeletionSafe'
  BY <1>13 DEF StartTest, Ready, Goto, DeletionSafe
<1>14. ASSUME TestRestarts PROVE DeletionSafe'
  <2>1. script' = script /\ temp' = temp /\ history' = history
    BY <1>14 DEF TestRestarts
  <2>2. InTemp' = InTemp /\ Printed' = Printed /\ InFlight' = InFlight
    BY <2>1, InFlightIs DEF InTemp, Printed
  <2>. QED
    BY <2>1, <2>2 DEF DeletionSafe
<1>15. ASSUME TestEnds PROVE DeletionSafe'
  <2>1. /\ at' \notin {"burn", "burning"} /\ at' \in Having
        /\ script' = InsertTemporaryTestData(FALSE, s.attempt, s.current, s'.testData, s.diagData)
        /\ s'.testData = s.testData
    BY <1>15 DEF TestEnds, Goto, Having, Memory
  <2>2. s.testData \in Seq(Line) /\ s.diagData \in Seq(Line) /\ s.attempt \in Int /\ s.current \in Int
    BY DEF Memory
  <2>7. StoresLines(InsertTemporaryTestData(FALSE, s.attempt, s.current, s.testData, s.diagData),
                    s.testData, s.diagData)
    <3>1. FALSE \in BOOLEAN
      OBVIOUS
    <3>. QED
      BY <2>2, <3>1, StoreStatements
  <2>3. InFlight' = Range(s.testData) \cup Range(s.diagData)
    BY <2>1, <2>7, InFlightIs DEF StoresLines
  <2>4. \A l \in InTemp' : l.kind = "test" => l \in Range(s.testData) \cup Printed'
    BY <2>1 DEF MemoryHasAll
  <2>. QED
    BY <2>3, <2>4 DEF DeletionSafe
<1>16. ASSUME TimeIsUp PROVE DeletionSafe'
  <2>. SUFFICES ASSUME script' # <<>> PROVE InTemp' = {}
    BY DEF DeletionSafe
  <2>1. temp' = <<>>
    BY <1>16, BurnInEnds
  <2>. QED
    BY <2>1, EmptyParts DEF InTemp
<1>17. ASSUME LastTestEnded PROVE DeletionSafe'
  BY <1>17 DEF LastTestEnded, Ready, Goto, DeletionSafe
<1>18. ASSUME NEW repeated \in BOOLEAN, ChooseTests(repeated) PROVE DeletionSafe'
  BY <1>18 DEF ChooseTests, Ready, Goto, DeletionSafe
<1>19. ASSUME NEW kind \in {"test", "diag"}, TestSends(kind) PROVE DeletionSafe'
  <2>1. script' = script /\ temp' = temp /\ history' = history
    BY <1>19 DEF TestSends
  <2>2. InTemp' = InTemp /\ Printed' = Printed /\ InFlight' = InFlight
    BY <2>1, InFlightIs DEF InTemp, Printed
  <2>. QED
    BY <2>1, <2>2 DEF DeletionSafe
<1>20. ASSUME BeginPrintout PROVE DeletionSafe'
  <2>1. script' = <<>> \/ script' = DBUpdateBoardInfo(s.attempt)
    BY <1>20 DEF BeginPrintout, Goto
  <2>2. script' = <<>> \/ script'[1].op = "clearInfo"
    BY <2>1, ClearInfoFirst
  <2>. QED
    BY <2>2 DEF DeletionSafe, Clear
<1>21. ASSUME Printout PROVE DeletionSafe'
  <2>1. script' = <<>> \/ script'[1].op = "print"
    BY <1>21, TestsPrintout
  <2>. QED
    BY <2>1 DEF DeletionSafe, Clear
<1>22. ASSUME RemoveData PROVE DeletionSafe'
  <2>1. at = "remove" /\ script = <<>> /\ temp' = temp /\ history' = history
    BY <1>22 DEF RemoveData, Ready
  <2>2. InTemp' = InTemp /\ Printed' = Printed /\ ToPrint = {}
    BY <2>1, OfEmptyScript DEF InTemp, Printed, ToPrint
  <2>. QED
    BY <2>1, <2>2 DEF DeletionSafe, AllPrinted
<1>23. ASSUME ListenerKeeps PROVE DeletionSafe'
  <2>1. script' = script /\ temp' = temp /\ history' = history
    BY <1>23 DEF ListenerKeeps
  <2>2. InTemp' = InTemp /\ Printed' = Printed /\ InFlight' = InFlight
    BY <2>1, InFlightIs DEF InTemp, Printed
  <2>. QED
    BY <2>1, <2>2 DEF DeletionSafe
<1>24. ASSUME ListenerStores PROVE DeletionSafe'
  <2>1. /\ at' \notin {"burn", "burning"} /\ at' \in Having
        /\ script' = InsertTemporaryTestData(TRUE, s.attempt, s.current, s'.testData, s.diagData)
        /\ s'.testData = s.testData
    BY <1>24 DEF ListenerStores, Goto, Having, Memory
  <2>2. s.testData \in Seq(Line) /\ s.diagData \in Seq(Line) /\ s.attempt \in Int /\ s.current \in Int
    BY DEF Memory
  <2>7. StoresLines(InsertTemporaryTestData(TRUE, s.attempt, s.current, s.testData, s.diagData),
                    s.testData, s.diagData)
    <3>1. TRUE \in BOOLEAN
      OBVIOUS
    <3>. QED
      BY <2>2, <3>1, StoreStatements
  <2>3. InFlight' = Range(s.testData) \cup Range(s.diagData)
    BY <2>1, <2>7, InFlightIs DEF StoresLines
  <2>4. \A l \in InTemp' : l.kind = "test" => l \in Range(s.testData) \cup Printed'
    BY <2>1 DEF MemoryHasAll
  <2>. QED
    BY <2>3, <2>4 DEF DeletionSafe
<1>25. CASE UNCHANGED vars
  <2>1. script' = script /\ temp' = temp /\ history' = history
    BY <1>25 DEF vars
  <2>2. InTemp' = InTemp /\ Printed' = Printed /\ InFlight' = InFlight
    BY <2>1, InFlightIs DEF InTemp, Printed
  <2>. QED
    BY <2>1, <2>2 DEF DeletionSafe
<1>. QED
  BY <1>1, <1>2, <1>3, <1>4, <1>5, <1>6, <1>7, <1>8, <1>9, <1>10, <1>11, <1>12, <1>13, <1>14,
       <1>15, <1>16, <1>17, <1>18, <1>19, <1>20, <1>21, <1>22, <1>23, <1>24, <1>25 DEF Next

\* The inductive invariant.
LEMMA StoredStep ==
  ASSUME PrintIInv, StoredIInv, [Next]_vars
  PROVE  StoredIInv'
<1>1. FreshAttempt'
  BY FreshKept DEF StoredIInv
<1>2. Quiet /\ Quiet'
  BY QuietKept DEF StoredIInv
<1>3. ASSUME ~seen'.lossy PROVE Safe'
  <2>1. ~seen.lossy
    BY <1>3, SeenGrows
  <2>2. /\ StoredSafe /\ MemoryHasAll /\ DeletionSafe /\ UnplannedPrinted /\ SequenceKnown /\ AllPrinted
        /\ FreshAttempt
    BY <2>1 DEF StoredIInv, Safe
  <2>3. StoredSafe'
    BY <1>3, <2>1, <2>2, StoredSafeKept
  <2>4. MemoryHasAll'
    BY <1>2, <1>3, <2>1, <2>2, MemoryHasAllKept
  <2>5. DeletionSafe'
    BY <1>3, <2>1, <2>2, <2>4, DeletionSafeKept
  <2>6. UnplannedPrinted'
    BY <1>3, <2>1, <2>2, UnplannedPrintedKept
  <2>7. SequenceKnown'
    BY <1>3, <2>1, <2>2, SequenceKnownKept
  <2>8. AllPrinted'
    BY <1>3, <2>1, <2>2, AllPrintedKept
  <2>. QED
    BY <2>3, <2>4, <2>5, <2>6, <2>7, <2>8 DEF Safe
<1>. QED
  BY <1>1, <1>2, <1>3 DEF StoredIInv

\* The inductive invariant holds at first.
LEMMA StoredInit == Init => StoredIInv
<1>. SUFFICES ASSUME Init PROVE StoredIInv
  OBVIOUS
<1>. USE DEF Init, DatabaseInit
<1>1. InTemp = {}
  BY EmptyParts DEF InTemp
<1>2. seen.stored = {} /\ at = "off" /\ script = <<>>
  OBVIOUS
<1>3. StoredSafe /\ MemoryHasAll /\ DeletionSafe /\ UnplannedPrinted /\ SequenceKnown /\ AllPrinted
  BY <1>2 DEF StoredSafe, MemoryHasAll, Having, DeletionSafe, UnplannedPrinted, SequenceKnown, AllPrinted
<1>. QED
  BY <1>2, <1>3 DEF StoredIInv, FreshAttempt, Quiet, Safe

\* It implies that nothing is lost.
LEMMA StoredImplies ==
  ASSUME PrintIInv, StoredIInv
  PROVE  StoredInv
<1>. USE DEF PrintIInv, AllTypes
<1>1. TypeOK
  <2>1. \A k \in DOMAIN temp : temp[k].line \in Line /\ temp[k].planned \in BOOLEAN
    <3>1. \A k \in DOMAIN temp : temp[k] \in Row
      OBVIOUS
    <3>. QED
      BY <3>1 DEF Row
  <2>2. \A k \in DOMAIN history : history[k].lines \in Seq(Line) /\ history[k].executions \in Nat
    <3>1. \A k \in DOMAIN history : history[k] \in Record
      OBVIOUS
    <3>. QED
      BY <3>1 DEF Record
  <2>3. /\ s.testData \in Seq(Line) /\ s.diagData \in Seq(Line)
        /\ s.attempt \in Int /\ s.sequence \in Int /\ s.executions \in Nat
    BY DEF Memory
  <2>. QED
    BY <2>1, <2>2, <2>3 DEF TypeOK, Places
<1>2. NothingLost
  BY DEF NothingLost, StoredIInv, Safe, StoredSafe
<1>. QED
  BY <1>1, <1>2 DEF StoredInv

\* Whatever the order of crashes, restarts, statements and failures, a line of test data
\* that was stored is in the table, about to be put back, or in a printout.
THEOREM StoredLinesKept == Spec => []StoredInv
<1>1. PrintIInv /\ StoredIInv /\ [Next]_vars => StoredIInv'
  BY StoredStep
<1>2. PrintIInv /\ StoredIInv => StoredInv
  BY StoredImplies
<1>. QED
  BY <1>1, <1>2, PrintInvariant, StoredInit, PTL DEF Spec

\* The choice of an attempt.
LEMMA AttemptChosen ==
  ASSUME GetBoardAttempt
  PROVE  s' = s \/ \E a, f, q : s' = [s EXCEPT !.attempt = a, !.functional = f, !.sequence = q]
<1>1. CASE \E attempt \in Continuable, functional \in BOOLEAN :
             \/ Chosen(attempt, SequenceForAttempt(attempt), functional, seen.saved, seen)
             \/ Chosen(attempt, -1, functional, NoChain, Fail(FALSE))
  <2>1. PICK attempt \in Continuable, functional \in BOOLEAN :
          \/ Chosen(attempt, SequenceForAttempt(attempt), functional, seen.saved, seen)
          \/ Chosen(attempt, -1, functional, NoChain, Fail(FALSE))
    BY <1>1
  <2>2. \E q : s' = [s EXCEPT !.attempt = attempt, !.functional = functional, !.sequence = q]
    BY <2>1 DEF Chosen
  <2>. QED
    BY <2>2
<1>2. CASE \E attempt \in Attempts, functional \in BOOLEAN :
             Chosen(attempt, -1, functional, [NoChain EXCEPT !.attempt = attempt], seen)
  <2>1. PICK attempt \in Attempts, functional \in BOOLEAN :
          Chosen(attempt, -1, functional, [NoChain EXCEPT !.attempt = attempt], seen)
    BY <1>2
  <2>2. \E q : s' = [s EXCEPT !.attempt = attempt, !.functional = functional, !.sequence = q]
    BY <2>1 DEF Chosen
  <2>. QED
    BY <2>2
<1>3. CASE s' = s
  BY <1>3
<1>. QED
  BY <1>1, <1>2, <1>3 DEF GetBoardAttempt

-------------------------------------------------------------------------------
\* A failure is counted.
LEMMA FailCounted ==
  ASSUME seen \in Seen, NEW loses \in BOOLEAN
  PROVE  /\ Fail(loses).fails = seen.fails + 1 /\ seen.fails \in Nat
         /\ seen.fails <= Fail(loses).fails /\ Fail(loses).fails # 0
<1>1. seen.fails \in Nat
  BY DEF Seen
<1>2. Fail(loses).fails = seen.fails + 1
  BY DEF Fail, Seen
<1>. QED
  BY <1>1, <1>2

\* Only a test makes lines, and failures are not taken back.
CountsKept ==
  /\ seen.fails <= seen'.fails
  /\ seen'.made = seen.made \/ \E kind \in {"test", "diag"} : TestSends(kind)

\* It does so in every step.
LEMMA CountsGo ==
  ASSUME PrintIInv, [Next]_vars
  PROVE  CountsKept
<1>. USE DEF dbVars
<1>0. AllTypes /\ Fits(at, script) /\ LinesToPrint /\ at \in Places /\ seen \in Seen
      /\ script \in Seq(Statement) /\ temp \in Seq(Row) /\ s \in Memory
  BY DEF PrintIInv, ScriptFits, AllTypes
<1>. USE <1>0
<1>1. ASSUME Execute PROVE CountsKept
  <2>1. seen'.fails = seen.fails /\ seen'.made = seen.made
    BY <1>1 DEF Execute, Seen
  <2>. QED
    BY <2>1 DEF CountsKept, Seen
<1>2. ASSUME StatementFails PROVE CountsKept
  <2>. DEFINE b == Head(script).op \in {"insert", "print", "append"}
  <2>1. b \in BOOLEAN /\ (seen' = seen \/ seen' = Fail(b))
    BY <1>2 DEF StatementFails
  <2>. HIDE DEF b
  <2>. QED
    BY <2>1, FailSeen, FailCounted DEF CountsKept
<1>3. ASSUME PowerOn PROVE CountsKept
  <2>1. seen'.fails = seen.fails /\ seen'.made = seen.made
    BY <1>3 DEF PowerOn, Seen
  <2>. QED
    BY <2>1 DEF CountsKept, Seen
<1>4. ASSUME PowerOff PROVE CountsKept
  <2>1. seen'.fails = seen.fails /\ seen'.made = seen.made
    BY <1>4 DEF PowerOff, Seen
  <2>. QED
    BY <2>1 DEF CountsKept, Seen
<1>5. ASSUME SaveUnPlannedTestData PROVE CountsKept
  <2>. DEFINE b == Unplanned # <<>>
  <2>1. b \in BOOLEAN /\ FALSE \in BOOLEAN /\ (seen' = seen \/ \E c \in {b, FALSE} : seen' = Fail(c))
    BY <1>5 DEF SaveUnPlannedTestData
  <2>. HIDE DEF b
  <2>2. ASSUME NEW c \in BOOLEAN, seen' = Fail(c) PROVE CountsKept
    BY <2>2, FailSeen, FailCounted DEF CountsKept
  <2>3. CASE seen' = seen
    BY <2>3 DEF CountsKept, Seen
  <2>. QED
    BY <2>1, <2>2, <2>3
<1>6. ASSUME PrintUnplanned PROVE CountsKept
  <2>. DEFINE b == TRUE
  <2>1. b \in BOOLEAN /\ (seen' = seen \/ seen' = Fail(b))
    BY <1>6 DEF PrintUnplanned, PrintOut
  <2>. HIDE DEF b
  <2>. QED
    BY <2>1, FailSeen, FailCounted DEF CountsKept
<1>7. ASSUME AttemptRestored PROVE CountsKept
  <2>1. seen'.fails = seen.fails /\ seen'.made = seen.made
    BY <1>7 DEF AttemptRestored, Seen
  <2>. QED
    BY <2>1 DEF CountsKept, Seen
<1>8. ASSUME GetBoardAttempt PROVE CountsKept
  <2>1. PICK o \in {seen, Fail(FALSE)} :
          \/ \E c, x : seen' = [o EXCEPT !.chain = c, !.lossy = @ \/ x]
          \/ \E c : seen' = [o EXCEPT !.chain = c]
    <3>1. CASE \E attempt \in Continuable, functional \in BOOLEAN :
                 \/ Chosen(attempt, SequenceForAttempt(attempt), functional, seen.saved, seen)
                 \/ Chosen(attempt, -1, functional, NoChain, Fail(FALSE))
      BY <3>1, Zenon DEF Chosen
    <3>2. CASE \E attempt \in Attempts, functional \in BOOLEAN :
                 Chosen(attempt, -1, functional, [NoChain EXCEPT !.attempt = attempt], seen)
      BY <3>2, Zenon DEF Chosen
    <3>3. CASE seen' = [Fail(FALSE) EXCEPT !.chain = NoChain]
      BY <3>3, Zenon
    <3>. QED
      BY <1>8, <3>1, <3>2, <3>3 DEF GetBoardAttempt
  <2>2. o \in Seen /\ o.made = seen.made /\ seen.fails <= o.fails
    <3>1. Fail(FALSE) \in Seen /\ Fail(FALSE).made = seen.made /\ seen.fails <= Fail(FALSE).fails
      BY FailSeen, FailCounted
    <3>2. seen.fails <= seen.fails
      BY DEF Seen
    <3>. QED
      BY <2>1, <3>1, <3>2
  <2>3. seen'.made = o.made /\ seen'.fails = o.fails
    BY <2>1, <2>2 DEF Seen
  <2>. QED
    BY <2>2, <2>3 DEF CountsKept
<1>9. ASSUME GetNumberOfTests PROVE CountsKept
  <2>. DEFINE b == FALSE
  <2>1. b \in BOOLEAN /\ (seen' = seen \/ seen' = Fail(b))
    BY <1>9 DEF GetNumberOfTests
  <2>. HIDE DEF b
  <2>. QED
    BY <2>1, FailSeen, FailCounted DEF CountsKept
<1>10. ASSUME GetPreviousTestData PROVE CountsKept
  <2>1. PICK t \in {Restored, <<>>} : seen' = seen \/ seen' = Fail(t = <<>>)
    BY <1>10 DEF GetPreviousTestData
  <2>. DEFINE b == t = <<>>
  <2>2. b \in BOOLEAN /\ (seen' = seen \/ seen' = Fail(b))
    BY <2>1
  <2>. HIDE DEF b
  <2>. QED
    BY <2>2, FailSeen, FailCounted DEF CountsKept
<1>11. ASSUME BurninTest PROVE CountsKept
  <2>1. seen.fails \in Nat /\ seen'.fails \in {seen.fails, seen.fails + 1} /\ seen'.made = seen.made
    BY <1>11, BurnInBegins DEF Seen
  <2>. QED
    BY <2>1 DEF CountsKept
<1>12. ASSUME Cache PROVE CountsKept
  <2>. DEFINE b == FALSE
  <2>1. b \in BOOLEAN /\ (seen' = seen \/ seen' = Fail(b))
    BY <1>12 DEF Cache
  <2>. HIDE DEF b
  <2>. QED
    BY <2>1, FailSeen, FailCounted DEF CountsKept
<1>13. ASSUME StartTest PROVE CountsKept
  <2>1. seen'.fails = seen.fails /\ seen'.made = seen.made
    BY <1>13 DEF StartTest, Seen
  <2>. QED
    BY <2>1 DEF CountsKept, Seen
<1>14. ASSUME TestRestarts PROVE CountsKept
  <2>1. seen'.fails = seen.fails /\ seen'.made = seen.made
    BY <1>14 DEF TestRestarts, Seen
  <2>. QED
    BY <2>1 DEF CountsKept, Seen
<1>15. ASSUME TestEnds PROVE CountsKept
  <2>1. seen'.fails = seen.fails /\ seen'.made = seen.made
    BY <1>15 DEF TestEnds, Seen
  <2>. QED
    BY <2>1 DEF CountsKept, Seen
<1>16. ASSUME TimeIsUp PROVE CountsKept
  <2>1. seen'.fails = seen.fails /\ seen'.made = seen.made
    BY <1>16, BurnInEnds
  <2>. QED
    BY <2>1 DEF CountsKept, Seen
<1>17. ASSUME LastTestEnded PROVE CountsKept
  <2>1. seen'.fails = seen.fails /\ seen'.made = seen.made
    BY <1>17 DEF LastTestEnded, Seen
  <2>. QED
    BY <2>1 DEF CountsKept, Seen
<1>18. ASSUME NEW repeated \in BOOLEAN, ChooseTests(repeated) PROVE CountsKept
  BY <1>18 DEF ChooseTests, CountsKept, Seen
<1>19. ASSUME NEW kind \in {"test", "diag"}, TestSends(kind) PROVE CountsKept
  <2>1. seen' = [seen EXCEPT !.made[kind] = @ + 1]
    BY <1>19 DEF TestSends
  <2>2. seen'.fails = seen.fails
    BY <2>1 DEF Seen
  <2>. QED
    BY <1>19, <2>2 DEF CountsKept, Seen
<1>20. ASSUME BeginPrintout PROVE CountsKept
  <2>1. seen'.fails = seen.fails /\ seen'.made = seen.made
    BY <1>20 DEF BeginPrintout, Seen
  <2>. QED
    BY <2>1 DEF CountsKept, Seen
<1>21. ASSUME Printout PROVE CountsKept
  <2>. DEFINE b == TRUE
  <2>1. b \in BOOLEAN /\ (seen' = seen \/ seen' = Fail(b))
    BY <1>21 DEF Printout, PrintOut
  <2>. HIDE DEF b
  <2>. QED
    BY <2>1, FailSeen, FailCounted DEF CountsKept
<1>22. ASSUME RemoveData PROVE CountsKept
  <2>1. seen'.fails = seen.fails /\ seen'.made = seen.made
    BY <1>22 DEF RemoveData, Seen
  <2>. QED
    BY <2>1 DEF CountsKept, Seen
<1>23. ASSUME ListenerKeeps PROVE CountsKept
  <2>1. seen'.fails = seen.fails /\ seen'.made = seen.made
    BY <1>23 DEF ListenerKeeps, Seen
  <2>. QED
    BY <2>1 DEF CountsKept, Seen
<1>24. ASSUME ListenerStores PROVE CountsKept
  <2>1. seen'.fails = seen.fails /\ seen'.made = seen.made
    BY <1>24 DEF ListenerStores, Seen
  <2>. QED
    BY <2>1 DEF CountsKept, Seen
<1>25. CASE UNCHANGED vars
  BY <1>25 DEF vars, CountsKept, Seen
<1>. QED
  BY <1>1, <1>2, <1>3, <1>4, <1>5, <1>6, <1>7, <1>8, <1>9, <1>10, <1>11, <1>12, <1>13, <1>14,
       <1>15, <1>16, <1>17, <1>18, <1>19, <1>20, <1>21, <1>22, <1>23, <1>24, <1>25 DEF Next

\* Main counts the tests as they end.
LEMMA CountedKept ==
  ASSUME PrintIInv, Counted, [Next]_vars
  PROVE  Counted'
<1>. USE DEF dbVars
<1>0. AllTypes /\ Fits(at, script) /\ LinesToPrint /\ at \in Places /\ seen \in Seen
      /\ script \in Seq(Statement) /\ temp \in Seq(Row) /\ s \in Memory
  BY DEF PrintIInv, ScriptFits, AllTypes
<1>. USE <1>0
<1>1. ASSUME Execute PROVE Counted'
  BY <1>1 DEF Execute, Counted
<1>2. ASSUME StatementFails PROVE Counted'
  BY <1>2 DEF StatementFails, MayFail, Fail, Counted
<1>3. ASSUME PowerOn PROVE Counted'
  <2>1. at' = "info" /\ s' = Fresh
    BY <1>3 DEF PowerOn, Goto
  <2>. QED
    BY <2>1 DEF Counted, Fresh
<1>4. ASSUME PowerOff PROVE Counted'
  <2>1. at' = "off" /\ s' = Fresh
    BY <1>4 DEF PowerOff, Goto
  <2>. QED
    BY <2>1 DEF Counted, Fresh
<1>5. ASSUME SaveUnPlannedTestData PROVE Counted'
  <2>1. /\ at = "info" /\ at' \in {"attempt", "unplanned"}
        /\ s' = s \/ \E a : s' = [s EXCEPT !.attempt = a]
    BY <1>5 DEF SaveUnPlannedTestData, Ready, Goto
  <2>2. s'.next = s.next /\ s'.executions = s.executions
    BY <2>1 DEF Memory
  <2>. QED
    BY <2>1, <2>2 DEF Counted
<1>6. ASSUME PrintUnplanned PROVE Counted'
  BY <1>6 DEF PrintUnplanned, PrintOut, Ready, Goto, MayFail, Fail, Counted
<1>7. ASSUME AttemptRestored PROVE Counted'
  <2>1. at = "printed" /\ at' = "attempt" /\ s' = [s EXCEPT !.attempt = 0]
    BY <1>7 DEF AttemptRestored, Ready, Goto
  <2>2. s'.next = s.next /\ s'.executions = s.executions
    BY <2>1 DEF Memory
  <2>. QED
    BY <2>1, <2>2 DEF Counted
<1>8. ASSUME GetBoardAttempt PROVE Counted'
  <2>0. at = "attempt" /\ at' = "tests"
    BY <1>8 DEF GetBoardAttempt, Ready, Goto
  <2>1. s' = s \/ \E a, f, q : s' = [s EXCEPT !.attempt = a, !.functional = f, !.sequence = q]
    BY <1>8, AttemptChosen
  <2>2. s'.next = s.next /\ s'.executions = s.executions
    BY <2>1 DEF Memory
  <2>. QED
    BY <2>0, <2>2 DEF Counted
<1>9. ASSUME GetNumberOfTests PROVE Counted'
  <2>1. /\ at = "tests" /\ at' = "restore"
        /\ s' = s \/ s' = [s EXCEPT !.numTests = NumberOfTests(s.attempt)]
    BY <1>9 DEF GetNumberOfTests, Ready, Goto
  <2>2. s'.next = s.next /\ s'.executions = s.executions
    BY <2>1 DEF Memory
  <2>. QED
    BY <2>1, <2>2 DEF Counted
<1>10. ASSUME GetPreviousTestData PROVE Counted'
  <2>1. PICK t, d : s' = [s EXCEPT !.testData = t, !.diagData = d]
    BY <1>10 DEF GetPreviousTestData
  <2>2. at = "restore" /\ at' = IF s.functional THEN "stored" ELSE "burn"
    BY <1>10 DEF GetPreviousTestData, Ready, Goto
  <2>3. s'.next = s.next /\ s'.executions = s.executions /\ s'.functional = s.functional
    BY <2>1 DEF Memory
  <2>. QED
    BY <2>2, <2>3 DEF Counted
<1>11. ASSUME BurninTest PROVE Counted'
  <2>1. at = "burn" /\ at' = "burning" /\ \E c : s' = [s EXCEPT !.cache = c, !.current = s.numTests - 1]
    BY <1>11, BurnInBegins
  <2>2. s'.next = s.next /\ s'.executions = s.executions /\ s'.functional = s.functional
    BY <2>1 DEF Memory
  <2>. QED
    BY <2>1, <2>2 DEF Counted
<1>12. ASSUME Cache PROVE Counted'
  <2>1. at = "stored" /\ at' = "choose" /\ \E c : s' = [s EXCEPT !.cache = c]
    BY <1>12 DEF Cache, Ready, Goto
  <2>2. s'.next = s.next /\ s'.executions = s.executions
    BY <2>1 DEF Memory
  <2>. QED
    BY <2>1, <2>2 DEF Counted
<1>13. ASSUME StartTest PROVE Counted'
  <2>1. at = "run" /\ at' = "testing" /\ s' = [s EXCEPT !.current = s.next, !.next = @ + 1]
    BY <1>13 DEF StartTest, Ready, Goto
  <2>2. s'.next = s.next + 1 /\ s'.executions = s.executions
    BY <2>1 DEF Memory
  <2>. QED
    BY <2>1, <2>2 DEF Counted
<1>14. ASSUME TestRestarts PROVE Counted'
  BY <1>14 DEF TestRestarts, Testing, Ready, Counted
<1>15. ASSUME TestEnds PROVE Counted'
  <2>1. at = "testing" /\ at' = "run" /\ s' = [s EXCEPT !.executions = @ + 1]
    BY <1>15 DEF TestEnds, Ready, Goto
  <2>2. s'.next = s.next /\ s'.executions = s.executions + 1
    BY <2>1 DEF Memory
  <2>. QED
    BY <2>1, <2>2 DEF Counted
<1>16. ASSUME TimeIsUp PROVE Counted'
  BY <1>16 DEF TimeIsUp, Ready, Goto, Counted
<1>17. ASSUME LastTestEnded PROVE Counted'
  BY <1>17 DEF LastTestEnded, Ready, Goto, Counted
<1>18. ASSUME NEW repeated \in BOOLEAN, ChooseTests(repeated) PROVE Counted'
  <2>1. at = "choose" /\ at' = "run" /\ s' = [s EXCEPT !.numTests = ActiveTests(s.cache, @, repeated)]
    BY <1>18 DEF ChooseTests, Ready, Goto
  <2>2. s'.next = s.next /\ s'.executions = s.executions
    BY <2>1 DEF Memory
  <2>. QED
    BY <2>1, <2>2 DEF Counted
<1>19. ASSUME NEW kind \in {"test", "diag"}, TestSends(kind) PROVE Counted'
  BY <1>19 DEF TestSends, Testing, Ready, Counted
<1>20. ASSUME BeginPrintout PROVE Counted'
  BY <1>20 DEF BeginPrintout, Ready, Goto, Counted
<1>21. ASSUME Printout PROVE Counted'
  BY <1>21 DEF Printout, PrintOut, Ready, Goto, MayFail, Fail, Counted
<1>22. ASSUME RemoveData PROVE Counted'
  BY <1>22 DEF RemoveData, Ready, Goto, Counted
<1>23. ASSUME ListenerKeeps PROVE Counted'
  <2>1. at' = at
    BY <1>23 DEF ListenerKeeps
  <2>2. /\ s'.next = s.next /\ s'.executions = s.executions
        /\ s'.functional = s.functional /\ s'.cache = s.cache
    BY <1>23, Keeping DEF Memory
  <2>. QED
    BY <2>1, <2>2 DEF Counted
<1>24. ASSUME ListenerStores PROVE Counted'
  BY <1>24 DEF ListenerStores, Goto, Counted
<1>25. CASE UNCHANGED vars
  BY <1>25 DEF vars, Counted
<1>. QED
  BY <1>1, <1>2, <1>3, <1>4, <1>5, <1>6, <1>7, <1>8, <1>9, <1>10, <1>11, <1>12, <1>13, <1>14,
       <1>15, <1>16, <1>17, <1>18, <1>19, <1>20, <1>21, <1>22, <1>23, <1>24, <1>25 DEF Next

\* Nothing that is handled comes from elsewhere.
HandledStays == Handled' \subseteq Handled

\* It does not when the step stores no line, and what the script stores and the arrays have
\* was handled before.
LEMMA StaysHandled ==
  ASSUME seen'.stored = seen.stored, temp' = temp, InFlight' \subseteq Handled,
         Range(s'.testData) \subseteq Handled, Range(s'.diagData) \subseteq Handled
  PROVE  HandledStays
<1>1. InTemp' = InTemp
  BY DEF InTemp
<1>. QED
  BY <1>1 DEF HandledStays, Handled

\* Neither does it when both stay as they are or become empty.
LEMMA LeftHandled ==
  ASSUME seen'.stored = seen.stored, temp' = temp, script' = script \/ InFlight' = {},
         s'.testData \in {s.testData, <<>>}, s'.diagData \in {s.diagData, <<>>}
  PROVE  HandledStays
<1>1. Range(<<>>) = {}
  BY EmptyParts
<1>2. Range(s'.testData) \subseteq Handled /\ Range(s'.diagData) \subseteq Handled
  BY <1>1 DEF Handled
<1>3. InFlight' \subseteq Handled
  BY InFlightIs DEF Handled
<1>. QED
  BY <1>2, <1>3, StaysHandled

\* No statements store nothing, nor do those about the board or a printout.
LEMMA StoresNone ==
  ASSUME NEW q \in Seq(Statement), q = <<>> \/ OfInfo(q) \/ OfPrint(q) \/ q = <<Clear>>
  PROVE  InsertedBy(q) = {}
<1>1. \A x \in Range(q) : x.op # "insert"
  <2>1. CASE OfInfo(q)
    BY <2>1 DEF OfInfo, Range, InfoOps
  <2>2. CASE OfPrint(q)
    BY <2>2 DEF OfPrint, Range, PrintOps
  <2>3. CASE q = <<>>
    BY <2>3, EmptyParts
  <2>4. CASE q = <<Clear>>
    BY <2>4 DEF Range, Clear
  <2>. QED
    BY <2>1, <2>2, <2>3, <2>4
<1>. QED
  BY <1>1 DEF InsertedBy

\* Lines come from the tests by the listener only.
LEMMA HandledKept ==
  ASSUME PrintIInv, [Next]_vars
  PROVE  ListenerKeeps \/ HandledStays
<1>. USE DEF dbVars
<1>0. AllTypes /\ Fits(at, script) /\ LinesToPrint /\ at \in Places /\ seen \in Seen
      /\ script \in Seq(Statement) /\ temp \in Seq(Row) /\ s \in Memory
  BY DEF PrintIInv, ScriptFits, AllTypes
<1>. USE <1>0
<1>99. script' \in Seq(Statement) /\ Fits(at', script')
  BY ScriptTyped
<1>1. ASSUME Execute PROVE ListenerKeeps \/ HandledStays
  <2>1. /\ script[1] \in Statement /\ script' = Tail(script) /\ script # <<>>
        /\ script[1].op = "clear" => InTemp' = {}
        /\ script[1].op = "insert" => InTemp' = InTemp \cup {script[1].row.line}
        /\ script[1].op \in InfoOps \cup PrintOps => temp' = temp
    BY <1>1, Executing
  <2>2. InFlight = InFlight' \cup (IF script[1].op = "insert" THEN {script[1].row.line} ELSE {})
    BY <2>1, InFlightIs, OfScript
  <2>3. s' = s
    BY <1>1 DEF Execute
  <2>4. seen'.stored = seen.stored \cup (IF script[1].op = "insert" THEN {script[1].row.line} ELSE {})
    <3>1. seen' = IF script[1].op # "insert" THEN seen
                  ELSE [seen EXCEPT !.stored = @ \cup {script[1].row.line}]
      BY <1>1, <2>1, FirstOp DEF Execute
    <3>. QED
      BY <3>1 DEF Seen
  <2>5. InTemp' \subseteq InTemp \cup (IF script[1].op = "insert" THEN {script[1].row.line} ELSE {})
    <3>1. temp' = temp => InTemp' = InTemp
      BY DEF InTemp
    <3>. QED
      BY <2>1, <3>1, StatementParts
  <2>. QED
    BY <2>2, <2>3, <2>4, <2>5 DEF HandledStays, Handled
<1>98. SUFFICES ASSUME seen'.stored = seen.stored PROVE ListenerKeeps \/ HandledStays
  BY <1>1, SeenGrows
<1>2. ASSUME StatementFails PROVE ListenerKeeps \/ HandledStays
  <2>1. temp' = temp /\ s' = s /\ script # <<>> /\ script' \in {Tail(script), <<>>}
    BY <1>2 DEF StatementFails, Rest
  <2>2. InFlight' \subseteq InFlight
    BY <2>1, InFlightIs, OfScript, OfEmptyScript
  <2>. QED
    BY <1>98, <1>2, <2>1, <2>2, StaysHandled DEF Handled
<1>3. ASSUME PowerOn PROVE ListenerKeeps \/ HandledStays
  <2>1. temp' = temp /\ s'.testData = <<>> /\ s'.diagData = <<>> /\ at' = "info"
    BY <1>3 DEF PowerOn, Goto, Fresh
  <2>2. InFlight' = {}
    BY <1>99, <2>1, InFlightIs, StoresNone DEF Fits
  <2>. QED
    BY <1>98, <1>3, <2>1, <2>2, LeftHandled
<1>4. ASSUME PowerOff PROVE ListenerKeeps \/ HandledStays
  <2>1. temp' = temp /\ s'.testData = <<>> /\ s'.diagData = <<>> /\ at' = "off"
    BY <1>4 DEF PowerOff, Goto, Fresh
  <2>2. InFlight' = {}
    BY <1>99, <2>1, InFlightIs, StoresNone DEF Fits
  <2>. QED
    BY <1>98, <1>4, <2>1, <2>2, LeftHandled
<1>5. ASSUME SaveUnPlannedTestData PROVE ListenerKeeps \/ HandledStays
  <2>1. temp' = temp /\ (s' = s \/ \E a : s' = [s EXCEPT !.attempt = a])
    BY <1>5 DEF SaveUnPlannedTestData, Ready, Goto, MayFail, Fail
  <2>2. s'.testData = s.testData /\ s'.diagData = s.diagData
    BY <2>1 DEF Memory
  <2>3. InFlight' = {}
    <3>1. at' \in {"attempt", "unplanned"}
      BY <1>5 DEF SaveUnPlannedTestData, Ready, Goto, MayFail, Fail
    <3>2. InFlight' = {}
      BY <1>99, <3>1, InFlightIs, StoresNone DEF Fits
    <3>. QED
      BY <3>2
  <2>. QED
    BY <1>98, <1>5, <2>1, <2>2, <2>3, LeftHandled
<1>6. ASSUME PrintUnplanned PROVE ListenerKeeps \/ HandledStays
  <2>1. temp' = temp /\ s' = s
    BY <1>6 DEF PrintUnplanned, PrintOut, Ready, Goto, MayFail, Fail
  <2>2. s'.testData = s.testData /\ s'.diagData = s.diagData
    BY <2>1 DEF Memory
  <2>3. InFlight' = {}
    <3>1. at' \in {"printed"}
      BY <1>6 DEF PrintUnplanned, PrintOut, Ready, Goto, MayFail, Fail
    <3>2. InFlight' = {}
      BY <1>99, <3>1, InFlightIs, StoresNone DEF Fits
    <3>. QED
      BY <3>2
  <2>. QED
    BY <1>98, <1>6, <2>1, <2>2, <2>3, LeftHandled
<1>7. ASSUME AttemptRestored PROVE ListenerKeeps \/ HandledStays
  <2>1. temp' = temp /\ s' = [s EXCEPT !.attempt = 0]
    BY <1>7 DEF AttemptRestored, Ready, Goto
  <2>2. s'.testData = s.testData /\ s'.diagData = s.diagData
    BY <2>1 DEF Memory
  <2>3. InFlight' = {}
    <3>1. at' \in {"attempt"}
      BY <1>7 DEF AttemptRestored, Ready, Goto
    <3>2. InFlight' = {}
      BY <1>99, <3>1, InFlightIs, StoresNone DEF Fits
    <3>. QED
      BY <3>2
  <2>. QED
    BY <1>98, <1>7, <2>1, <2>2, <2>3, LeftHandled
<1>8. ASSUME GetBoardAttempt PROVE ListenerKeeps \/ HandledStays
  <2>1. temp' = temp /\ at' = "tests"
    BY <1>8 DEF GetBoardAttempt, Goto
  <2>2. s' = s \/ \E a, f, q : s' = [s EXCEPT !.attempt = a, !.functional = f, !.sequence = q]
    BY <1>8, AttemptChosen
  <2>3. s'.testData = s.testData /\ s'.diagData = s.diagData
    BY <2>2 DEF Memory
  <2>4. InFlight' = {}
    BY <1>99, <2>1, InFlightIs, StoresNone DEF Fits
  <2>. QED
    BY <1>98, <1>8, <2>1, <2>3, <2>4, LeftHandled
<1>9. ASSUME GetNumberOfTests PROVE ListenerKeeps \/ HandledStays
  <2>1. temp' = temp /\ (s' = s \/ s' = [s EXCEPT !.numTests = NumberOfTests(s.attempt)])
    BY <1>9 DEF GetNumberOfTests, Ready, Goto, MayFail, Fail
  <2>2. s'.testData = s.testData /\ s'.diagData = s.diagData
    BY <2>1 DEF Memory
  <2>3. InFlight' = {}
    <3>1. at' \in {"restore"}
      BY <1>9 DEF GetNumberOfTests, Ready, Goto, MayFail, Fail
    <3>2. InFlight' = {}
      BY <1>99, <3>1, InFlightIs, StoresNone DEF Fits
    <3>. QED
      BY <3>2
  <2>. QED
    BY <1>98, <1>9, <2>1, <2>2, <2>3, LeftHandled
<1>10. ASSUME GetPreviousTestData PROVE ListenerKeeps \/ HandledStays
  <2>1. temp' = temp
    BY <1>10 DEF GetPreviousTestData
  <2>2. PICK t \in {Restored, <<>>}, d \in {Restored, <<>>} :
          /\ s' = [s EXCEPT !.testData = t, !.diagData = d]
          /\ IF s.functional
             THEN script' = InsertTemporaryTestData(FALSE, s.attempt, s.sequence, t, d)
             ELSE script' = <<>>
    BY <1>10 DEF GetPreviousTestData, Goto
  <2>3. /\ t \in Seq(Line) /\ d \in Seq(Line) /\ Range(t) \subseteq InTemp /\ Range(d) \subseteq InTemp
    <3>1. /\ TestData(TRUE) \in Seq(Line) /\ <<>> \in Seq(Line) /\ Range(<<>>) = {}
          /\ \A l \in Range(TestData(TRUE)) : \E k \in DOMAIN temp : l = temp[k].line
      BY KeptRows, EmptyParts
    <3>2. Range(TestData(TRUE)) \subseteq InTemp
      BY <3>1 DEF InTemp
    <3>. QED
      BY <3>1, <3>2, <2>2 DEF Restored
  <2>4. s'.testData = t /\ s'.diagData = d
    BY <2>2 DEF Memory
  <2>5. InFlight' \subseteq Range(t) \cup Range(d)
    <3>1. CASE ~s.functional
      BY <2>2, <3>1, InFlightIs, OfEmptyScript
    <3>2. CASE s.functional
      <4>1. s.attempt \in Int /\ s.sequence \in Int /\ FALSE \in BOOLEAN
        BY DEF Memory
      <4>2. StoresLines(InsertTemporaryTestData(FALSE, s.attempt, s.sequence, t, d), t, d)
        BY <2>3, <4>1, StoreStatements
      <4>. QED
        BY <2>2, <3>2, <4>2, InFlightIs DEF StoresLines
    <3>. QED
      BY <3>1, <3>2
  <2>6. InTemp \subseteq Handled
    BY DEF Handled
  <2>. QED
    BY <1>98, <1>10, <2>1, <2>3, <2>4, <2>5, <2>6, StaysHandled
<1>11. ASSUME BurninTest PROVE ListenerKeeps \/ HandledStays
  <2>1. /\ temp' = temp /\ at' = "burning"
        /\ \E c : s' = [s EXCEPT !.cache = c, !.current = s.numTests - 1]
    BY <1>11, BurnInBegins
  <2>2. s'.testData = s.testData /\ s'.diagData = s.diagData
    BY <2>1 DEF Memory
  <2>3. InFlight' = {}
    BY <1>99, <2>1, InFlightIs, StoresNone DEF Fits
  <2>. QED
    BY <1>98, <1>11, <2>1, <2>2, <2>3, LeftHandled
<1>12. ASSUME Cache PROVE ListenerKeeps \/ HandledStays
  <2>1. temp' = temp /\ \E c : s' = [s EXCEPT !.cache = c]
    BY <1>12 DEF Cache, Ready, Goto, MayFail, Fail
  <2>2. s'.testData = s.testData /\ s'.diagData = s.diagData
    BY <2>1 DEF Memory
  <2>3. InFlight' = {}
    <3>1. at' \in {"choose"}
      BY <1>12 DEF Cache, Ready, Goto, MayFail, Fail
    <3>2. InFlight' = {}
      BY <1>99, <3>1, InFlightIs, StoresNone DEF Fits
    <3>. QED
      BY <3>2
  <2>. QED
    BY <1>98, <1>12, <2>1, <2>2, <2>3, LeftHandled
<1>13. ASSUME StartTest PROVE ListenerKeeps \/ HandledStays
  <2>1. temp' = temp /\ s' = [s EXCEPT !.current = s.next, !.next = @ + 1]
    BY <1>13 DEF StartTest, Ready, Goto
  <2>2. s'.testData = s.testData /\ s'.diagData = s.diagData
    BY <2>1 DEF Memory
  <2>3. InFlight' = {}
    <3>1. at' \in {"testing"}
      BY <1>13 DEF StartTest, Ready, Goto
    <3>2. InFlight' = {}
      BY <1>99, <3>1, InFlightIs, StoresNone DEF Fits
    <3>. QED
      BY <3>2
  <2>. QED
    BY <1>98, <1>13, <2>1, <2>2, <2>3, LeftHandled
<1>14. ASSUME TestRestarts PROVE ListenerKeeps \/ HandledStays
  <2>1. temp' = temp /\ s' = s
    BY <1>14 DEF TestRestarts
  <2>2. s'.testData = s.testData /\ s'.diagData = s.diagData
    BY <2>1 DEF Memory
  <2>3. script' = script
    BY <1>14 DEF TestRestarts
  <2>. QED
    BY <1>98, <1>14, <2>1, <2>2, <2>3, LeftHandled
<1>15. ASSUME TestEnds PROVE ListenerKeeps \/ HandledStays
  <2>1. /\ temp' = temp /\ s'.testData = s.testData /\ s'.diagData = s.diagData
        /\ script' = InsertTemporaryTestData(FALSE, s.attempt, s.current, s.testData, s.diagData)
    BY <1>15 DEF TestEnds, Goto, Memory
  <2>2. InFlight' = Range(s.testData) \cup Range(s.diagData)
    <3>1. /\ s.testData \in Seq(Line) /\ s.diagData \in Seq(Line) /\ s.attempt \in Int /\ s.current \in Int
          /\ FALSE \in BOOLEAN
      BY DEF Memory
    <3>2. StoresLines(InsertTemporaryTestData(FALSE, s.attempt, s.current, s.testData, s.diagData),
                      s.testData, s.diagData)
      BY <3>1, StoreStatements
    <3>. QED
      BY <2>1, <3>2, InFlightIs DEF StoresLines
  <2>. QED
    BY <1>98, <1>15, <2>1, <2>2, StaysHandled DEF Handled
<1>16. ASSUME TimeIsUp PROVE ListenerKeeps \/ HandledStays
  <2>1. temp' = temp /\ s' = s
    BY <1>16 DEF TimeIsUp, Ready, Goto
  <2>2. s'.testData = s.testData /\ s'.diagData = s.diagData
    BY <2>1 DEF Memory
  <2>3. InFlight' = {}
    <3>1. at' \in {"done"}
      BY <1>16 DEF TimeIsUp, Ready, Goto
    <3>2. InFlight' = {}
      BY <1>99, <3>1, InFlightIs, StoresNone DEF Fits
    <3>. QED
      BY <3>2
  <2>. QED
    BY <1>98, <1>16, <2>1, <2>2, <2>3, LeftHandled
<1>17. ASSUME LastTestEnded PROVE ListenerKeeps \/ HandledStays
  <2>1. temp' = temp /\ s' = s
    BY <1>17 DEF LastTestEnded, Ready, Goto
  <2>2. s'.testData = s.testData /\ s'.diagData = s.diagData
    BY <2>1 DEF Memory
  <2>3. InFlight' = {}
    <3>1. at' \in {"print", "done"}
      BY <1>17 DEF LastTestEnded, Ready, Goto
    <3>2. InFlight' = {}
      BY <1>99, <3>1, InFlightIs, StoresNone DEF Fits
    <3>. QED
      BY <3>2
  <2>. QED
    BY <1>98, <1>17, <2>1, <2>2, <2>3, LeftHandled
<1>18. ASSUME NEW repeated \in BOOLEAN, ChooseTests(repeated) PROVE ListenerKeeps \/ HandledStays
  <2>1. temp' = temp /\ s' = [s EXCEPT !.numTests = ActiveTests(s.cache, @, repeated)]
    BY <1>18 DEF ChooseTests, Ready, Goto
  <2>2. s'.testData = s.testData /\ s'.diagData = s.diagData
    BY <2>1 DEF Memory
  <2>3. InFlight' = {}
    <3>1. script' = <<>>
      BY <1>18 DEF ChooseTests, Ready, Goto
    <3>2. InFlight' = {}
      BY <1>99, <3>1, InFlightIs, StoresNone
    <3>. QED
      BY <3>2
  <2>. QED
    BY <1>98, <1>18, <2>1, <2>2, <2>3, LeftHandled
<1>19. ASSUME NEW kind \in {"test", "diag"}, TestSends(kind) PROVE ListenerKeeps \/ HandledStays
  <2>1. temp' = temp /\ s' = s
    BY <1>19 DEF TestSends
  <2>2. s'.testData = s.testData /\ s'.diagData = s.diagData
    BY <2>1 DEF Memory
  <2>3. script' = script
    BY <1>19 DEF TestSends
  <2>. QED
    BY <1>98, <1>19, <2>1, <2>2, <2>3, LeftHandled
<1>20. ASSUME BeginPrintout PROVE ListenerKeeps \/ HandledStays
  <2>1. temp' = temp /\ s' = s
    BY <1>20 DEF BeginPrintout, Ready, Goto
  <2>2. s'.testData = s.testData /\ s'.diagData = s.diagData
    BY <2>1 DEF Memory
  <2>3. InFlight' = {}
    <3>1. at' \in {"remove", "number"}
      BY <1>20 DEF BeginPrintout, Ready, Goto
    <3>2. InFlight' = {}
      BY <1>99, <3>1, InFlightIs, StoresNone DEF Fits
    <3>. QED
      BY <3>2
  <2>. QED
    BY <1>98, <1>20, <2>1, <2>2, <2>3, LeftHandled
<1>21. ASSUME Printout PROVE ListenerKeeps \/ HandledStays
  <2>1. temp' = temp /\ s' = s
    BY <1>21 DEF Printout, PrintOut, Ready, Goto, MayFail, Fail
  <2>2. s'.testData = s.testData /\ s'.diagData = s.diagData
    BY <2>1 DEF Memory
  <2>3. InFlight' = {}
    <3>1. at' \in {"remove"}
      BY <1>21 DEF Printout, PrintOut, Ready, Goto, MayFail, Fail
    <3>2. InFlight' = {}
      BY <1>99, <3>1, InFlightIs, StoresNone DEF Fits
    <3>. QED
      BY <3>2
  <2>. QED
    BY <1>98, <1>21, <2>1, <2>2, <2>3, LeftHandled
<1>22. ASSUME RemoveData PROVE ListenerKeeps \/ HandledStays
  <2>1. temp' = temp /\ s' = s
    BY <1>22 DEF RemoveData, Ready, Goto
  <2>2. s'.testData = s.testData /\ s'.diagData = s.diagData
    BY <2>1 DEF Memory
  <2>3. InFlight' = {}
    <3>1. at' \in {"done"}
      BY <1>22 DEF RemoveData, Ready, Goto
    <3>2. InFlight' = {}
      BY <1>99, <3>1, InFlightIs, StoresNone DEF Fits
    <3>. QED
      BY <3>2
  <2>. QED
    BY <1>98, <1>22, <2>1, <2>2, <2>3, LeftHandled
<1>23. ASSUME ListenerKeeps PROVE ListenerKeeps \/ HandledStays
  BY <1>23
<1>24. ASSUME ListenerStores PROVE ListenerKeeps \/ HandledStays
  <2>1. /\ temp' = temp /\ s'.testData = s.testData /\ s'.diagData = s.diagData
        /\ script' = InsertTemporaryTestData(TRUE, s.attempt, s.current, s.testData, s.diagData)
    BY <1>24 DEF ListenerStores, Goto, Memory
  <2>2. InFlight' = Range(s.testData) \cup Range(s.diagData)
    <3>1. /\ s.testData \in Seq(Line) /\ s.diagData \in Seq(Line) /\ s.attempt \in Int /\ s.current \in Int
          /\ TRUE \in BOOLEAN
      BY DEF Memory
    <3>2. StoresLines(InsertTemporaryTestData(TRUE, s.attempt, s.current, s.testData, s.diagData),
                      s.testData, s.diagData)
      BY <3>1, StoreStatements
    <3>. QED
      BY <2>1, <3>2, InFlightIs DEF StoresLines
  <2>. QED
    BY <1>98, <1>24, <2>1, <2>2, StaysHandled DEF Handled
<1>25. CASE UNCHANGED vars
  <2>1. temp' = temp /\ s' = s /\ script' = script /\ seen' = seen
    BY <1>25 DEF vars
  <2>. QED
    BY <2>1, LeftHandled
<1>. QED
  BY <1>1, <1>2, <1>3, <1>4, <1>5, <1>6, <1>7, <1>8, <1>9, <1>10, <1>11, <1>12, <1>13, <1>14,
       <1>15, <1>16, <1>17, <1>18, <1>19, <1>20, <1>21, <1>22, <1>23, <1>24, <1>25 DEF Next

\* What is handled are lines.
LEMMA HandledLines ==
  ASSUME AllTypes
  PROVE  Handled \subseteq Line
<1>. USE DEF AllTypes
<1>1. seen.stored \subseteq Line
  BY DEF Seen
<1>2. InTemp \subseteq Line
  <2>1. \A k \in DOMAIN temp : temp[k] \in Row
    OBVIOUS
  <2>. QED
    BY <2>1 DEF InTemp, Row
<1>3. InFlight \subseteq Line
  <2>1. \A k \in DOMAIN script : script[k] \in Statement
    OBVIOUS
  <2>2. \A k \in DOMAIN script : script[k].op = "insert" => script[k].row.line \in Line
    BY <2>1, StatementParts
  <2>. QED
    BY <2>2 DEF InFlight
<1>4. Range(s.testData) \subseteq Line /\ Range(s.diagData) \subseteq Line
  <2>1. s.testData \in Seq(Line) /\ s.diagData \in Seq(Line)
    BY DEF Memory
  <2>2. \A q \in Seq(Line) : Range(q) \subseteq Line
    BY DEF Range
  <2>. QED
    BY <2>1, <2>2
<1>. QED
  BY <1>1, <1>2, <1>3, <1>4 DEF Handled

\* Only tests send, and only the listener handles.
OutputStep ==
  \/ output' \in {output, <<>>}
  \/ TestRestarts \/ ListenerKeeps \/ \E kind \in {"test", "diag"} : TestSends(kind)

\* It is so in every step.
LEMMA OutputSteps ==
  ASSUME PrintIInv, [Next]_vars
  PROVE  OutputStep
<1>. USE DEF dbVars
<1>0. AllTypes /\ Fits(at, script) /\ LinesToPrint /\ at \in Places /\ seen \in Seen
      /\ script \in Seq(Statement) /\ temp \in Seq(Row) /\ s \in Memory
  BY DEF PrintIInv, ScriptFits, AllTypes
<1>. USE <1>0
<1>1. ASSUME Execute PROVE OutputStep
  BY <1>1 DEF Execute, OutputStep
<1>2. ASSUME StatementFails PROVE OutputStep
  BY <1>2 DEF StatementFails, MayFail, Fail, OutputStep
<1>3. ASSUME PowerOn PROVE OutputStep
  BY <1>3 DEF PowerOn, Goto, OutputStep
<1>4. ASSUME PowerOff PROVE OutputStep
  BY <1>4 DEF PowerOff, Goto, OutputStep
<1>5. ASSUME SaveUnPlannedTestData PROVE OutputStep
  BY <1>5 DEF SaveUnPlannedTestData, Ready, Goto, MayFail, Fail, OutputStep
<1>6. ASSUME PrintUnplanned PROVE OutputStep
  BY <1>6 DEF PrintUnplanned, PrintOut, Ready, Goto, MayFail, Fail, OutputStep
<1>7. ASSUME AttemptRestored PROVE OutputStep
  BY <1>7 DEF AttemptRestored, Ready, Goto, OutputStep
<1>8. ASSUME GetBoardAttempt PROVE OutputStep
  BY <1>8 DEF GetBoardAttempt, Ready, Goto, Chosen, MayFail, Fail, OutputStep
<1>9. ASSUME GetNumberOfTests PROVE OutputStep
  BY <1>9 DEF GetNumberOfTests, Ready, Goto, MayFail, Fail, OutputStep
<1>10. ASSUME GetPreviousTestData PROVE OutputStep
  BY <1>10 DEF GetPreviousTestData, Ready, Goto, MayFail, Fail, OutputStep
<1>11. ASSUME BurninTest PROVE OutputStep
  BY <1>11 DEF BurninTest, Ready, Goto, OutputStep
<1>12. ASSUME Cache PROVE OutputStep
  BY <1>12 DEF Cache, Ready, Goto, MayFail, Fail, OutputStep
<1>13. ASSUME StartTest PROVE OutputStep
  BY <1>13 DEF StartTest, Ready, Goto, OutputStep
<1>14. ASSUME TestRestarts PROVE OutputStep
  BY <1>14 DEF OutputStep
<1>15. ASSUME TestEnds PROVE OutputStep
  BY <1>15 DEF TestEnds, Ready, Goto, OutputStep
<1>16. ASSUME TimeIsUp PROVE OutputStep
  BY <1>16 DEF TimeIsUp, Ready, Goto, OutputStep
<1>17. ASSUME LastTestEnded PROVE OutputStep
  BY <1>17 DEF LastTestEnded, Ready, Goto, OutputStep
<1>18. ASSUME NEW repeated \in BOOLEAN, ChooseTests(repeated) PROVE OutputStep
  BY <1>18 DEF ChooseTests, Ready, Goto, OutputStep
<1>19. ASSUME NEW kind \in {"test", "diag"}, TestSends(kind) PROVE OutputStep
  BY <1>19 DEF OutputStep
<1>20. ASSUME BeginPrintout PROVE OutputStep
  BY <1>20 DEF BeginPrintout, Ready, Goto, OutputStep
<1>21. ASSUME Printout PROVE OutputStep
  BY <1>21 DEF Printout, PrintOut, Ready, Goto, MayFail, Fail, OutputStep
<1>22. ASSUME RemoveData PROVE OutputStep
  BY <1>22 DEF RemoveData, Ready, Goto, OutputStep
<1>23. ASSUME ListenerKeeps PROVE OutputStep
  BY <1>23 DEF OutputStep
<1>24. ASSUME ListenerStores PROVE OutputStep
  BY <1>24 DEF ListenerStores, Goto, OutputStep
<1>25. CASE UNCHANGED vars
  BY <1>25 DEF vars, OutputStep
<1>. QED
  BY <1>1, <1>2, <1>3, <1>4, <1>5, <1>6, <1>7, <1>8, <1>9, <1>10, <1>11, <1>12, <1>13, <1>14,
       <1>15, <1>16, <1>17, <1>18, <1>19, <1>20, <1>21, <1>22, <1>23, <1>24, <1>25 DEF Next

\* A line on its way to the listener stays new, and comes once.
LEMMA LinesNewKept ==
  ASSUME PrintIInv, LinesNew, [Next]_vars
  PROVE  LinesNew'
<1>0. /\ AllTypes /\ seen \in Seen /\ output \in Seq(Line \cup {Restart})
      /\ Len(output) \in Nat /\ DOMAIN output = 1..Len(output)
      /\ \A k \in 1..Len(output) : output[k] \in Line \cup {Restart}
  BY DEF PrintIInv, AllTypes
<1>1. /\ \A l \in Handled : Made(l)
      /\ \A k \in 1..Len(output) : output[k] # Restart => Made(output[k]) /\ output[k] \notin Handled
      /\ \A j, k \in 1..Len(output) : j < k /\ output[j] # Restart => output[j] # output[k]
  BY <1>0 DEF LinesNew
<1>2. CASE \E kind \in {"test", "diag"} : TestSends(kind)
  <2>1. PICK kind \in {"test", "diag"} : TestSends(kind)
    BY <1>2
  <2>. DEFINE x == [kind |-> kind, id |-> seen.made[kind] + 1]
              n == Len(output)
  <2>2. /\ output' = Append(output, x) /\ seen' = [seen EXCEPT !.made[kind] = @ + 1]
        /\ s' = s /\ script' = script /\ temp' = temp
    BY <2>1 DEF TestSends, dbVars
  <2>3. seen.made \in [{"test", "diag"} -> Nat]
    BY <1>0 DEF Seen
  <2>4. /\ seen'.made = [seen.made EXCEPT ![kind] = @ + 1] /\ seen'.stored = seen.stored
    BY <1>0, <2>2 DEF Seen
  <2>5. /\ x \in Line /\ x # Restart /\ ~Made(x) /\ x.id <= seen'.made[x.kind]
    <3>1. seen.made[kind] \in Nat
      BY <2>3
    <3>2. x.kind = kind /\ x.id = seen.made[kind] + 1
      OBVIOUS
    <3>3. seen'.made[kind] = seen.made[kind] + 1
      BY <2>3, <2>4
    <3>4. x \in Line
      BY <3>1 DEF Line
    <3>5. x # Restart
      <4>1. Restart.id = 0
        BY DEF Restart
      <4>. QED
        BY <3>1, <3>2, <4>1
    <3>6. ~Made(x)
      BY <3>1, <3>2 DEF Made
    <3>. QED
      BY <3>1, <3>2, <3>3, <3>4, <3>5, <3>6
  <2>6. Handled' = Handled
    <3>1. InTemp' = InTemp /\ InFlight' = InFlight
      BY <2>2, InFlightIs DEF InTemp
    <3>. QED
      BY <2>2, <2>4, <3>1 DEF Handled
  <2>7. \A l \in Line : Made(l) => l.id <= seen'.made[l.kind]
    <3>. SUFFICES ASSUME NEW l \in Line, Made(l) PROVE l.id <= seen'.made[l.kind]
      OBVIOUS
    <3>1. l.kind \in {"test", "diag"} /\ l.id \in Nat
      BY DEF Line
    <3>2. l.id <= seen.made[l.kind] /\ seen.made[l.kind] \in Nat
      BY <2>3, <3>1 DEF Made
    <3>3. seen'.made[l.kind] = seen.made[l.kind] \/ seen'.made[l.kind] = seen.made[l.kind] + 1
      BY <2>3, <2>4, <3>1
    <3>. QED
      BY <3>1, <3>2, <3>3
  <2>. HIDE DEF x
  <2>8. /\ DOMAIN output' = 1..(n + 1) /\ \A k \in 1..n : output'[k] = output[k]
        /\ output'[n + 1] = x
    BY <1>0, <2>2, <2>5, AppendParts
  <2>9. x \notin Handled /\ \A k \in 1..n : output[k] # x
    BY <1>1, <2>5
  <2>10. Handled \subseteq Line
    BY <1>0, HandledLines
  <2>11. \A l \in Handled : l.id <= seen'.made[l.kind]
    BY <1>1, <2>7, <2>10
  <2>12. \A k \in 1..(n + 1) : output'[k] # Restart =>
           output'[k].id <= seen'.made[output'[k].kind] /\ output'[k] \notin Handled
    <3>. SUFFICES ASSUME NEW k \in 1..(n + 1), output'[k] # Restart
                  PROVE  output'[k].id <= seen'.made[output'[k].kind] /\ output'[k] \notin Handled
      OBVIOUS
    <3>1. CASE k = n + 1
      BY <2>5, <2>8, <2>9, <3>1
    <3>2. CASE k # n + 1
      <4>1. k \in 1..n
        BY <1>0, <3>2
      <4>. QED
        BY <1>0, <1>1, <2>7, <2>8, <4>1
    <3>. QED
      BY <3>1, <3>2
  <2>13. \A j, k \in 1..(n + 1) : j < k /\ output'[j] # Restart => output'[j] # output'[k]
    <3>. SUFFICES ASSUME NEW j \in 1..(n + 1), NEW k \in 1..(n + 1), j < k, output'[j] # Restart
                  PROVE  output'[j] # output'[k]
      OBVIOUS
    <3>1. j \in 1..n
      BY <1>0
    <3>2. CASE k = n + 1
      BY <2>8, <2>9, <3>1, <3>2
    <3>3. CASE k # n + 1
      <4>1. k \in 1..n
        BY <1>0, <3>3
      <4>. QED
        BY <1>1, <2>8, <3>1, <4>1
    <3>. QED
      BY <3>2, <3>3
  <2>. HIDE DEF n
  <2>. QED
    BY <2>6, <2>8, <2>11, <2>12, <2>13 DEF LinesNew, Made
<1>3. CASE ListenerKeeps
  <2>1. PICK x \in Line :
           /\ x = Head(output)
           /\ \/ Range(s'.testData) = Range(s.testData) \cup {x} /\ s'.diagData = s.diagData
              \/ Range(s'.diagData) = Range(s.diagData) \cup {x} /\ s'.testData = s.testData
    BY <1>0, <1>3, Keeping
  <2>2. /\ output # <<>> /\ output' = Tail(output) /\ Head(output) # Restart
        /\ seen' = seen /\ script' = script /\ temp' = temp
    BY <1>3 DEF ListenerKeeps, dbVars
  <2>. DEFINE n == Len(output)
  <2>3. /\ n \in Nat \ {0} /\ DOMAIN output' = 1..(n - 1) /\ Head(output) = output[1]
        /\ \A k \in 1..(n - 1) : output'[k] = output[k + 1]
    BY <1>0, <2>2, TailParts
  <2>4. Handled' \subseteq Handled \cup {x}
    <3>1. InTemp' = InTemp /\ InFlight' = InFlight
      BY <2>2, InFlightIs DEF InTemp
    <3>. QED
      BY <2>1, <2>2, <3>1 DEF Handled
  <2>5. 1 \in 1..n /\ x = output[1] /\ Made(x) /\ x # Restart
    BY <1>1, <2>1, <2>2, <2>3
  <2>6. \A l \in Handled' : Made(l)
    BY <1>1, <2>4, <2>5
  <2>7. \A k \in 1..(n - 1) : k + 1 \in 1..n /\ 1 < k + 1
    BY <2>3
  <2>8. \A k \in 1..(n - 1) : output'[k] # Restart => Made(output'[k]) /\ output'[k] \notin Handled'
    <3>. HIDE DEF n
    <3>. SUFFICES ASSUME NEW k \in 1..(n - 1), output'[k] # Restart
                  PROVE  Made(output'[k]) /\ output'[k] \notin Handled'
      OBVIOUS
    <3>1. k + 1 \in 1..n /\ output'[k] = output[k + 1] /\ 1 < k + 1
      BY <2>3, <2>7
    <3>2. Made(output[k + 1]) /\ output[k + 1] \notin Handled
      BY <1>1, <3>1 DEF n
    <3>3. output[k + 1] # x
      BY <1>1, <2>5, <3>1 DEF n
    <3>. QED
      BY <2>4, <3>1, <3>2, <3>3
  <2>9. \A j, k \in 1..(n - 1) : j < k /\ output'[j] # Restart => output'[j] # output'[k]
    <3>. SUFFICES ASSUME NEW j \in 1..(n - 1), NEW k \in 1..(n - 1), j < k, output'[j] # Restart
                  PROVE  output'[j] # output'[k]
      OBVIOUS
    <3>1. j + 1 \in 1..n /\ k + 1 \in 1..n /\ j + 1 < k + 1
      BY <2>3
    <3>. QED
      BY <1>1, <2>3, <3>1
  <2>. HIDE DEF n
  <2>. QED
    BY <2>2, <2>3, <2>6, <2>8, <2>9 DEF LinesNew, Made
<1>4. CASE TestRestarts
  <2>1. /\ output' = Append(output, Restart) /\ seen' = seen /\ s' = s /\ script' = script /\ temp' = temp
    BY <1>4 DEF TestRestarts, dbVars
  <2>2. Handled' = Handled
    <3>1. InTemp' = InTemp /\ InFlight' = InFlight
      BY <2>1, InFlightIs DEF InTemp
    <3>. QED
      BY <2>1, <3>1 DEF Handled
  <2>. DEFINE n == Len(output)
  <2>3. /\ DOMAIN output' = 1..(n + 1) /\ \A k \in 1..n : output'[k] = output[k]
        /\ output'[n + 1] = Restart
    <3>1. Restart \in Line \cup {Restart}
      OBVIOUS
    <3>. QED
      BY <1>0, <2>1, <3>1, AppendParts
  <2>4. \A k \in 1..(n + 1) : k \in 1..n \/ output'[k] = Restart
    BY <1>0, <2>3
  <2>5. \A j, k \in 1..(n + 1) : j < k => j \in 1..n
    BY <1>0
  <2>6. \A k \in 1..(n + 1) : output'[k] # Restart => Made(output'[k]) /\ output'[k] \notin Handled
    BY <1>1, <2>3, <2>4
  <2>7. \A j, k \in 1..(n + 1) : j < k /\ output'[j] # Restart => output'[j] # output'[k]
    BY <1>1, <2>3, <2>4, <2>5
  <2>8. \A l \in Handled' : Made(l)
    BY <1>1, <2>2
  <2>9. \A k \in 1..(n + 1) : output'[k] # Restart => Made(output'[k]) /\ output'[k] \notin Handled'
    BY <2>2, <2>6
  <2>. HIDE DEF n
  <2>. QED
    <3>1. DOMAIN output' = 1..(n + 1) /\ seen' = seen
      BY <2>1, <2>3
    <3>. QED
      BY <3>1, <2>7, <2>8, <2>9 DEF LinesNew, Made
<1>5. CASE /\ output' \in {output, <<>>} /\ ~ListenerKeeps
           /\ ~\E kind \in {"test", "diag"} : TestSends(kind)
  <2>1. seen'.made = seen.made
    BY <1>5, CountsGo DEF CountsKept
  <2>2. Handled' \subseteq Handled
    BY <1>5, HandledKept DEF HandledStays
  <2>3. DOMAIN <<>> = {}
    BY EmptyParts
  <2>4. CASE output' = output
    BY <1>0, <1>1, <2>1, <2>2, <2>4 DEF LinesNew, Made
  <2>5. CASE output' = <<>>
    BY <1>1, <2>1, <2>2, <2>3, <2>5 DEF LinesNew, Made
  <2>. QED
    BY <1>5, <2>4, <2>5
<1>. QED
  BY <1>2, <1>3, <1>4, <1>5, OutputSteps DEF OutputStep

\* The last printout after a statement of a printout.
LastIs(x) ==
  LET before == history[Len(history)]
      after == history'[Len(history')]
  IN /\ x.op = "print" => Range(after.lines) = {x.line} /\ after.executions = 0
     /\ x.op = "append" => /\ Range(after.lines) = Range(before.lines) \cup {x.line}
                           /\ after.executions = before.executions
     /\ x.op = "execution" => after.lines = before.lines /\ after.executions = before.executions + 1

\* It has the line, or counts the execution.
LEMMA LastAfter ==
  ASSUME history \in Seq(Record), Numbered, NEW x \in Statement, Executed(x),
         x.op \in PrintOps,
         x.op = "print" => x.number = Len(history) + 1,
         x.op \in {"append", "execution"} =>
           history # <<>> /\ x.number = Len(history) /\ x.version = history[Len(history)].version
  PROVE  LastIs(x)
<1>1. CASE x.op = "print"
  <2>. DEFINE r == [number |-> x.number, version |-> x.version, lines |-> <<x.line>>, executions |-> 0]
  <2>0. x.number \in Nat /\ x.version \in Int /\ x.line \in Line
    BY <1>1, StatementParts
  <2>1. <<x.line>> \in Seq(Line) /\ Range(<<x.line>>) = {x.line}
    <3>1. DOMAIN <<x.line>> = {1}
      OBVIOUS
    <3>. QED
      BY <2>0, <3>1 DEF Range
  <2>2. r \in Record /\ r.lines = <<x.line>> /\ r.executions = 0
    BY <2>0, <2>1 DEF Record
  <2>3. history' = Append(history, r)
    BY <1>1 DEF Executed
  <2>. HIDE DEF r
  <2>4. Len(history') = Len(history) + 1 /\ history'[Len(history) + 1] = r
    BY <2>2, <2>3, AppendParts
  <2>. QED
    BY <1>1, <2>1, <2>2, <2>4 DEF LastIs
<1>2. CASE x.op \in {"append", "execution"}
  <2>. DEFINE n == Len(history)
              r == history[n]
  <2>1. /\ history # <<>> /\ x.number = n /\ x.version = r.version
        /\ n \in Nat /\ n \in 1..n /\ DOMAIN history = 1..n /\ r \in Record
    BY <1>2
  <2>2. Of(r, x)
    BY <2>1 DEF Of, Numbered
  <2>3. Len(history') = n
    BY <1>2, HistoryAfter DEF PrintOps
  <2>4. r.lines \in Seq(Line) /\ r.executions \in Nat
    BY <2>1 DEF Record
  <2>5. CASE x.op = "append"
    <3>1. history' = [k \in DOMAIN history |-> IF ~Of(history[k], x) THEN history[k]
                                     ELSE [history[k] EXCEPT !.lines = Append(@, x.line)]]
      BY <2>5 DEF Executed
    <3>2. history'[n] = IF ~Of(r, x) THEN r ELSE [r EXCEPT !.lines = Append(@, x.line)]
      BY <2>1, <3>1
    <3>3. history'[n] = [r EXCEPT !.lines = Append(r.lines, x.line)]
      BY <2>2, <3>2
    <3>4. x.line \in Line /\ Range(Append(r.lines, x.line)) = Range(r.lines) \cup {x.line}
      BY <2>4, <2>5, AppendParts, StatementParts
    <3>. HIDE DEF r
    <3>5. history'[n].lines = Append(r.lines, x.line) /\ history'[n].executions = r.executions
      BY <2>1, <3>3 DEF Record
    <3>. QED
      BY <2>3, <2>5, <3>4, <3>5 DEF LastIs, r
  <2>6. CASE x.op = "execution"
    <3>1. history' = [k \in DOMAIN history |-> IF ~Of(history[k], x) THEN history[k]
                                     ELSE [history[k] EXCEPT !.executions = @ + 1]]
      BY <2>6 DEF Executed
    <3>2. history'[n] = IF ~Of(r, x) THEN r ELSE [r EXCEPT !.executions = @ + 1]
      BY <2>1, <3>1
    <3>3. history'[n] = [r EXCEPT !.executions = r.executions + 1]
      BY <2>2, <3>2
    <3>. HIDE DEF r
    <3>4. history'[n].lines = r.lines /\ history'[n].executions = r.executions + 1
      BY <2>1, <3>3 DEF Record
    <3>. QED
      BY <2>3, <2>6, <3>4 DEF LastIs, r
  <2>. QED
    BY <1>2, <2>5, <2>6
<1>. QED
  BY <1>1, <1>2 DEF PrintOps

\* What is left of a printout counts what is left.
LEMMA CountsTail ==
  ASSUME NEW q \in Seq(Statement), q # <<>>, NEW total, CountsTo(q, total)
  PROVE  CountsTo(Tail(q), IF q[1].op = "execution" THEN total - 1 ELSE total)
<1>1. PICK m \in 0..Len(q) : (\A k \in DOMAIN q : q[k].op = "execution" <=> k > m) /\ total = Len(q) - m
  BY DEF CountsTo
<1>. DEFINE n == Len(q)
<1>2. /\ n \in Nat \ {0} /\ DOMAIN q = 1..n /\ DOMAIN Tail(q) = 1..(n - 1) /\ Len(Tail(q)) = n - 1
      /\ \A k \in 1..(n - 1) : Tail(q)[k] = q[k + 1] /\ k + 1 \in 1..n
  BY TailParts
<1>3. q[1].op = "execution" <=> 1 > m
  BY <1>1, <1>2
<1>. DEFINE w == IF m = 0 THEN 0 ELSE m - 1
<1>4. w \in 0..(n - 1)
  BY <1>1, <1>2
<1>5. \A k \in 1..(n - 1) : Tail(q)[k].op = "execution" <=> k > w
  <2>. SUFFICES ASSUME NEW k \in 1..(n - 1) PROVE Tail(q)[k].op = "execution" <=> k > w
    OBVIOUS
  <2>1. Tail(q)[k].op = "execution" <=> k + 1 > m
    BY <1>1, <1>2
  <2>2. k + 1 > m <=> k > w
    BY <1>1, <1>2
  <2>. QED
    BY <2>1, <2>2
<1>6. (IF q[1].op = "execution" THEN total - 1 ELSE total) = (n - 1) - w
  <2>1. CASE m = 0
    <3>1. q[1].op = "execution" /\ total = n
      BY <1>1, <1>2, <1>3, <2>1
    <3>. QED
      BY <1>2, <2>1, <3>1
  <2>2. CASE m # 0
    <3>1. q[1].op # "execution" /\ total = n - m
      BY <1>1, <1>2, <1>3, <2>2
    <3>. QED
      BY <1>1, <1>2, <2>2, <3>1
  <2>. QED
    BY <2>1, <2>2
<1>. HIDE DEF n, w
<1>. QED
  BY <1>2, <1>4, <1>5, <1>6 DEF CountsTo

\* Nothing is left to be counted when there is no statement, and then a deletion counts none.
LEMMA CountsNone ==
  ASSUME NEW total, CountsTo(<<>>, total)
  PROVE  total = 0 /\ CountsTo(<<Clear>>, total)
<1>1. total = 0
  BY DEF CountsTo
<1>2. CountsTo(<<Clear>>, 0)
  <2>1. 1 \in 0..Len(<<Clear>>) /\ 0 = Len(<<Clear>>) - 1
    OBVIOUS
  <2>2. \A k \in DOMAIN <<Clear>> : <<Clear>>[k].op = "execution" <=> k > 1
    BY DEF Clear
  <2>. QED
    BY <2>1, <2>2 DEF CountsTo
<1>. QED
  BY <1>1, <1>2

\* A statement of a printout moves what it prints or counts from the script to the printout.
LEMMA ReportGoesOn ==
  ASSUME PrintIInv, Execute, at = "remove", Reported
  PROVE  Reported'
<1>. USE DEF PrintIInv, AllTypes, ScriptFits
<1>. DEFINE x == script[1]
<1>1. /\ script # <<>> /\ x \in Statement /\ x.op \in PrintOps /\ script' = Tail(script) /\ Executed(x)
      /\ s' = s /\ at' = "remove" /\ seen' = seen
  <2>1. script # <<>> /\ Executed(Head(script)) /\ script' = Tail(script) /\ s' = s /\ at' = at
    BY DEF Execute, Rest
  <2>2. Head(script) = x /\ x \in Statement /\ x.op \in PrintOps
    BY <2>1, FirstOp
  <2>3. seen' = seen
    BY <2>2 DEF Execute, PrintOps
  <2>. QED
    BY <2>1, <2>2, <2>3
<1>2. /\ x.op = "print" => x.number = Len(history) + 1
      /\ x.op \in {"append", "execution"} =>
           history # <<>> /\ x.number = Len(history) /\ x.version = history[Len(history)].version
  BY <1>1 DEF OfLast, PrintOps
<1>3. LastIs(x)
  BY <1>1, <1>2, LastAfter
<1>4. history' # <<>>
  BY <1>1, <1>2, HistoryAfter
<1>5. ~Begins'
  <2>. SUFFICES ASSUME script' # <<>> PROVE script'[1].op # "print"
    BY DEF Begins
  <2>1. Len(script) > 1 /\ DOMAIN script = 1..Len(script) /\ script'[1] = script[2]
    BY <1>1, TailParts
  <2>2. 2 \in DOMAIN script /\ OfPrint(script)
    BY <2>1 DEF Fits
  <2>3. \A k \in DOMAIN script : k > 1 => script[k].op # "print"
    BY <2>2 DEF OfPrint
  <2>4. script[2].op # "print"
    BY <2>2, <2>3
  <2>. QED
    BY <2>1, <2>4
<1>6. ToPrint = ToPrint' \cup (IF x.op \in {"print", "append"} THEN {x.line} ELSE {})
  BY <1>1, OfScript DEF ToPrint
<1>7. /\ LinesSoFar' = Range(history'[Len(history')].lines)
      /\ TestsSoFar' = history'[Len(history')].executions
  BY <1>4, <1>5 DEF LinesSoFar, TestsSoFar
<1>8. Begins <=> x.op = "print"
  BY <1>1 DEF Begins
<1>9. LinesSoFar \cup ToPrint = LinesSoFar' \cup ToPrint'
  <2>1. CASE x.op = "print"
    BY <1>3, <1>6, <1>7, <1>8, <2>1 DEF LinesSoFar, LastIs
  <2>2. CASE x.op = "append"
    <3>1. LinesSoFar = Range(history[Len(history)].lines)
      BY <1>2, <1>8, <2>2 DEF LinesSoFar
    <3>. QED
      BY <1>3, <1>6, <1>7, <2>2, <3>1 DEF LastIs
  <2>3. CASE x.op = "execution"
    <3>1. LinesSoFar = Range(history[Len(history)].lines)
      BY <1>2, <1>8, <2>3 DEF LinesSoFar
    <3>. QED
      BY <1>3, <1>6, <1>7, <2>3, <3>1 DEF LastIs
  <2>. QED
    BY <1>1, <2>1, <2>2, <2>3 DEF PrintOps
<1>10. StoredHere' = StoredHere
  BY <1>1 DEF StoredHere
<1>11. ASSUME StoredHere # {}
       PROVE  CountsTo(script', Len(s'.cache) - TestsSoFar')
  <2>. DEFINE total == Len(s.cache) - TestsSoFar
  <2>1. CountsTo(script, total)
    BY <1>11 DEF Reported
  <2>2. CountsTo(script', IF x.op = "execution" THEN total - 1 ELSE total)
    <3>. HIDE DEF total
    <3>. QED
      BY <1>1, <2>1, CountsTail
  <2>3. Len(s.cache) \in Nat
    BY DEF Memory
  <2>4. CASE x.op = "print"
    <3>1. TestsSoFar = 0 /\ TestsSoFar' = 0
      BY <1>3, <1>7, <1>8, <2>4 DEF TestsSoFar, LastIs
    <3>. QED
      BY <1>1, <2>2, <2>4, <3>1
  <2>5. CASE x.op = "append"
    <3>1. TestsSoFar' = TestsSoFar
      BY <1>2, <1>3, <1>7, <1>8, <2>5 DEF TestsSoFar, LastIs
    <3>. QED
      BY <1>1, <2>2, <2>5, <3>1
  <2>6. CASE x.op = "execution"
    <3>1. TestsSoFar' = TestsSoFar + 1 /\ TestsSoFar \in Nat
      <4>1. TestsSoFar = history[Len(history)].executions
        BY <1>2, <1>8, <2>6 DEF TestsSoFar
      <4>2. history[Len(history)] \in Record
        BY <1>2, <2>6
      <4>. QED
        BY <1>3, <1>7, <2>6, <4>1, <4>2 DEF LastIs, Record
    <3>2. total - 1 = Len(s'.cache) - TestsSoFar'
      BY <1>1, <2>3, <3>1
    <3>. HIDE DEF total
    <3>. QED
      BY <2>2, <2>6, <3>2
  <2>. QED
    BY <1>1, <2>4, <2>5, <2>6 DEF PrintOps
<1>12. StoredHere \subseteq LinesSoFar \cup ToPrint
  BY DEF Reported
<1>. QED
  BY <1>1, <1>4, <1>9, <1>10, <1>11, <1>12 DEF Reported

\* The last deletion leaves nothing to be saved again.
LEMMA DeletionEnds ==
  ASSUME PrintIInv, Execute, at = "done", Reported
  PROVE  Reported'
<1>. USE DEF PrintIInv, AllTypes, ScriptFits
<1>1. /\ script = <<Clear>> /\ script # <<>> /\ script' = <<>> /\ script' = Tail(script)
      /\ s' = s /\ at' = "done"
  <2>1. script # <<>> /\ script' = Tail(script) /\ s' = s /\ at' = at /\ script \in {<<>>, <<Clear>>}
    BY DEF Execute, Rest, Fits
  <2>. QED
    BY <2>1
<1>2. script[1].op = "clear"
  BY <1>1 DEF Clear
<1>3. temp' = <<>> /\ history' = history
  BY <1>2, Executing DEF PrintOps
<1>4. seen' = seen
  BY <1>1, <1>2 DEF Execute
<1>5. ~Begins /\ ~Begins'
  BY <1>1, <1>2 DEF Begins
<1>6. LinesSoFar' = LinesSoFar /\ TestsSoFar' = TestsSoFar /\ StoredHere' = StoredHere
  BY <1>1, <1>3, <1>4, <1>5 DEF LinesSoFar, TestsSoFar, StoredHere
<1>7. ToPrint' = {} /\ ToPrint = {}
  <2>1. ToPrint' = {}
    BY <1>1, OfEmptyScript DEF ToPrint
  <2>2. PrintedBy(script) = PrintedBy(Tail(script))
    BY <1>1, <1>2, OfScript
  <2>3. ToPrint = ToPrint'
    BY <1>1, <2>2 DEF ToPrint
  <2>. QED
    BY <2>1, <2>3
<1>8. ASSUME NEW total, CountsTo(<<Clear>>, total) PROVE CountsTo(<<>>, total)
  <2>1. PICK m \in 0..1 : (\A k \in {1} : Clear.op = "execution" <=> k > m) /\ total = 1 - m
    <3>1. Len(<<Clear>>) = 1 /\ DOMAIN <<Clear>> = {1} /\ <<Clear>>[1] = Clear
      OBVIOUS
    <3>. QED
      BY <1>8, <3>1 DEF CountsTo
  <2>2. m = 1 /\ total = 0
    BY <2>1 DEF Clear
  <2>3. DOMAIN <<>> = {} /\ Len(<<>>) = 0
    BY EmptyParts
  <2>. QED
    BY <2>2, <2>3 DEF CountsTo
<1>9. StoredHere # {} => history # <<>> /\ CountsTo(<<Clear>>, Len(s.cache) - TestsSoFar)
  BY <1>1, <1>5 DEF Reported
<1>10. StoredHere # {} => CountsTo(<<>>, Len(s.cache) - TestsSoFar)
  BY <1>8, <1>9
<1>11. StoredHere \subseteq LinesSoFar
  BY <1>7 DEF Reported
<1>. QED
  BY <1>1, <1>3, <1>6, <1>9, <1>10, <1>11 DEF Reported

\* A functional test that finishes reports what it has stored.
LEMMA ReportedKept ==
  ASSUME PrintIInv, FinishedIInv, [Next]_vars
  PROVE  Finishing' => Reported'
<1>. USE DEF dbVars
<1>0. AllTypes /\ Fits(at, script) /\ LinesToPrint /\ at \in Places /\ seen \in Seen
      /\ script \in Seq(Statement) /\ temp \in Seq(Row) /\ s \in Memory
  BY DEF PrintIInv, ScriptFits, AllTypes
<1>. USE <1>0
<1>. SUFFICES ASSUME Finishing' PROVE Reported'
  OBVIOUS
<1>98. Counted /\ LinesNew
  BY DEF FinishedIInv
<1>. USE <1>98
<1>99. seen.fails = 0 /\ seen.fails \in Nat
  <2>1. seen.fails <= seen'.fails /\ seen'.fails = 0
    BY CountsGo DEF CountsKept, Finishing
  <2>2. seen.fails \in Nat
    BY DEF Seen
  <2>. QED
    BY <2>1, <2>2
<1>97. (/\ at \in {"remove", "done"} /\ s'.functional = s.functional
        /\ s'.cache = s.cache /\ s'.numTests = s.numTests) => Reported
  BY <1>99 DEF FinishedIInv, Finishing
<1>1. ASSUME Execute PROVE Reported'
  <2>1. at' = at /\ s' = s
    BY <1>1 DEF Execute
  <2>2. Reported
    BY <1>97, <2>1 DEF Finishing
  <2>3. CASE at = "remove"
    BY <1>1, <2>2, <2>3, ReportGoesOn
  <2>4. CASE at = "done"
    BY <1>1, <2>2, <2>4, DeletionEnds
  <2>. QED
    BY <2>1, <2>3, <2>4 DEF Finishing
<1>2. ASSUME StatementFails PROVE Reported'
  <2>. DEFINE b == Head(script).op \in {"insert", "print", "append"}
  <2>1. b \in BOOLEAN /\ seen' = Fail(b)
    BY <1>2 DEF StatementFails
  <2>. HIDE DEF b
  <2>. QED
    BY <2>1, FailCounted DEF Finishing
<1>3. ASSUME PowerOn PROVE Reported'
  <2>1. at' \notin {"remove", "done"}
    BY <1>3 DEF PowerOn, Goto
  <2>. QED
    BY <2>1 DEF Finishing
<1>4. ASSUME PowerOff PROVE Reported'
  <2>1. at' \notin {"remove", "done"}
    BY <1>4 DEF PowerOff, Goto
  <2>. QED
    BY <2>1 DEF Finishing
<1>5. ASSUME SaveUnPlannedTestData PROVE Reported'
  <2>1. at' \notin {"remove", "done"}
    BY <1>5 DEF SaveUnPlannedTestData, Ready, Goto, MayFail, Fail
  <2>. QED
    BY <2>1 DEF Finishing
<1>6. ASSUME PrintUnplanned PROVE Reported'
  <2>1. at' \notin {"remove", "done"}
    BY <1>6 DEF PrintUnplanned, PrintOut, Ready, Goto, MayFail, Fail
  <2>. QED
    BY <2>1 DEF Finishing
<1>7. ASSUME AttemptRestored PROVE Reported'
  <2>1. at' \notin {"remove", "done"}
    BY <1>7 DEF AttemptRestored, Ready, Goto
  <2>. QED
    BY <2>1 DEF Finishing
<1>8. ASSUME GetBoardAttempt PROVE Reported'
  <2>1. at' \notin {"remove", "done"}
    BY <1>8 DEF GetBoardAttempt, Ready, Goto, Chosen, MayFail, Fail
  <2>. QED
    BY <2>1 DEF Finishing
<1>9. ASSUME GetNumberOfTests PROVE Reported'
  <2>1. at' \notin {"remove", "done"}
    BY <1>9 DEF GetNumberOfTests, Ready, Goto, MayFail, Fail
  <2>. QED
    BY <2>1 DEF Finishing
<1>10. ASSUME GetPreviousTestData PROVE Reported'
  <2>1. at' \notin {"remove", "done"}
    BY <1>10 DEF GetPreviousTestData, Ready, Goto, MayFail, Fail
  <2>. QED
    BY <2>1 DEF Finishing
<1>11. ASSUME BurninTest PROVE Reported'
  <2>1. at' = "burning"
    BY <1>11, BurnInBegins
  <2>. QED
    BY <2>1 DEF Finishing
<1>12. ASSUME Cache PROVE Reported'
  <2>1. at' \notin {"remove", "done"}
    BY <1>12 DEF Cache, Ready, Goto, MayFail, Fail
  <2>. QED
    BY <2>1 DEF Finishing
<1>13. ASSUME StartTest PROVE Reported'
  <2>1. at' \notin {"remove", "done"}
    BY <1>13 DEF StartTest, Ready, Goto
  <2>. QED
    BY <2>1 DEF Finishing
<1>14. ASSUME TestRestarts PROVE Reported'
  <2>1. at' = at /\ at \in {"testing", "burning"}
    BY <1>14 DEF TestRestarts, Testing, Ready
  <2>. QED
    BY <2>1 DEF Finishing
<1>15. ASSUME TestEnds PROVE Reported'
  <2>1. at' \notin {"remove", "done"}
    BY <1>15 DEF TestEnds, Ready, Goto
  <2>. QED
    BY <2>1 DEF Finishing
<1>16. ASSUME TimeIsUp PROVE Reported'
  <2>1. at = "burning" /\ s' = s
    BY <1>16 DEF TimeIsUp, Ready
  <2>. QED
    BY <2>1 DEF Finishing, Counted
<1>17. ASSUME LastTestEnded PROVE Reported'
  <2>1. s' = s /\ at' \in {"print", "done"} /\ (at' = "done" => ~Enough(Len(s.cache), s.numTests))
    BY <1>17 DEF LastTestEnded, Goto
  <2>. QED
    BY <2>1 DEF Finishing, Enough
<1>18. ASSUME NEW repeated \in BOOLEAN, ChooseTests(repeated) PROVE Reported'
  <2>1. at' \notin {"remove", "done"}
    BY <1>18 DEF ChooseTests, Ready, Goto
  <2>. QED
    BY <2>1 DEF Finishing
<1>19. ASSUME NEW kind \in {"test", "diag"}, TestSends(kind) PROVE Reported'
  <2>1. at' = at /\ at \in {"testing", "burning"}
    BY <1>19 DEF TestSends, Testing, Ready
  <2>. QED
    BY <2>1 DEF Finishing
<1>20. ASSUME BeginPrintout PROVE Reported'
  <2>1. s' = s /\ at' \in {"remove", "number"} /\ (at' = "remove" => s.testData = <<>>)
    BY <1>20 DEF BeginPrintout, Goto
  <2>2. StoredHere' = {} /\ at' # "done"
    BY <2>1, EmptyParts DEF Finishing, StoredHere
  <2>. QED
    BY <2>2 DEF Reported
<1>21. ASSUME Printout PROVE Reported'
  <2>1. at = "number" /\ at' = "remove"
    BY <1>21 DEF Printout, PrintOut, Ready, Goto
  <2>2. /\ s' = s
        /\ \/ seen' = Fail(TRUE)
           \/ /\ script' # <<>> /\ script'[1].op = "print"
              /\ PrintedBy(script') = Range(s.testData) /\ CountsTo(script', s.executions)
    BY <1>21, TestsPrintout
  <2>3. /\ script' # <<>> /\ script'[1].op = "print"
        /\ PrintedBy(script') = Range(s.testData) /\ CountsTo(script', s.executions)
    BY <2>2, FailCounted DEF Finishing
  <2>4. Begins' /\ TestsSoFar' = 0 /\ ToPrint' = Range(s.testData)
    BY <2>3 DEF Begins, TestsSoFar, ToPrint
  <2>5. s.executions = Len(s.cache) /\ Len(s.cache) \in Nat
    BY <2>1 DEF Counted, Memory
  <2>6. s.executions = Len(s'.cache) - TestsSoFar'
    BY <2>2, <2>4, <2>5
  <2>7. CountsTo(script', Len(s'.cache) - TestsSoFar')
    BY <2>3, <2>6
  <2>8. StoredHere' \subseteq ToPrint'
    BY <2>2, <2>4 DEF StoredHere
  <2>. QED
    BY <2>1, <2>4, <2>7, <2>8 DEF Reported
<1>22. ASSUME RemoveData PROVE Reported'
  <2>1. /\ at = "remove" /\ at' = "done" /\ script = <<>> /\ script' = <<Clear>>
        /\ s' = s /\ seen' = seen /\ history' = history
    BY <1>22 DEF RemoveData, Ready, Goto, RemoveTemporaryTestData
  <2>2. Reported
    BY <1>97, <2>1 DEF Finishing
  <2>3. ~Begins /\ ~Begins'
    BY <2>1 DEF Begins, Clear
  <2>4. LinesSoFar' = LinesSoFar /\ TestsSoFar' = TestsSoFar /\ StoredHere' = StoredHere
    BY <2>1, <2>3 DEF LinesSoFar, TestsSoFar, StoredHere
  <2>5. ToPrint = {}
    BY <2>1, OfEmptyScript DEF ToPrint
  <2>6. StoredHere # {} => history # <<>> /\ CountsTo(<<>>, Len(s.cache) - TestsSoFar)
    BY <2>1, <2>2, <2>3 DEF Reported
  <2>7. StoredHere # {} => CountsTo(<<Clear>>, Len(s.cache) - TestsSoFar)
    BY <2>6, CountsNone
  <2>8. StoredHere \subseteq LinesSoFar
    BY <2>2, <2>5 DEF Reported
  <2>. QED
    BY <2>1, <2>4, <2>6, <2>7, <2>8 DEF Reported
<1>23. ASSUME ListenerKeeps PROVE Reported'
  <2>1. PICK x \in Line :
           /\ x = Head(output)
           /\ \/ s' = [s EXCEPT !.testData = Append(@, x)] /\ Range(s'.testData) = Range(s.testData) \cup {x}
              \/ s' = [s EXCEPT !.diagData = Append(@, x)] /\ s'.testData = s.testData
    BY <1>23, Keeping
  <2>2. /\ at' = at /\ script' = script /\ history' = history /\ temp' = temp /\ seen' = seen
        /\ output # <<>> /\ Head(output) # Restart
    BY <1>23 DEF ListenerKeeps
  <2>3. s'.functional = s.functional /\ s'.cache = s.cache /\ s'.numTests = s.numTests
    BY <2>1 DEF Memory
  <2>4. Reported
    BY <1>97, <2>2, <2>3 DEF Finishing
  <2>5. x \notin seen.stored
    <3>1. 1 \in DOMAIN output /\ output[1] = x
      BY <2>1, <2>2, TailParts DEF PrintIInv, AllTypes
    <3>. QED
      BY <2>1, <2>2, <3>1 DEF LinesNew, Handled
  <2>6. StoredHere' = StoredHere
    BY <2>1, <2>2, <2>5 DEF StoredHere
  <2>7. LinesSoFar' = LinesSoFar /\ TestsSoFar' = TestsSoFar /\ ToPrint' = ToPrint /\ Begins' = Begins
    BY <2>2 DEF LinesSoFar, TestsSoFar, ToPrint, Begins
  <2>. QED
    BY <2>2, <2>3, <2>4, <2>6, <2>7 DEF Reported
<1>24. ASSUME ListenerStores PROVE Reported'
  <2>1. at' \notin {"remove", "done"}
    BY <1>24 DEF ListenerStores, Goto
  <2>. QED
    BY <2>1 DEF Finishing
<1>25. CASE UNCHANGED vars
  <2>1. at' = at /\ s' = s /\ script' = script /\ history' = history /\ temp' = temp /\ seen' = seen
    BY <1>25 DEF vars
  <2>2. Reported
    BY <1>97, <2>1 DEF Finishing
  <2>3. LinesSoFar' = LinesSoFar /\ TestsSoFar' = TestsSoFar /\ ToPrint' = ToPrint /\ Begins' = Begins
        /\ StoredHere' = StoredHere
    BY <2>1 DEF LinesSoFar, TestsSoFar, ToPrint, Begins, StoredHere
  <2>. QED
    BY <2>1, <2>2, <2>3 DEF Reported
<1>. QED
  BY <1>1, <1>2, <1>3, <1>4, <1>5, <1>6, <1>7, <1>8, <1>9, <1>10, <1>11, <1>12, <1>13, <1>14,
       <1>15, <1>16, <1>17, <1>18, <1>19, <1>20, <1>21, <1>22, <1>23, <1>24, <1>25 DEF Next

\* The inductive invariant.
LEMMA FinishedStep ==
  ASSUME PrintIInv, FinishedIInv, [Next]_vars
  PROVE  FinishedIInv'
<1>1. Counted' /\ LinesNew'
  BY CountedKept, LinesNewKept DEF FinishedIInv
<1>. QED
  BY <1>1, ReportedKept DEF FinishedIInv

\* The inductive invariant holds at first.
LEMMA FinishedInit == Init => FinishedIInv
<1>. SUFFICES ASSUME Init PROVE FinishedIInv
  OBVIOUS
<1>. USE DEF Init, DatabaseInit
<1>1. Counted
  BY DEF Counted, Fresh
<1>2. LinesNew
  <2>1. InTemp = {} /\ InFlight = {}
    <3>1. InTemp = {}
      BY EmptyParts DEF InTemp
    <3>. QED
      BY <3>1, InFlightIs, OfEmptyScript
  <2>2. Range(s.testData) = {} /\ Range(s.diagData) = {} /\ seen.stored = {}
    BY EmptyParts DEF Fresh
  <2>3. Handled = {} /\ DOMAIN output = {}
    BY <2>1, <2>2, EmptyParts DEF Handled
  <2>. QED
    BY <2>3 DEF LinesNew
<1>. QED
  BY <1>1, <1>2 DEF FinishedIInv, Finishing

\* It implies that what a finished test stored is reported.
LEMMA FinishedImplies ==
  ASSUME PrintIInv, FinishedIInv
  PROVE  FinishedSaved
<1>. SUFFICES ASSUME at = "done", script = <<>>, s.functional, seen.fails = 0, Len(s.cache) >= s.numTests
              PROVE  /\ temp = <<>>
                     /\ \A l \in seen.stored : l \in Range(s.testData) => l \in Range(Last(history).lines)
                     /\ seen.stored \cap Range(s.testData) # {} => Last(history).executions = Len(s.cache)
  BY DEF FinishedSaved, Ready
<1>1. Reported
  BY DEF FinishedIInv, Finishing
<1>2. ~Begins /\ ToPrint = {}
  BY OfEmptyScript DEF Begins, ToPrint
<1>3. temp = <<>> /\ StoredHere \subseteq LinesSoFar
  BY <1>1, <1>2 DEF Reported
<1>4. CASE StoredHere = {}
  BY <1>3, <1>4 DEF StoredHere
<1>5. CASE StoredHere # {}
  <2>1. history # <<>> /\ CountsTo(<<>>, Len(s.cache) - TestsSoFar)
    BY <1>1, <1>2, <1>5 DEF Reported
  <2>2. Len(s.cache) - TestsSoFar = 0
    BY <2>1, CountsNone
  <2>3. LinesSoFar = Range(Last(history).lines) /\ TestsSoFar = Last(history).executions
    BY <1>2, <2>1 DEF LinesSoFar, TestsSoFar, Last
  <2>4. history[Len(history)] \in Record /\ Len(s.cache) \in Nat
    BY <2>1 DEF PrintIInv, AllTypes, Memory
  <2>5. Last(history).executions \in Nat
    BY <2>4 DEF Last, Record
  <2>. QED
    BY <1>3, <2>2, <2>3, <2>4, <2>5 DEF StoredHere
<1>. QED
  BY <1>4, <1>5

\* A functional test that came to its end without a failure leaves nothing to be saved
\* again; its printout has every line it stored and counts its tests.
THEOREM FinishedTestsReported == Spec => []FinishedSaved
<1>1. PrintIInv /\ FinishedIInv /\ [Next]_vars => FinishedIInv'
  BY FinishedStep
<1>2. PrintIInv /\ FinishedIInv => FinishedSaved
  BY FinishedImplies
<1>. QED
  BY <1>1, <1>2, PrintInvariant, FinishedInit, PTL DEF Spec

-------------------------------------------------------------------------------
\* What a step without a failure does to the place of main, to what it has chosen, to how
\* far it is with the tests, and to the chain.
SameChoice == s'.attempt = s.attempt /\ s'.sequence = s.sequence /\ s'.functional = s.functional
SamePlace == s'.cache = s.cache /\ s'.next = s.next /\ s'.current = s.current
SameTests == s'.numTests = s.numTests
SameChains == seen'.chain = seen.chain /\ seen'.saved = seen.saved
SameSession == SameChoice /\ SamePlace /\ SameTests /\ SameChains
Staying == at' = at /\ SameSession
Power == at' \in {"off", "info"} /\ s' = Fresh /\ SameChains
Before ==
  /\ at \in {"info", "unplanned", "printed"} /\ at' \in {"unplanned", "printed", "attempt"}
  /\ SamePlace /\ SameChains
Choosing == GetBoardAttempt /\ at = "attempt" /\ at' = "tests" /\ SamePlace /\ seen'.saved = seen.saved
Counting ==
  /\ at = "tests" /\ at' = "restore" /\ s'.numTests = NumberOfTests(s.attempt)
  /\ SameChoice /\ SamePlace /\ SameChains
Restoring == at = "restore" /\ at' = (IF s.functional THEN "stored" ELSE "burn") /\ SameSession
Burning ==
  /\ at = "burn" /\ at' = "burning" /\ SameChoice /\ s'.next = s.next /\ SameTests
  /\ seen'.saved = seen.saved /\ seen'.chain.attempt = seen.chain.attempt /\ seen'.chain.ran = seen.chain.ran
  /\ ~seen'.chain.functional
Caching ==
  /\ at = "stored" /\ at' = "choose" /\ s'.cache = CachedTests(s.sequence, s.numTests)
  /\ SameChoice /\ SameTests /\ s'.next = s.next /\ SameChains
Answering == at = "choose" /\ at' = "run" /\ SameChoice /\ SamePlace /\ SameChains
Starting ==
  /\ at = "run" /\ at' = "testing" /\ s'.next = s.next + 1 /\ s'.current = s.next
  /\ s'.cache = s.cache /\ SameChoice /\ SameTests /\ seen'.saved = seen.saved
  /\ seen'.chain.attempt = seen.chain.attempt /\ seen'.chain.functional = seen.chain.functional
  /\ seen'.chain.ran = seen.chain.ran \cup {s.cache[s.next + 1]}
Ending ==
  /\ \/ at = "testing" /\ at' = "run"
     \/ at = "burning" /\ at' = "done"
     \/ at = "run" /\ at' \in {"print", "done"} /\ s.next = Len(s.cache)
     \/ at \in {"print", "number", "remove"} /\ at' \in {"number", "remove", "done"}
  /\ SameSession
Storing ==
  /\ ListenerStores /\ at \in {"testing", "burning"} /\ at' = "waiting"
  /\ SameChoice /\ SamePlace /\ SameTests /\ seen'.chain = seen.chain /\ seen'.saved = seen.chain
Moves ==
  \/ Staying \/ Power \/ Before \/ Choosing \/ Counting \/ Restoring \/ Burning
  \/ Caching \/ Answering \/ Starting \/ Ending \/ Storing

\* The chain with which a session begins, when no query fails.
LEMMA ChainChosen ==
  ASSUME GetBoardAttempt, seen \in Seen, seen'.fails = 0
  PROVE  /\ seen'.saved = seen.saved
         /\ \/ \E attempt \in Continuable, functional \in BOOLEAN :
                 /\ s' = [s EXCEPT !.attempt = attempt, !.functional = functional,
                                   !.sequence = SequenceForAttempt(attempt)]
                 /\ seen'.chain = seen.saved
            \/ \E attempt \in Attempts, functional \in BOOLEAN :
                 /\ s' = [s EXCEPT !.attempt = attempt, !.functional = functional, !.sequence = -1]
                 /\ seen'.chain = [NoChain EXCEPT !.attempt = attempt]
<1>1. Fail(FALSE) \in Seen /\ Fail(FALSE).fails # 0
  BY FailSeen, FailCounted
<1>2. ASSUME NEW c, NEW x, NEW o \in Seen, seen' = [o EXCEPT !.chain = c, !.lossy = @ \/ x]
      PROVE  seen'.chain = c /\ seen'.saved = o.saved /\ seen'.fails = o.fails
  <2>. DEFINE b == o.lossy \/ x
  <2>1. seen' = [o EXCEPT !.chain = c, !.lossy = b]
    BY <1>2
  <2>. HIDE DEF b
  <2>. QED
    BY <2>1 DEF Seen
<1>3. ASSUME NEW attempt \in Continuable, NEW functional \in BOOLEAN,
             Chosen(attempt, SequenceForAttempt(attempt), functional, seen.saved, seen)
      PROVE  /\ seen'.saved = seen.saved /\ seen'.chain = seen.saved
             /\ s' = [s EXCEPT !.attempt = attempt, !.functional = functional,
                               !.sequence = SequenceForAttempt(attempt)]
  <2>1. PICK x : seen' = [seen EXCEPT !.chain = seen.saved, !.lossy = @ \/ x]
    BY <1>3, Zenon DEF Chosen
  <2>2. s' = [s EXCEPT !.attempt = attempt, !.functional = functional, !.sequence = SequenceForAttempt(attempt)]
    BY <1>3, Zenon DEF Chosen
  <2>. QED
    BY <1>2, <2>1, <2>2
<1>4. ASSUME NEW attempt, NEW functional, Chosen(attempt, -1, functional, NoChain, Fail(FALSE))
      PROVE  FALSE
  <2>1. PICK x : seen' = [Fail(FALSE) EXCEPT !.chain = NoChain, !.lossy = @ \/ x]
    BY <1>4, Zenon DEF Chosen
  <2>. QED
    BY <1>1, <1>2, <2>1
<1>5. ASSUME NEW attempt \in Attempts, NEW functional \in BOOLEAN,
             Chosen(attempt, -1, functional, [NoChain EXCEPT !.attempt = attempt], seen)
      PROVE  /\ seen'.saved = seen.saved /\ seen'.chain = [NoChain EXCEPT !.attempt = attempt]
             /\ s' = [s EXCEPT !.attempt = attempt, !.functional = functional, !.sequence = -1]
  <2>1. PICK x : seen' = [seen EXCEPT !.chain = [NoChain EXCEPT !.attempt = attempt], !.lossy = @ \/ x]
    BY <1>5, Zenon DEF Chosen
  <2>2. s' = [s EXCEPT !.attempt = attempt, !.functional = functional, !.sequence = -1]
    BY <1>5, Zenon DEF Chosen
  <2>. QED
    BY <1>2, <2>1, <2>2
<1>6. seen' # [Fail(FALSE) EXCEPT !.chain = NoChain]
  <2>1. [Fail(FALSE) EXCEPT !.chain = NoChain].fails # 0
    BY <1>1 DEF Seen
  <2>. QED
    BY <2>1
<1>7. \/ \E attempt \in Continuable, functional \in BOOLEAN :
            \/ Chosen(attempt, SequenceForAttempt(attempt), functional, seen.saved, seen)
            \/ Chosen(attempt, -1, functional, NoChain, Fail(FALSE))
      \/ \E attempt \in Attempts, functional \in BOOLEAN :
            Chosen(attempt, -1, functional, [NoChain EXCEPT !.attempt = attempt], seen)
  BY <1>6, Zenon DEF GetBoardAttempt
<1>8. CASE \E attempt \in Continuable, functional \in BOOLEAN :
             \/ Chosen(attempt, SequenceForAttempt(attempt), functional, seen.saved, seen)
             \/ Chosen(attempt, -1, functional, NoChain, Fail(FALSE))
  <2>1. PICK attempt \in Continuable, functional \in BOOLEAN :
          \/ Chosen(attempt, SequenceForAttempt(attempt), functional, seen.saved, seen)
          \/ Chosen(attempt, -1, functional, NoChain, Fail(FALSE))
    BY <1>8, Zenon
  <2>2. Chosen(attempt, SequenceForAttempt(attempt), functional, seen.saved, seen)
    BY <2>1, <1>4, Zenon
  <2>. QED
    BY <2>2, <1>3, Zenon
<1>9. CASE \E attempt \in Attempts, functional \in BOOLEAN :
             Chosen(attempt, -1, functional, [NoChain EXCEPT !.attempt = attempt], seen)
  BY <1>9, <1>5, Zenon
<1>. QED
  BY <1>7, <1>8, <1>9, Zenon

\* Every step that does not fail is one of these moves.
LEMMA SessionMoves ==
  ASSUME PrintIInv, seen.fails = 0, seen'.fails = 0, [Next]_vars
  PROVE  Moves
<1>. USE DEF dbVars
<1>0. AllTypes /\ Fits(at, script) /\ LinesToPrint /\ at \in Places /\ seen \in Seen
      /\ script \in Seq(Statement) /\ temp \in Seq(Row) /\ s \in Memory
  BY DEF PrintIInv, ScriptFits, AllTypes
<1>. USE <1>0
<1>f. \A b \in BOOLEAN : seen' # Fail(b)
  BY FailCounted
<1>1. ASSUME Execute PROVE Moves
  <2>1. at' = at /\ s' = s
    BY <1>1 DEF Execute
  <2>2. seen'.chain = seen.chain /\ seen'.saved = seen.saved
    BY <1>1 DEF Execute, Seen
  <2>3. Staying
    BY <2>1, <2>2 DEF Staying, SameSession, SameChoice, SamePlace, SameTests, SameChains
  <2>. QED
    BY <2>3 DEF Moves
<1>2. ASSUME StatementFails PROVE Moves
  <2>. DEFINE b == Head(script).op \in {"insert", "print", "append"}
  <2>1. b \in BOOLEAN /\ seen' = Fail(b)
    BY <1>2 DEF StatementFails
  <2>. HIDE DEF b
  <2>. QED
    BY <2>1, <1>f
<1>3. ASSUME PowerOn PROVE Moves
  <2>1. at' = "info" /\ s' = Fresh
    BY <1>3 DEF PowerOn, Goto
  <2>2. seen'.chain = seen.chain /\ seen'.saved = seen.saved
    BY <1>3 DEF PowerOn, Seen
  <2>. QED
    BY <2>1, <2>2 DEF Moves, Power, SameChains
<1>4. ASSUME PowerOff PROVE Moves
  <2>1. at' = "off" /\ s' = Fresh
    BY <1>4 DEF PowerOff, Goto
  <2>2. seen'.chain = seen.chain /\ seen'.saved = seen.saved
    BY <1>4 DEF PowerOff, Seen
  <2>. QED
    BY <2>1, <2>2 DEF Moves, Power, SameChains
<1>5. ASSUME SaveUnPlannedTestData PROVE Moves
  <2>1. /\ at = "info" /\ at' \in {"attempt", "unplanned"} /\ seen' = seen
        /\ s' = s \/ \E a : s' = [s EXCEPT !.attempt = a]
    BY <1>5, <1>f DEF SaveUnPlannedTestData, Ready, Goto
  <2>2. s'.cache = s.cache /\ s'.next = s.next /\ s'.current = s.current
    BY <2>1 DEF Memory, Seen
  <2>3. Before
    BY <2>1, <2>2 DEF Before, SamePlace, SameChains
  <2>. QED
    BY <2>3 DEF Moves
<1>6. ASSUME PrintUnplanned PROVE Moves
  <2>1. at = "unplanned" /\ at' = "printed" /\ s' = s /\ seen' = seen
    BY <1>6, <1>f DEF PrintUnplanned, PrintOut, Ready, Goto
  <2>3. Before
    BY <2>1 DEF Before, SamePlace, SameChains
  <2>. QED
    BY <2>3 DEF Moves
<1>7. ASSUME AttemptRestored PROVE Moves
  <2>1. at = "printed" /\ at' = "attempt" /\ s' = [s EXCEPT !.attempt = 0] /\ seen' = seen
    BY <1>7 DEF AttemptRestored, Ready, Goto
  <2>2. s'.cache = s.cache /\ s'.next = s.next /\ s'.current = s.current
    BY <2>1 DEF Memory, Seen
  <2>3. Before
    BY <2>1, <2>2 DEF Before, SamePlace, SameChains
  <2>. QED
    BY <2>3 DEF Moves
<1>8. ASSUME GetBoardAttempt PROVE Moves
  <2>0. at = "attempt" /\ at' = "tests"
    BY <1>8 DEF GetBoardAttempt, Ready, Goto
  <2>1. s' = s \/ \E a, f, q : s' = [s EXCEPT !.attempt = a, !.functional = f, !.sequence = q]
    BY <1>8, AttemptChosen
  <2>2. s'.cache = s.cache /\ s'.next = s.next /\ s'.current = s.current
    BY <2>1 DEF Memory
  <2>3. seen'.saved = seen.saved
    BY <1>8, ChainChosen
  <2>. QED
    BY <1>8, <2>0, <2>2, <2>3 DEF Moves, Choosing, SamePlace
<1>9. ASSUME GetNumberOfTests PROVE Moves
  <2>1. at = "tests" /\ at' = "restore" /\ seen' = seen /\ s' = [s EXCEPT !.numTests = NumberOfTests(s.attempt)]
    BY <1>9, <1>f DEF GetNumberOfTests, Ready, Goto
  <2>2. s'.attempt = s.attempt /\ s'.sequence = s.sequence /\ s'.functional = s.functional /\ s'.cache = s.cache /\ s'.next = s.next /\ s'.current = s.current
        /\ s'.numTests = NumberOfTests(s.attempt)
    BY <2>1 DEF Memory, Seen
  <2>3. Counting
    BY <2>1, <2>2 DEF Counting, SameChoice, SamePlace, SameChains
  <2>. QED
    BY <2>3 DEF Moves
<1>10. ASSUME GetPreviousTestData PROVE Moves
  <2>1. PICK t, d : s' = [s EXCEPT !.testData = t, !.diagData = d]
    BY <1>10 DEF GetPreviousTestData
  <2>2. at = "restore" /\ at' = IF s.functional THEN "stored" ELSE "burn"
    BY <1>10 DEF GetPreviousTestData, Ready, Goto
  <2>3. s'.attempt = s.attempt /\ s'.sequence = s.sequence /\ s'.functional = s.functional /\ s'.cache = s.cache /\ s'.next = s.next /\ s'.current = s.current
        /\ s'.numTests = s.numTests
    BY <2>1 DEF Memory
  <2>4. seen' = seen
    <3>1. PICK x \in {Restored, <<>>} : seen' = seen \/ seen' = Fail(x = <<>>)
      BY <1>10 DEF GetPreviousTestData
    <3>. QED
      BY <3>1, <1>f
  <2>5. Restoring
    BY <2>2, <2>3, <2>4 DEF Restoring, SameSession, SameChoice, SamePlace, SameTests, SameChains
  <2>. QED
    BY <2>5 DEF Moves
<1>11. ASSUME BurninTest PROVE Moves
  <2>1. /\ at = "burn" /\ at' = "burning" /\ seen'.saved = seen.saved
        /\ seen'.chain = [seen.chain EXCEPT !.functional = FALSE]
        /\ \E c : s' = [s EXCEPT !.cache = c, !.current = s.numTests - 1]
    BY <1>11, BurnInBegins
  <2>2. s'.attempt = s.attempt /\ s'.sequence = s.sequence /\ s'.functional = s.functional
        /\ s'.next = s.next /\ s'.numTests = s.numTests
    BY <2>1 DEF Memory
  <2>3. /\ seen'.chain.attempt = seen.chain.attempt /\ seen'.chain.ran = seen.chain.ran
        /\ ~seen'.chain.functional
    BY <2>1 DEF Seen, Chain
  <2>4. Burning
    BY <2>1, <2>2, <2>3 DEF Burning, SameChoice, SameTests
  <2>. QED
    BY <2>4 DEF Moves
<1>12. ASSUME Cache PROVE Moves
  <2>1. at = "stored" /\ at' = "choose" /\ seen' = seen /\ s' = [s EXCEPT !.cache = CachedTests(s.sequence, s.numTests)]
    BY <1>12, <1>f DEF Cache, Ready, Goto
  <2>2. s'.attempt = s.attempt /\ s'.sequence = s.sequence /\ s'.functional = s.functional
        /\ s'.next = s.next /\ s'.numTests = s.numTests /\ s'.cache = CachedTests(s.sequence, s.numTests)
    BY <2>1 DEF Memory, Seen
  <2>3. Caching
    BY <2>1, <2>2 DEF Caching, SameChoice, SameTests, SameChains
  <2>. QED
    BY <2>3 DEF Moves
<1>13. ASSUME StartTest PROVE Moves
  <2>1. at = "run" /\ at' = "testing" /\ s' = [s EXCEPT !.current = s.next, !.next = @ + 1]
    BY <1>13 DEF StartTest, Ready, Goto
  <2>2. s'.attempt = s.attempt /\ s'.sequence = s.sequence /\ s'.functional = s.functional
        /\ s'.next = s.next + 1 /\ s'.current = s.next /\ s'.cache = s.cache /\ s'.numTests = s.numTests
    BY <2>1 DEF Memory
  <2>3. seen' = [seen EXCEPT !.chain.ran = @ \cup {s.cache[s.next + 1]}]
    BY <1>13 DEF StartTest
  <2>4. /\ seen'.saved = seen.saved /\ seen'.chain.attempt = seen.chain.attempt
        /\ seen'.chain.functional = seen.chain.functional
        /\ seen'.chain.ran = seen.chain.ran \cup {s.cache[s.next + 1]}
    BY <2>3 DEF Seen, Chain
  <2>5. Starting
    BY <2>1, <2>2, <2>4 DEF Starting, SameChoice, SameTests
  <2>. QED
    BY <2>5 DEF Moves
<1>14. ASSUME TestRestarts PROVE Moves
  <2>1. at' = at /\ s' = s /\ seen' = seen
    BY <1>14 DEF TestRestarts
  <2>3. Staying
    BY <2>1 DEF Staying, SameSession, SameChoice, SamePlace, SameTests, SameChains
  <2>. QED
    BY <2>3 DEF Moves
<1>15. ASSUME TestEnds PROVE Moves
  <2>1. at = "testing" /\ at' = "run" /\ s' = [s EXCEPT !.executions = @ + 1] /\ seen' = seen
    BY <1>15 DEF TestEnds, Ready, Goto
  <2>2. s'.attempt = s.attempt /\ s'.sequence = s.sequence /\ s'.functional = s.functional /\ s'.cache = s.cache /\ s'.next = s.next /\ s'.current = s.current
        /\ s'.numTests = s.numTests
    BY <2>1 DEF Memory, Seen
  <2>3. Ending
    BY <2>1, <2>2 DEF Ending, SameSession, SameChoice, SamePlace, SameTests, SameChains
  <2>. QED
    BY <2>3 DEF Moves
<1>16. ASSUME TimeIsUp PROVE Moves
  <2>1. at = "burning" /\ at' = "done" /\ s' = s /\ seen'.chain = seen.chain /\ seen'.saved = seen.saved
    BY <1>16, BurnInEnds
  <2>3. Ending
    BY <2>1 DEF Ending, SameSession, SameChoice, SamePlace, SameTests, SameChains
  <2>. QED
    BY <2>3 DEF Moves
<1>17. ASSUME LastTestEnded PROVE Moves
  <2>1. at = "run" /\ at' \in {"print", "done"} /\ s.next = Len(s.cache) /\ s' = s /\ seen' = seen
    BY <1>17 DEF LastTestEnded, Ready, Goto
  <2>3. Ending
    BY <2>1 DEF Ending, SameSession, SameChoice, SamePlace, SameTests, SameChains
  <2>. QED
    BY <2>3 DEF Moves
<1>18. ASSUME NEW repeated \in BOOLEAN, ChooseTests(repeated) PROVE Moves
  <2>1. at = "choose" /\ at' = "run" /\ seen' = seen /\ s' = [s EXCEPT !.numTests = ActiveTests(s.cache, @, repeated)]
    BY <1>18 DEF ChooseTests, Ready, Goto
  <2>2. s'.attempt = s.attempt /\ s'.sequence = s.sequence /\ s'.functional = s.functional /\ s'.cache = s.cache /\ s'.next = s.next /\ s'.current = s.current
    BY <2>1 DEF Memory, Seen
  <2>3. Answering
    BY <2>1, <2>2 DEF Answering, SameChoice, SamePlace, SameChains
  <2>. QED
    BY <2>3 DEF Moves
<1>19. ASSUME NEW kind \in {"test", "diag"}, TestSends(kind) PROVE Moves
  <2>1. at' = at /\ s' = s
    BY <1>19 DEF TestSends
  <2>2. seen'.chain = seen.chain /\ seen'.saved = seen.saved
    BY <1>19 DEF TestSends, Seen
  <2>3. Staying
    BY <2>1, <2>2 DEF Staying, SameSession, SameChoice, SamePlace, SameTests, SameChains
  <2>. QED
    BY <2>3 DEF Moves
<1>20. ASSUME BeginPrintout PROVE Moves
  <2>1. at = "print" /\ at' \in {"remove", "number"} /\ s' = s /\ seen' = seen
    BY <1>20 DEF BeginPrintout, Ready, Goto
  <2>3. Ending
    BY <2>1 DEF Ending, SameSession, SameChoice, SamePlace, SameTests, SameChains
  <2>. QED
    BY <2>3 DEF Moves
<1>21. ASSUME Printout PROVE Moves
  <2>1. at = "number" /\ at' = "remove" /\ s' = s /\ seen' = seen
    BY <1>21, <1>f DEF Printout, PrintOut, Ready, Goto
  <2>3. Ending
    BY <2>1 DEF Ending, SameSession, SameChoice, SamePlace, SameTests, SameChains
  <2>. QED
    BY <2>3 DEF Moves
<1>22. ASSUME RemoveData PROVE Moves
  <2>1. at = "remove" /\ at' = "done" /\ s' = s /\ seen' = seen
    BY <1>22 DEF RemoveData, Ready, Goto
  <2>3. Ending
    BY <2>1 DEF Ending, SameSession, SameChoice, SamePlace, SameTests, SameChains
  <2>. QED
    BY <2>3 DEF Moves
<1>23. ASSUME ListenerKeeps PROVE Moves
  <2>1. at' = at /\ seen' = seen
    BY <1>23 DEF ListenerKeeps
  <2>2. s'.attempt = s.attempt /\ s'.sequence = s.sequence /\ s'.functional = s.functional /\ s'.cache = s.cache /\ s'.next = s.next /\ s'.current = s.current
        /\ s'.numTests = s.numTests
    BY <1>23, Keeping DEF Memory
  <2>3. Staying
    BY <2>1, <2>2 DEF Staying, SameSession, SameChoice, SamePlace, SameTests, SameChains
  <2>. QED
    BY <2>3 DEF Moves
<1>24. ASSUME ListenerStores PROVE Moves
  <2>1. at \in {"testing", "burning"} /\ at' = "waiting" /\ s' = s
    BY <1>24 DEF ListenerStores, Goto
  <2>2. seen'.chain = seen.chain /\ seen'.saved = seen.chain
    BY <1>24 DEF ListenerStores, Seen
  <2>3. Storing
    BY <1>24, <2>1, <2>2 DEF Storing, SameChoice, SamePlace, SameTests
  <2>. QED
    BY <2>3 DEF Moves
<1>25. CASE UNCHANGED vars
  <2>1. Staying
    BY <1>25 DEF vars, Staying, SameSession, SameChoice, SamePlace, SameTests, SameChains
  <2>. QED
    BY <2>1 DEF Moves
<1>. QED
  BY <1>1, <1>2, <1>3, <1>4, <1>5, <1>6, <1>7, <1>8, <1>9, <1>10, <1>11, <1>12, <1>13, <1>14,
       <1>15, <1>16, <1>17, <1>18, <1>19, <1>20, <1>21, <1>22, <1>23, <1>24, <1>25 DEF Next

-------------------------------------------------------------------------------
\* Where main is agrees with what it has chosen and with how far it is.
LEMMA PlacesRightKept ==
  ASSUME PrintIInv, seen.fails = 0, seen'.fails = 0, PlacesRight, [Next]_vars
  PROVE  PlacesRight'
<1>0. Moves /\ s \in Memory /\ seen \in Seen
  BY SessionMoves DEF PrintIInv, AllTypes
<1>1. CASE Staying
  BY <1>1 DEF Staying, SameSession, SameChoice, SamePlace, SameTests, SameChains, PlacesRight, Finished
<1>2. CASE Power
  BY <1>2 DEF Power, PlacesRight, Finished, Functional, Fresh
<1>3. CASE Before
  BY <1>3 DEF Before, SamePlace, PlacesRight, Finished, Functional
<1>4. CASE Choosing
  BY <1>4 DEF Choosing, SamePlace, PlacesRight, Finished, Functional
<1>5. CASE Counting
  BY <1>5 DEF Counting, SameChoice, SamePlace, PlacesRight, Finished, Functional
<1>6. CASE Restoring
  BY <1>6 DEF Restoring, SameSession, SameChoice, SamePlace, SameTests, PlacesRight, Finished, Functional
<1>7. CASE Burning
  BY <1>7 DEF Burning, SameChoice, PlacesRight, Finished, Functional
<1>8. CASE Caching
  BY <1>8 DEF Caching, SameChoice, PlacesRight, Finished, Functional
<1>9. CASE Answering
  BY <1>9 DEF Answering, SameChoice, SamePlace, PlacesRight, Finished, Functional
<1>10. CASE Starting
  <2>1. s.next \in Nat
    BY <1>0 DEF Memory
  <2>2. s'.current = s'.next - 1
    BY <1>10, <2>1 DEF Starting
  <2>. QED
    BY <1>10, <2>2 DEF Starting, SameChoice, PlacesRight, Finished, Functional
<1>11. CASE Ending
  BY <1>11 DEF Ending, SameSession, SameChoice, SamePlace, SameTests, PlacesRight, Finished, Functional
<1>12. CASE Storing
  BY <1>12 DEF Storing, PlacesRight, Finished, Functional
<1>. QED
  BY <1>0, <1>1, <1>2, <1>3, <1>4, <1>5, <1>6, <1>7, <1>8, <1>9, <1>10, <1>11, <1>12 DEF Moves

\* A chain that goes on reaches what it had reached.
LEMMA GoesOnLater ==
  ASSUME NEW attempt, NEW sequence, NEW c, NEW d, GoesOn(attempt, sequence, c),
         d.attempt = c.attempt, c.ran \subseteq d.ran
  PROVE  GoesOn(attempt, sequence, d)
  BY DEF GoesOn, RanUpTo

\* A session of a new attempt, or of one whose stored sequence is -1, has nothing behind it.
LEMMA NothingBehind ==
  ASSUME NEW attempt \in Int, NEW c, c.attempt \in Int, attempt <= c.attempt
  PROVE  GoesOn(attempt, -1, c)
<1>1. 0..(-1) = {}
  OBVIOUS
<1>. QED
  BY <1>1 DEF GoesOn, RanUpTo

\* The attempts that can be continued are of rows kept for a restart; the sequence of one is
\* the greatest of its rows.
LEMMA SequenceFound ==
  ASSUME temp \in Seq(Row), \A p, r \in Range(temp) : p.planned = r.planned,
         NEW attempt \in Continuable
  PROVE  /\ \E r \in Range(temp) : r.planned /\ r.attempt = attempt
         /\ \/ SequenceForAttempt(attempt) = -1
            \/ \E r \in Range(temp) :
                 r.planned /\ r.attempt = attempt /\ r.sequence = SequenceForAttempt(attempt)
<1>1. PICK p \in Range(temp) : p.planned /\ p.attempt = attempt
  <2>. DEFINE q == Kept(TRUE)
  <2>1. /\ q \in Seq(Row)
        /\ \A i \in DOMAIN q : \E k \in DOMAIN temp : q[i] = temp[k] /\ temp[k].planned = TRUE
    BY KeptRows
  <2>2. PICK x \in Range(q) : attempt = x.attempt
    BY DEF Continuable
  <2>. HIDE DEF q
  <2>3. PICK i \in DOMAIN q : x = q[i]
    BY <2>2 DEF Range
  <2>4. PICK k \in DOMAIN temp : q[i] = temp[k] /\ temp[k].planned = TRUE
    BY <2>1, <2>3
  <2>. QED
    BY <2>2, <2>3, <2>4 DEF Range
<1>2. \/ SequenceForAttempt(attempt) = -1
      \/ \E k \in DOMAIN temp : temp[k].attempt = attempt /\ SequenceForAttempt(attempt) = temp[k].sequence
  BY SequenceType
<1>3. ASSUME NEW k \in DOMAIN temp, temp[k].attempt = attempt,
             SequenceForAttempt(attempt) = temp[k].sequence
      PROVE  \E r \in Range(temp) :
                 r.planned /\ r.attempt = attempt /\ r.sequence = SequenceForAttempt(attempt)
  <2>1. temp[k] \in Range(temp)
    BY DEF Range
  <2>2. temp[k].planned
    BY <1>1, <2>1
  <2>. QED
    BY <1>3, <2>1, <2>2
<1>. QED
  BY <1>1, <1>2, <1>3

\* A session begins where its chain has got to.
LEMMA ChainRightKept ==
  ASSUME PrintIInv, seen.fails = 0, seen'.fails = 0, PlacesRight, RowsRight, ChainRight, [Next]_vars
  PROVE  ChainRight'
<1>0. /\ Moves /\ s \in Memory /\ seen \in Seen /\ temp \in Seq(Row)
      /\ seen.chain \in Chain /\ seen.saved \in Chain
  BY SessionMoves DEF PrintIInv, AllTypes, Seen
<1>1. ASSUME SameChoice, seen'.chain.attempt = seen.chain.attempt, seen.chain.ran \subseteq seen'.chain.ran,
             seen'.chain.functional => seen.chain.functional, at' \notin BeforeChoice => at \notin BeforeChoice
      PROVE  ChainRight'
  <2>. SUFFICES ASSUME at' \notin BeforeChoice, seen'.chain.functional
                PROVE  GoesOn(s'.attempt, s'.sequence, seen'.chain)
    BY DEF ChainRight
  <2>1. GoesOn(s.attempt, s.sequence, seen.chain)
    BY <1>1 DEF ChainRight
  <2>. QED
    BY <1>1, <2>1, GoesOnLater DEF SameChoice
<1>2. CASE Staying
  BY <1>1, <1>2 DEF Staying, SameSession, SameChains
<1>3. CASE Power
  BY <1>3 DEF Power, ChainRight, BeforeChoice
<1>4. CASE Before
  BY <1>4 DEF Before, ChainRight, BeforeChoice
<1>5. CASE Choosing
  <2>1. GetBoardAttempt
    BY <1>5 DEF Choosing
  <2>2. ASSUME NEW attempt \in Continuable, NEW functional \in BOOLEAN,
               s' = [s EXCEPT !.attempt = attempt, !.functional = functional,
                              !.sequence = SequenceForAttempt(attempt)],
               seen'.chain = seen.saved
        PROVE  ChainRight'
    <3>. SUFFICES ASSUME seen.saved.functional
                  PROVE  GoesOn(attempt, SequenceForAttempt(attempt), seen.saved)
      <4>1. s'.attempt = attempt /\ s'.sequence = SequenceForAttempt(attempt)
        BY <1>0, <2>2 DEF Memory
      <4>. QED
        BY <2>2, <4>1 DEF ChainRight
    <3>1. \A r \in Range(temp) : r.planned => GoesOn(r.attempt, r.sequence, seen.saved)
      BY DEF RowsRight
    <3>2. /\ \E r \in Range(temp) : r.planned /\ r.attempt = attempt
          /\ \/ SequenceForAttempt(attempt) = -1
             \/ \E r \in Range(temp) :
                  r.planned /\ r.attempt = attempt /\ r.sequence = SequenceForAttempt(attempt)
      BY <1>0, SequenceFound DEF RowsRight
    <3>3. CASE SequenceForAttempt(attempt) = -1
      <4>1. attempt <= seen.saved.attempt
        BY <3>1, <3>2 DEF GoesOn
      <4>2. attempt \in Int /\ seen.saved.attempt \in Int
        BY <1>0, AttemptTypes DEF Chain
      <4>. QED
        BY <3>3, <4>1, <4>2, NothingBehind
    <3>4. CASE SequenceForAttempt(attempt) # -1
      BY <3>1, <3>2, <3>4
    <3>. QED
      BY <3>3, <3>4
  <2>3. ASSUME NEW attempt \in Attempts, NEW functional \in BOOLEAN,
               s' = [s EXCEPT !.attempt = attempt, !.functional = functional, !.sequence = -1],
               seen'.chain = [NoChain EXCEPT !.attempt = attempt]
        PROVE  ChainRight'
    <3>1. s'.attempt = attempt /\ s'.sequence = -1
      BY <1>0, <2>3 DEF Memory
    <3>2. seen'.chain.attempt = attempt /\ attempt \in Int
      BY <2>3, DatabaseAssumption DEF NoChain
    <3>3. GoesOn(attempt, -1, seen'.chain)
      BY <3>2, NothingBehind
    <3>. QED
      BY <3>1, <3>3 DEF ChainRight
  <2>. QED
    BY <1>0, <2>1, <2>2, <2>3, ChainChosen, Zenon
<1>6. CASE Counting
  BY <1>1, <1>6 DEF Counting, SameChains, BeforeChoice
<1>7. CASE Restoring
  BY <1>1, <1>7 DEF Restoring, SameSession, SameChains, BeforeChoice
<1>8. CASE Burning
  BY <1>1, <1>8 DEF Burning, BeforeChoice
<1>9. CASE Caching
  BY <1>1, <1>9 DEF Caching, SameChains, BeforeChoice
<1>10. CASE Answering
  BY <1>1, <1>10 DEF Answering, SameChains, BeforeChoice
<1>11. CASE Starting
  <2>1. seen.chain.ran \subseteq seen'.chain.ran
    BY <1>11 DEF Starting
  <2>. QED
    BY <1>1, <1>11, <2>1 DEF Starting, BeforeChoice
<1>12. CASE Ending
  BY <1>1, <1>12 DEF Ending, SameSession, SameChains, BeforeChoice
<1>13. CASE Storing
  BY <1>1, <1>13 DEF Storing, BeforeChoice
<1>. QED
  BY <1>0, <1>2, <1>3, <1>4, <1>5, <1>6, <1>7, <1>8, <1>9, <1>10, <1>11, <1>12, <1>13 DEF Moves

\* cachedTests has the tests from the sequence on, in their order.
LEMMA CacheComplete ==
  ASSUME NEW sequence \in Int, sequence >= -1
  PROVE  LET c == CachedTests(sequence, NumberOfTests(s.attempt)) IN
           /\ \A n \in Nat : sequence < n /\ HasTest(s.attempt, n) => \E j \in DOMAIN c : c[j] = n
           /\ \A j \in DOMAIN c : sequence + j <= c[j]
<1>. DEFINE numTests == NumberOfTests(s.attempt)
            m == numTests - sequence - 1
            tests == After(sequence, numTests)
            K == {k \in DOMAIN tests : HasTest(s.attempt, tests[k])}
            c == CachedTests(sequence, numTests)
<1>1. numTests \in Nat
  BY TestsType
<1>2. tests = [k \in 1..m |-> sequence + k]
  BY DEF After
<1>3. DOMAIN tests = 1..m /\ \A k \in 1..m : tests[k] = sequence + k
  BY <1>2
<1>4. tests \in Seq(Int)
  <2>1. m \in Int
    BY <1>1
  <2>2. CASE m \in Nat
    <3>. HIDE DEF m, tests
    <3>. QED
      BY <1>2, <2>2
  <2>3. CASE m \notin Nat
    <3>. HIDE DEF m, tests
    <3>1. 1..m = {}
      BY <2>1, <2>3
    <3>2. tests = <<>>
      BY <1>2, <3>1
    <3>. QED
      BY <3>2
  <2>. QED
    BY <2>2, <2>3
<1>5. c = AtPlaces(tests, K) /\ K \in SUBSET DOMAIN tests
  BY DEF CachedTests
<1>6. /\ DOMAIN c = 1..Cardinality(K)
      /\ \A k \in K : \E i \in 1..Cardinality(K) : c[i] = tests[k]
      /\ \A i \in 1..Cardinality(K) : \E k \in K : c[i] = tests[k] /\ i <= k
  <2>. HIDE DEF tests, K, c
  <2>. QED
    BY <1>4, <1>5, AtPlacesUsesAll, ZenonT(60)
<1>7. ASSUME NEW n \in Nat, sequence < n, HasTest(s.attempt, n) PROVE \E j \in DOMAIN c : c[j] = n
  <2>1. n + 1 <= numTests
    <3>1. s.attempt \in Attempts /\ n + 1 \in DOMAIN Tests[s.attempt]
      BY <1>7 DEF HasTest
    <3>2. Tests[s.attempt] \in Seq(BOOLEAN) /\ numTests = Len(Tests[s.attempt])
      BY <3>1, DatabaseAssumption DEF NumberOfTests
    <3>. QED
      BY <3>1, <3>2
  <2>2. n - sequence \in 1..m /\ sequence + (n - sequence) = n
    BY <1>1, <1>7, <2>1
  <2>3. tests[n - sequence] = n
    <3>. HIDE DEF tests, m
    <3>. QED
      BY <1>3, <2>2
  <2>4. n - sequence \in K
    <3>. HIDE DEF tests, m
    <3>. QED
      BY <1>3, <1>7, <2>2, <2>3
  <2>. HIDE DEF tests, K, c
  <2>. QED
    BY <1>6, <2>3, <2>4
<1>8. ASSUME NEW j \in DOMAIN c PROVE sequence + j <= c[j]
  <2>1. PICK k \in K : c[j] = tests[k] /\ j <= k
    <3>. HIDE DEF tests, K, c
    <3>. QED
      BY <1>6
  <2>2. k \in 1..m /\ tests[k] = sequence + k
    <3>1. k \in DOMAIN tests
      BY <2>1
    <3>. HIDE DEF tests, m
    <3>. QED
      BY <1>3, <3>1
  <2>3. j \in 1..Cardinality(K) /\ Cardinality(K) \in Nat
    <3>. HIDE DEF tests, K, c
    <3>. QED
      BY <1>4, <1>5, <1>6, AtPlacesUsesAll
  <2>. HIDE DEF tests, K, c
  <2>4. j \in Int /\ k \in Int /\ m \in Int
    BY <1>1, <2>2, <2>3
  <2>. QED
    BY <2>1, <2>2, <2>4
<1>. HIDE DEF c
<1>9. \A n \in Nat : sequence < n /\ HasTest(s.attempt, n) => \E j \in DOMAIN c : c[j] = n
  BY <1>7
<1>10. \A j \in DOMAIN c : sequence + j <= c[j]
  BY <1>8
<1>. QED
  BY <1>9, <1>10 DEF c

\* A session has all tests from its sequence on, and those that were begun have run.
LEMMA CacheRightKept ==
  ASSUME PrintIInv, seen.fails = 0, seen'.fails = 0, PlacesRight, CacheRight, [Next]_vars
  PROVE  CacheRight'
<1>0. Moves /\ s \in Memory /\ seen \in Seen /\ s.sequence \in Int /\ s.sequence >= -1
  BY SessionMoves DEF PrintIInv, AllTypes, Memory
<1>1. ASSUME SameChoice, s'.cache = s.cache, s'.next = s.next, seen'.chain.ran = seen.chain.ran,
             at' \in Cached /\ s.functional => at \in Cached
      PROVE  CacheRight'
  BY <1>1 DEF CacheRight, SameChoice
<1>2. CASE Staying
  BY <1>1, <1>2 DEF Staying, SameSession, SameChains, SamePlace
<1>3. CASE Power
  BY <1>3 DEF Power, CacheRight, Cached
<1>4. CASE Before
  BY <1>4 DEF Before, CacheRight, Cached
<1>5. CASE Choosing
  BY <1>5 DEF Choosing, CacheRight, Cached
<1>6. CASE Counting
  BY <1>6 DEF Counting, CacheRight, Cached
<1>7. CASE Restoring
  BY <1>7 DEF Restoring, CacheRight, Cached
<1>8. CASE Burning
  BY <1>8 DEF Burning, CacheRight, Cached
<1>9. CASE Caching
  <2>1. s.numTests = NumberOfTests(s.attempt) /\ s.next = 0
    BY <1>9 DEF Caching, PlacesRight
  <2>2. s'.cache = CachedTests(s.sequence, NumberOfTests(s.attempt)) /\ s'.next = 0
    BY <1>9, <2>1 DEF Caching
  <2>3. /\ \A n \in Nat : s.sequence < n /\ HasTest(s.attempt, n) => \E j \in DOMAIN s'.cache : s'.cache[j] = n
        /\ \A j \in DOMAIN s'.cache : s.sequence + j <= s'.cache[j]
    BY <1>0, <2>2, CacheComplete
  <2>4. 1..s'.next = {}
    BY <2>2
  <2>. QED
    BY <1>9, <2>3, <2>4 DEF Caching, CacheRight, SameChoice
<1>10. CASE Answering
  BY <1>1, <1>10 DEF Answering, SameChains, SamePlace, Cached
<1>11. CASE Starting
  <2>. SUFFICES ASSUME s.functional PROVE CacheRight'
    BY <1>11 DEF Starting, SameChoice, CacheRight
  <2>1. /\ \A n \in Nat : s.sequence < n /\ HasTest(s.attempt, n) => \E j \in DOMAIN s.cache : s.cache[j] = n
        /\ \A j \in DOMAIN s.cache : s.sequence + j <= s.cache[j]
        /\ \A j \in 1..s.next : s.cache[j] \in seen.chain.ran
    BY <1>11 DEF Starting, CacheRight, Cached
  <2>2. 1..s'.next = 1..s.next \cup {s.next + 1}
    <3>1. s.next \in Nat
      BY <1>0 DEF Memory
    <3>. QED
      BY <1>11, <3>1 DEF Starting
  <2>3. \A j \in 1..s'.next : s'.cache[j] \in seen'.chain.ran
    <3>1. s'.cache = s.cache /\ seen'.chain.ran = seen.chain.ran \cup {s.cache[s.next + 1]}
      BY <1>11 DEF Starting
    <3>. QED
      BY <2>1, <2>2, <3>1
  <2>. QED
    BY <1>11, <2>1, <2>3 DEF Starting, SameChoice, CacheRight
<1>12. CASE Ending
  BY <1>1, <1>12 DEF Ending, SameSession, SameChains, SamePlace, Cached, PlacesRight
<1>13. CASE Storing
  BY <1>1, <1>13 DEF Storing, SamePlace, Cached, PlacesRight
<1>. QED
  BY <1>0, <1>2, <1>3, <1>4, <1>5, <1>6, <1>7, <1>8, <1>9, <1>10, <1>11, <1>12, <1>13 DEF Moves

-------------------------------------------------------------------------------
\* What a sequence behind another has.
LEMMA ConcatRange ==
  ASSUME NEW S, NEW p \in Seq(S), NEW q \in Seq(S)
  PROVE  p \o q \in Seq(S) /\ Range(p \o q) = Range(p) \cup Range(q)
<1>1. /\ p \o q \in Seq(S) /\ Len(p) \in Nat /\ Len(q) \in Nat /\ Len(p \o q) = Len(p) + Len(q)
      /\ DOMAIN p = 1..Len(p) /\ DOMAIN q = 1..Len(q) /\ DOMAIN (p \o q) = 1..(Len(p) + Len(q))
      /\ \A k \in 1..Len(p) : (p \o q)[k] = p[k]
      /\ \A k \in 1..(Len(p) + Len(q)) : k > Len(p) => k - Len(p) \in 1..Len(q) /\ (p \o q)[k] = q[k - Len(p)]
      /\ Range(p \o q) = Range(p) \cup Range(q)
  BY ConcatParts, SMT
<1>. QED
  BY <1>1

\* The rows a script stores.
RowsOf(q, planned, attempt, sequence) ==
  \A r \in RowsBy(q) :
    r.planned = planned /\ r.sequence = sequence /\ (r.attempt = attempt \/ r.attempt = attempt - 1)

\* databaseInsertTemporaryTestData stores rows of one kind, and of one sequence.
LEMMA RowsStored ==
  ASSUME NEW planned \in BOOLEAN, NEW attempt \in Int, NEW sequence \in Int,
         NEW t \in Seq(Line), NEW d \in Seq(Line)
  PROVE  LET q == InsertTemporaryTestData(planned, attempt, sequence, t, d) IN
           q # <<>> /\ q[1].op = "clear" /\ RowsOf(q, planned, attempt, sequence)
<1>. DEFINE a == Insert("test", planned, attempt, sequence, t)
            b == Insert("diag", planned, attempt, sequence, d)
            c == <<Clear>>
            q == InsertTemporaryTestData(planned, attempt, sequence, t, d)
            Right(r) == /\ r.planned = planned /\ r.sequence = sequence
                        /\ r.attempt = attempt \/ r.attempt = attempt - 1
<1>1. q # <<>> /\ q[1].op = "clear"
  <2>1. StoresLines(q, t, d)
    BY StoreStatements
  <2>. HIDE DEF q
  <2>. QED
    BY <2>1 DEF StoresLines, Stores, Clear
<1>2. ASSUME NEW where, NEW lines \in Seq(Line),
             NEW x \in Range(Insert(where, planned, attempt, sequence, lines))
      PROVE  Right(x.row)
  <2>1. PICK k \in 1..Len(lines) : x.row = RowFor(where, planned, attempt, sequence, lines[k])
    BY DEF Insert, Range
  <2>. QED
    BY <2>1 DEF RowFor
<1>3. a \in Seq(Statement) /\ b \in Seq(Statement) /\ c \in Seq(Statement)
  <2>1. Clear \in Statement
    BY DEF Clear, Statement
  <2>2. c \in Seq(Statement)
    BY <2>1
  <2>3. a \in Seq(Statement)
    BY InsertStatements, Zenon
  <2>4. b \in Seq(Statement)
    BY InsertStatements, Zenon
  <2>. QED
    BY <2>2, <2>3, <2>4
<1>4. \A x \in Range(a) \cup Range(b) : Right(x.row)
  BY <1>2
<1>5. q = (c \o a) \o b
  BY DEF InsertTemporaryTestData
<1>6. Range(c) = {Clear}
  BY DEF Range
<1>. HIDE DEF a, b, c, q, Right
<1>7. c \o a \in Seq(Statement) /\ Range(c \o a) = Range(c) \cup Range(a)
  BY <1>3, ConcatRange, ZenonT(60)
<1>8. Range((c \o a) \o b) = Range(c \o a) \cup Range(b)
  <2>. DEFINE p == c \o a
  <2>1. p \in Seq(Statement) /\ b \in Seq(Statement)
    BY <1>3, <1>7
  <2>. HIDE DEF p
  <2>2. Range(p \o b) = Range(p) \cup Range(b)
    BY <2>1, ConcatRange, ZenonT(60)
  <2>. QED
    BY <2>2 DEF p
<1>9. \A x \in Range(q) : x.op = "insert" => Right(x.row)
  BY <1>4, <1>5, <1>6, <1>7, <1>8 DEF Clear
<1>10. \A r \in RowsBy(q) : Right(r)
  BY <1>9 DEF RowsBy
<1>. QED
  BY <1>1, <1>10 DEF RowsOf, Right, q

\* No other script stores any.
LEMMA NoRows ==
  ASSUME NEW q \in Seq(Statement), q = <<>> \/ OfInfo(q) \/ OfPrint(q) \/ q = <<Clear>>
  PROVE  RowsBy(q) = {}
<1>1. \A x \in Range(q) : x.op # "insert"
  <2>1. CASE OfInfo(q)
    BY <2>1 DEF OfInfo, Range, InfoOps
  <2>2. CASE OfPrint(q)
    BY <2>2 DEF OfPrint, Range, PrintOps
  <2>3. CASE q = <<>>
    BY <2>3, EmptyParts
  <2>4. CASE q = <<Clear>>
    BY <2>4 DEF Range, Clear
  <2>. QED
    BY <2>1, <2>2, <2>3, <2>4
<1>. QED
  BY <1>1 DEF RowsBy

\* What a step without a failure does to the rows.
Executes == Execute /\ at' = at
NoChange == temp' = temp /\ script' = script /\ at' = at
Later == {"stored", "choose", "run", "testing"}
Empties == temp' = temp /\ InScript' = {} /\ (at' \in Later => at \in Later /\ ~Clearing)
StoresAgain ==
  /\ temp' = temp /\ Clearing' /\ \A r \in InScript' : ~r.planned
StoresPlanned ==
  /\ temp' = temp /\ Clearing' /\ RowsOf(script', TRUE, s.attempt, s.current)
  /\ ListenerStores /\ at' = "waiting" /\ ~Clearing
RowMoves ==
  \/ Executes \/ NoChange \/ Empties \/ StoresAgain \/ StoresPlanned

\* The listener stores rows for a restart.
LEMMA ListenerRows ==
  ASSUME PrintIInv, ListenerStores
  PROVE  StoresPlanned
<1>. USE DEF dbVars
<1>0. AllTypes /\ Fits(at, script) /\ s \in Memory
  BY DEF PrintIInv, ScriptFits, AllTypes
<1>. USE <1>0
<1>1. /\ temp' = temp /\ at \in {"testing", "burning"} /\ at' = "waiting"
      /\ script' = InsertTemporaryTestData(TRUE, s.attempt, s.current, s.testData, s.diagData)
  BY DEF ListenerStores, Goto
<1>2. /\ s.attempt \in Int /\ s.current \in Int
      /\ s.testData \in Seq(Line) /\ s.diagData \in Seq(Line)
  BY DEF Memory
<1>3. script' # <<>> /\ script'[1].op = "clear" /\ RowsOf(script', TRUE, s.attempt, s.current)
  BY <1>1, <1>2, RowsStored, ZenonT(60)
<1>4. script = <<>>
  BY <1>1 DEF Fits
<1>5. StoresPlanned
  BY <1>1, <1>3, <1>4 DEF StoresPlanned, Clearing
<1>. QED
  BY <1>5

\* Every step that does not fail is one of these.
LEMMA RowsMove ==
  ASSUME PrintIInv, seen.fails = 0, seen'.fails = 0, [Next]_vars
  PROVE  RowMoves
<1>. USE DEF dbVars
<1>0. AllTypes /\ Fits(at, script) /\ LinesToPrint /\ at \in Places /\ seen \in Seen
      /\ script \in Seq(Statement) /\ temp \in Seq(Row) /\ s \in Memory
  BY DEF PrintIInv, ScriptFits, AllTypes
<1>. USE <1>0
<1>f. \A b \in BOOLEAN : seen' # Fail(b)
  BY FailCounted
<1>e. RowsBy(<<>>) = {} /\ <<>> \in Seq(Statement)
  BY EmptyParts DEF RowsBy
<1>c. <<Clear>> \in Seq(Statement)
  <2>1. Clear \in Statement
    BY DEF Clear, Statement
  <2>. QED
    BY <2>1
<1>1. ASSUME Execute PROVE RowMoves
  <2>1. at' = at
    BY <1>1 DEF Execute
  <2>. QED
    BY <1>1, <2>1 DEF RowMoves, Executes
<1>2. ASSUME StatementFails PROVE RowMoves
  <2>. DEFINE b == Head(script).op \in {"insert", "print", "append"}
  <2>1. b \in BOOLEAN /\ seen' = Fail(b)
    BY <1>2 DEF StatementFails
  <2>. HIDE DEF b
  <2>. QED
    BY <2>1, <1>f
<1>3. ASSUME PowerOn PROVE RowMoves
  <2>1. temp' = temp /\ at' = "info" /\ script' = DBUpdateBoardInfo(0)
    BY <1>3 DEF PowerOn, Goto
  <2>2. DBUpdateBoardInfo(0) \in Seq(Statement) /\ OfInfo(DBUpdateBoardInfo(0))
    BY InfoStatements
  <2>3. InScript' = {} /\ at' \notin Later
    BY <2>1, <2>2, <1>e, NoRows DEF InScript, Later
  <2>. QED
    BY <2>1, <2>3 DEF RowMoves, Empties
<1>4. ASSUME PowerOff PROVE RowMoves
  <2>1. temp' = temp /\ script' = <<>> /\ at' \notin Later
    BY <1>4 DEF PowerOff, Goto, Later
  <2>. QED
    BY <2>1, <1>e DEF RowMoves, Empties, InScript
<1>5. ASSUME SaveUnPlannedTestData PROVE RowMoves
  <2>. DEFINE a == AttemptForSavedTestData(FALSE)
              q(x) == DBUpdateBoardInfo(x)
  <2>1. /\ temp' = temp /\ at' \in {"attempt", "unplanned"}
        /\ script' = <<>> \/ script' = q(a) \/ script' = q(-1)
    BY <1>5 DEF SaveUnPlannedTestData, Goto
  <2>2. /\ q(a) \in Seq(Statement) /\ OfInfo(q(a))
        /\ q(-1) \in Seq(Statement) /\ OfInfo(q(-1))
    <3>1. a \in Int /\ -1 \in Int
      <4>1. FALSE \in BOOLEAN /\ -1 \in Int
        OBVIOUS
      <4>. QED
        BY <4>1, AttemptTypes, <1>e, Zenon
    <3>. HIDE DEF a
    <3>. QED
      BY <3>1, InfoStatements
  <2>. HIDE DEF q
  <2>3. InScript' = {} /\ at' \notin Later
    BY <2>1, <2>2, <1>e, NoRows DEF InScript, Later
  <2>. QED
    BY <2>1, <2>3 DEF RowMoves, Empties
<1>6. ASSUME PrintUnplanned PROVE RowMoves
  <2>1. temp' = temp /\ at' = "printed"
    BY <1>6 DEF PrintUnplanned, PrintOut, Goto
  <2>2. script' = <<>> \/ (script' \in Seq(Statement) /\ OfPrint(script'))
    BY <1>6, UnplannedPrintout
  <2>3. InScript' = {} /\ at' \notin Later
    BY <2>1, <2>2, <1>e, NoRows DEF InScript, Later
  <2>. QED
    BY <2>1, <2>3 DEF RowMoves, Empties
<1>7. ASSUME AttemptRestored PROVE RowMoves
  <2>1. /\ temp' = temp /\ script' = <<>> /\ (at' \in Later => at \in Later) /\ script = <<>>
    BY <1>7 DEF AttemptRestored, Ready, Goto, Later
  <2>. QED
    BY <2>1, <1>e DEF RowMoves, Empties, InScript, Clearing
<1>8. ASSUME GetBoardAttempt PROVE RowMoves
  <2>1. /\ temp' = temp /\ script' = <<>> /\ (at' \in Later => at \in Later) /\ script = <<>>
    BY <1>8 DEF GetBoardAttempt, Ready, Goto, Later
  <2>. QED
    BY <2>1, <1>e DEF RowMoves, Empties, InScript, Clearing
<1>9. ASSUME GetNumberOfTests PROVE RowMoves
  <2>1. /\ temp' = temp /\ script' = <<>> /\ (at' \in Later => at \in Later) /\ script = <<>>
    BY <1>9 DEF GetNumberOfTests, Ready, Goto, Later
  <2>. QED
    BY <2>1, <1>e DEF RowMoves, Empties, InScript, Clearing
<1>10. ASSUME GetPreviousTestData PROVE RowMoves
  <2>0. temp' = temp
    BY <1>10 DEF GetPreviousTestData
  <2>1. CASE s.functional
    <3>1. PICK t \in {Restored, <<>>}, d \in {Restored, <<>>} :
            script' = InsertTemporaryTestData(FALSE, s.attempt, s.sequence, t, d)
      BY <1>10, <2>1 DEF GetPreviousTestData, Goto
    <3>2. t \in Seq(Line) /\ d \in Seq(Line)
      <4>1. TestData(TRUE) \in Seq(Line) /\ <<>> \in Seq(Line)
        BY KeptRows, EmptyParts
      <4>. QED
        BY <3>1, <4>1 DEF Restored
    <3>3. s.attempt \in Int /\ s.sequence \in Int
      BY DEF Memory
    <3>4. script' # <<>> /\ script'[1].op = "clear" /\ RowsOf(script', FALSE, s.attempt, s.sequence)
      BY <3>1, <3>2, <3>3, RowsStored
    <3>5. StoresAgain
      BY <2>0, <3>4 DEF StoresAgain, Clearing, RowsOf, InScript
    <3>. QED
      BY <3>5 DEF RowMoves
  <2>2. CASE ~s.functional
    <3>1. script' = <<>> /\ at' = "burn"
      BY <1>10, <2>2 DEF GetPreviousTestData, Goto
    <3>. QED
      BY <2>0, <3>1, <1>e DEF RowMoves, Empties, InScript, Later
  <2>. QED
    BY <2>1, <2>2
<1>11. ASSUME BurninTest PROVE RowMoves
  <2>1. /\ temp' = temp /\ script' = <<>> /\ at' \notin Later
    BY <1>11, BurnInBegins DEF Later
  <2>. QED
    BY <2>1, <1>e DEF RowMoves, Empties, InScript
<1>12. ASSUME Cache PROVE RowMoves
  <2>1. /\ temp' = temp /\ script' = <<>> /\ (at' \in Later => at \in Later) /\ script = <<>>
    BY <1>12 DEF Cache, Ready, Goto, Later
  <2>. QED
    BY <2>1, <1>e DEF RowMoves, Empties, InScript, Clearing
<1>13. ASSUME StartTest PROVE RowMoves
  <2>1. /\ temp' = temp /\ script' = <<>> /\ (at' \in Later => at \in Later) /\ script = <<>>
    BY <1>13 DEF StartTest, Ready, Goto, Later
  <2>. QED
    BY <2>1, <1>e DEF RowMoves, Empties, InScript, Clearing
<1>14. ASSUME TestRestarts PROVE RowMoves
  <2>1. NoChange
    BY <1>14 DEF TestRestarts, NoChange
  <2>. QED
    BY <2>1 DEF RowMoves
<1>15. ASSUME TestEnds PROVE RowMoves
  <2>1. /\ temp' = temp
        /\ script' = InsertTemporaryTestData(FALSE, s.attempt, s.current, s.testData, s.diagData)
    BY <1>15 DEF TestEnds, Goto
  <2>2. /\ s.attempt \in Int /\ s.current \in Int
        /\ s.testData \in Seq(Line) /\ s.diagData \in Seq(Line)
    BY DEF Memory
  <2>3. script' # <<>> /\ script'[1].op = "clear" /\ RowsOf(script', FALSE, s.attempt, s.current)
    BY <2>1, <2>2, RowsStored, ZenonT(60)
  <2>4. StoresAgain
    BY <2>1, <2>3 DEF StoresAgain, Clearing, RowsOf, InScript
  <2>. QED
    BY <2>4 DEF RowMoves
<1>16. ASSUME TimeIsUp PROVE RowMoves
  <2>1. temp' = temp /\ at' = "done" /\ (script' = <<>> \/ script' = <<Clear>>)
    BY <1>16, BurnInEnds
  <2>2. InScript' = {} /\ at' \notin Later
    BY <2>1, <1>c, <1>e, NoRows DEF InScript, Later
  <2>. QED
    BY <2>1, <2>2 DEF RowMoves, Empties
<1>17. ASSUME LastTestEnded PROVE RowMoves
  <2>1. /\ temp' = temp /\ script' = <<>> /\ (at' \in Later => at \in Later) /\ script = <<>>
    BY <1>17 DEF LastTestEnded, Ready, Goto, Later
  <2>. QED
    BY <2>1, <1>e DEF RowMoves, Empties, InScript, Clearing
<1>18. ASSUME NEW repeated \in BOOLEAN, ChooseTests(repeated) PROVE RowMoves
  <2>1. /\ temp' = temp /\ script' = <<>> /\ (at' \in Later => at \in Later) /\ script = <<>>
    BY <1>18 DEF ChooseTests, Ready, Goto, Later
  <2>. QED
    BY <2>1, <1>e DEF RowMoves, Empties, InScript, Clearing
<1>19. ASSUME NEW kind \in {"test", "diag"}, TestSends(kind) PROVE RowMoves
  <2>1. NoChange
    BY <1>19 DEF TestSends, NoChange
  <2>. QED
    BY <2>1 DEF RowMoves
<1>20. ASSUME BeginPrintout PROVE RowMoves
  <2>. DEFINE q == DBUpdateBoardInfo(s.attempt)
  <2>1. temp' = temp /\ at' \in {"remove", "number"} /\ (script' = <<>> \/ script' = q)
    BY <1>20 DEF BeginPrintout, Goto
  <2>2. q \in Seq(Statement) /\ OfInfo(q)
    <3>1. s.attempt \in Int
      BY DEF Memory
    <3>. QED
      BY <3>1, InfoStatements
  <2>. HIDE DEF q
  <2>3. InScript' = {} /\ at' \notin Later
    BY <2>1, <2>2, <1>e, NoRows DEF InScript, Later
  <2>. QED
    BY <2>1, <2>3 DEF RowMoves, Empties
<1>21. ASSUME Printout PROVE RowMoves
  <2>1. temp' = temp /\ at' = "remove"
    BY <1>21 DEF Printout, PrintOut, Goto
  <2>2. script' = <<>> \/ (script' \in Seq(Statement) /\ OfPrint(script'))
    BY <1>21, TestsPrintout
  <2>3. InScript' = {} /\ at' \notin Later
    BY <2>1, <2>2, <1>e, NoRows DEF InScript, Later
  <2>. QED
    BY <2>1, <2>3 DEF RowMoves, Empties
<1>22. ASSUME RemoveData PROVE RowMoves
  <2>1. temp' = temp /\ at' = "done" /\ (script' = <<>> \/ script' = <<Clear>>)
    BY <1>22 DEF RemoveData, Goto, RemoveTemporaryTestData
  <2>2. InScript' = {} /\ at' \notin Later
    BY <2>1, <1>c, <1>e, NoRows DEF InScript, Later
  <2>. QED
    BY <2>1, <2>2 DEF RowMoves, Empties
<1>23. ASSUME ListenerKeeps PROVE RowMoves
  <2>1. NoChange
    BY <1>23 DEF ListenerKeeps, NoChange
  <2>. QED
    BY <2>1 DEF RowMoves
<1>24. ASSUME ListenerStores PROVE RowMoves
  BY <1>24, ListenerRows DEF RowMoves
<1>25. CASE UNCHANGED vars
  <2>1. NoChange
    BY <1>25 DEF vars, NoChange
  <2>. QED
    BY <2>1 DEF RowMoves
<1>. QED
  BY <1>1, <1>2, <1>3, <1>4, <1>5, <1>6, <1>7, <1>8, <1>9, <1>10, <1>11, <1>12, <1>13, <1>14,
       <1>15, <1>16, <1>17, <1>18, <1>19, <1>20, <1>21, <1>22, <1>23, <1>24, <1>25 DEF Next

-------------------------------------------------------------------------------
\* What a statement does to the rows.
LEMMA ExecuteRows ==
  ASSUME PrintIInv, Execute
  PROVE  /\ ~Clearing'
         /\ \/ temp' = <<>> /\ InScript' = InScript
            \/ ~Clearing /\ Range(temp') \cup InScript' = Range(temp) \cup InScript
<1>0. /\ script \in Seq(Statement) /\ Fits(at, script) /\ at \in Places /\ temp \in Seq(Row)
  BY DEF PrintIInv, ScriptFits, AllTypes
<1>1. /\ script[1] \in Statement /\ script' = Tail(script) /\ script # <<>>
      /\ script[1].op = "clear" => temp' = <<>>
      /\ script[1].op = "insert" => temp' = Append(temp, script[1].row)
      /\ script[1].op \in InfoOps \cup PrintOps => temp' = temp
  BY Executing
<1>2. /\ script[1].op \in {"clear", "insert"} \cup InfoOps \cup PrintOps
      /\ script[1].op = "insert" => script[1].row \in Row
  BY <1>1, StatementParts
<1>3. ~Clearing'
  <2>. SUFFICES ASSUME script' # <<>> PROVE script'[1].op # "clear"
    BY DEF Clearing
  <2>1. Tail(script) \in Seq(Statement) /\ Tail(script) # <<>>
    BY <1>0, <1>1, TailParts
  <2>2. Tail(script)[1] # Clear
    BY <1>0, <1>1, <2>1, NoLaterDeletion
  <2>3. Tail(script)[1] \in Statement
    BY <2>1, TailParts
  <2>. QED
    BY <1>1, <2>2, <2>3, StatementParts
<1>4. InScript = InScript' \cup (IF script[1].op = "insert" THEN {script[1].row} ELSE {})
  <2>. DEFINE r == Tail(script)
  <2>1. Range(script) = {script[1]} \cup Range(r)
    BY <1>0, <1>1, TailRange
  <2>2. InScript' = RowsBy(r)
    BY <1>1 DEF InScript
  <2>. HIDE DEF r
  <2>. QED
    BY <2>1, <2>2 DEF InScript, RowsBy
<1>5. CASE script[1].op = "clear"
  BY <1>1, <1>3, <1>4, <1>5
<1>6. CASE script[1].op = "insert"
  <2>1. Range(temp') = Range(temp) \cup {script[1].row}
    <3>. DEFINE row == script[1].row
    <3>1. row \in Row /\ temp' = Append(temp, row) /\ temp \in Seq(Row)
      BY <1>0, <1>1, <1>2, <1>6
    <3>. HIDE DEF row
    <3>2. Range(Append(temp, row)) = Range(temp) \cup {row}
      BY <3>1, AppendParts
    <3>. QED
      BY <3>1, <3>2 DEF row
  <2>2. ~Clearing
    BY <1>6 DEF Clearing
  <2>3. InScript = InScript' \cup {script[1].row}
    BY <1>4, <1>6
  <2>. QED
    BY <1>3, <2>1, <2>2, <2>3
<1>7. CASE script[1].op \in InfoOps \cup PrintOps
  <2>1. temp' = temp /\ ~Clearing /\ InScript' = InScript
    BY <1>1, <1>4, <1>7 DEF Clearing, InfoOps, PrintOps
  <2>. QED
    BY <1>3, <2>1
<1>. QED
  BY <1>2, <1>5, <1>6, <1>7

\* When the listener stores the lines for a restart, the tests up to the current one have
\* run.
LEMMA StoredGoesOn ==
  ASSUME PrintIInv, PlacesRight, ChainRight, CacheRight, at = "testing", seen.chain.functional,
         NEW attempt, attempt = s.attempt \/ attempt = s.attempt - 1
  PROVE  GoesOn(attempt, s.current, seen.chain)
<1>0. /\ s.attempt \in Int /\ s.sequence \in Int /\ s.sequence >= -1 /\ s.next \in Nat
      /\ s.cache \in Seq(Nat) /\ seen.chain.attempt \in Nat
  BY DEF PrintIInv, AllTypes, Memory, Seen, Chain
<1>1. s.functional /\ s.current = s.next - 1
  BY DEF PlacesRight, Functional
<1>2. /\ s.attempt <= seen.chain.attempt
      /\ s.attempt = seen.chain.attempt => RanUpTo(seen.chain, s.sequence)
  BY DEF ChainRight, BeforeChoice, GoesOn
<1>3. /\ \A n \in Nat : s.sequence < n /\ HasTest(s.attempt, n) => \E j \in DOMAIN s.cache : s.cache[j] = n
      /\ \A j \in DOMAIN s.cache : s.sequence + j <= s.cache[j]
      /\ \A j \in 1..s.next : s.cache[j] \in seen.chain.ran
  BY <1>1 DEF CacheRight, Cached
<1>4. attempt <= seen.chain.attempt
  BY <1>0, <1>2
<1>5. ASSUME attempt = seen.chain.attempt PROVE RanUpTo(seen.chain, s.current)
  <2>1. s.attempt = seen.chain.attempt
    BY <1>0, <1>2, <1>5
  <2>. SUFFICES ASSUME NEW n \in 0..s.current, HasTest(s.attempt, n) PROVE n \in seen.chain.ran
    BY <2>1 DEF RanUpTo
  <2>2. n \in Nat /\ n <= s.next - 1
    BY <1>0, <1>1
  <2>3. CASE n <= s.sequence
    <3>1. n \in 0..s.sequence
      BY <1>0, <2>2, <2>3
    <3>. QED
      BY <1>2, <2>1, <3>1 DEF RanUpTo
  <2>4. CASE s.sequence < n
    <3>1. PICK j \in DOMAIN s.cache : s.cache[j] = n
      BY <1>3, <2>2, <2>4
    <3>2. s.sequence + j <= n
      BY <1>3, <3>1
    <3>3. j \in Nat /\ j >= 1
      BY <1>0, <3>1
    <3>4. j \in 1..s.next
      BY <1>0, <2>2, <3>2, <3>3
    <3>. QED
      BY <1>3, <3>1, <3>4
  <2>. QED
    BY <1>0, <2>2, <2>3, <2>4
<1>. QED
  BY <1>4, <1>5 DEF GoesOn

\* The rows for a restart are those of sessions that have run all tests up to theirs.
LEMMA RowsRightKept ==
  ASSUME PrintIInv, seen.fails = 0, seen'.fails = 0, Unskipped, [Next]_vars
  PROVE  RowsRight'
<1>0. /\ PlacesRight /\ RowsRight /\ ChainRight /\ CacheRight
      /\ seen \in Seen /\ temp \in Seq(Row) /\ RowMoves /\ Moves
  BY RowsMove, SessionMoves DEF Unskipped, PrintIInv, AllTypes
<1>1. CASE ListenerStores
  <2>1. /\ temp' = temp /\ Clearing' /\ RowsOf(script', TRUE, s.attempt, s.current)
        /\ at' = "waiting" /\ ~Clearing
    BY <1>1, ListenerRows DEF StoresPlanned
  <2>2. seen'.saved = seen.chain /\ at \in {"testing", "burning"}
    BY <1>0, <1>1 DEF ListenerStores, Seen
  <2>3. \A r \in InScript' : /\ r.planned = TRUE /\ r.sequence = s.current
                             /\ r.attempt = s.attempt \/ r.attempt = s.attempt - 1
    BY <2>1 DEF RowsOf, InScript
  <2>4. ASSUME seen.chain.functional, NEW r \in Range(temp) \cup InScript', r.planned
        PROVE  GoesOn(r.attempt, r.sequence, seen.chain)
    <3>1. at = "testing"
      BY <1>0, <2>2, <2>4 DEF PlacesRight
    <3>2. r \notin Range(temp)
      BY <1>0, <2>1, <2>4, <3>1 DEF RowsRight
    <3>3. r.sequence = s.current /\ (r.attempt = s.attempt \/ r.attempt = s.attempt - 1)
      BY <2>3, <2>4, <3>2
    <3>. QED
      BY <1>0, <2>4, <3>1, <3>3, StoredGoesOn
  <2>. QED
    BY <1>0, <2>1, <2>2, <2>3, <2>4 DEF RowsRight
<1>2. CASE ~ListenerStores
  <2>1. seen'.saved = seen.saved
    BY <1>0, <1>2 DEF Moves, Staying, Power, Before, Choosing, Counting, Restoring, Burning, Caching,
                      Answering, Starting, Ending, Storing, SameSession, SameChains
  <2>2. CASE Executes
    <3>1. /\ ~Clearing' /\ at' = at
          /\ \/ temp' = <<>> /\ InScript' = InScript
             \/ ~Clearing /\ Range(temp') \cup InScript' = Range(temp) \cup InScript
      BY <2>2, ExecuteRows DEF Executes
    <3>2. CASE temp' = <<>> /\ InScript' = InScript
      <4>1. Range(temp') = {}
        BY <3>2, EmptyParts
      <4>. QED
        BY <1>0, <2>1, <3>1, <3>2, <4>1 DEF RowsRight
    <3>3. CASE ~Clearing /\ Range(temp') \cup InScript' = Range(temp) \cup InScript
      <4>. DEFINE All == Range(temp) \cup InScript
      <4>1. \A p, r \in All : p.planned = r.planned
        BY <1>0, <3>3 DEF RowsRight
      <4>2. Range(temp') \cup InScript' = All
        BY <3>3
      <4>3. seen.saved.functional => \A r \in All : r.planned => GoesOn(r.attempt, r.sequence, seen.saved)
        BY <1>0 DEF RowsRight
      <4>4. at' \in {"stored", "choose", "run", "testing"} => \A r \in All : ~r.planned
        BY <1>0, <3>1, <3>3 DEF RowsRight
      <4>. HIDE DEF All
      <4>. QED
        BY <2>1, <4>1, <4>2, <4>3, <4>4 DEF RowsRight
    <3>. QED
      BY <3>1, <3>2, <3>3
  <2>3. CASE NoChange
    BY <1>0, <2>1, <2>3 DEF NoChange, RowsRight, InScript, Clearing
  <2>4. CASE Empties
    <3>1. /\ temp' = temp /\ InScript' = {}
          /\ at' \in {"stored", "choose", "run", "testing"} =>
               at \in {"stored", "choose", "run", "testing"} /\ ~Clearing
      BY <2>4 DEF Empties, Later
    <3>. QED
      BY <1>0, <2>1, <3>1 DEF RowsRight
  <2>5. CASE StoresAgain
    <3>1. temp' = temp /\ Clearing' /\ \A r \in InScript' : ~r.planned
      BY <2>5 DEF StoresAgain
    <3>2. \A r \in InScript' : r.planned \in BOOLEAN
      <4>1. script' \in Seq(Statement)
        BY ScriptTyped DEF PrintIInv, ScriptFits
      <4>2. \A x \in Range(script') : x.op = "insert" => x.row \in Row
        <5>. DEFINE q == script'
        <5>1. \A x \in Range(q) : x \in Statement
          <6>1. q \in Seq(Statement)
            BY <4>1
          <6>. HIDE DEF q
          <6>. QED
            BY <6>1 DEF Range
        <5>. QED
          BY <5>1, StatementParts
      <4>3. \A r \in InScript' : r \in Row
        BY <4>2 DEF InScript, RowsBy
      <4>. QED
        BY <4>3 DEF Row
    <3>3. \A p, r \in InScript' : p.planned = r.planned
      BY <3>1, <3>2
    <3>. QED
      BY <1>0, <2>1, <3>1, <3>3 DEF RowsRight
  <2>6. CASE StoresPlanned
    BY <1>2, <2>6 DEF StoresPlanned
  <2>. QED
    BY <1>0, <2>2, <2>3, <2>4, <2>5, <2>6 DEF RowMoves
<1>. QED
  BY <1>1, <1>2

\* Every step keeps the invariant: failures are not taken back, so none came before a step
\* after which there is none.
LEMMA SkippedStep ==
  ASSUME PrintIInv, SkippedIInv, [Next]_vars
  PROVE  SkippedIInv'
<1>. SUFFICES ASSUME seen'.fails = 0 PROVE Unskipped'
  BY DEF SkippedIInv
<1>1. seen.fails = 0
  <2>1. seen.fails \in Nat /\ seen.fails <= seen'.fails
    BY CountsGo DEF CountsKept, PrintIInv, AllTypes, Seen
  <2>. QED
    BY <2>1
<1>2. Unskipped /\ PlacesRight /\ RowsRight /\ ChainRight /\ CacheRight
  BY <1>1 DEF SkippedIInv, Unskipped
<1>. QED
  BY <1>1, <1>2, PlacesRightKept, RowsRightKept, ChainRightKept, CacheRightKept DEF Unskipped

\* It holds at first.
LEMMA SkippedInit == Init => SkippedIInv
<1>. SUFFICES ASSUME Init PROVE Unskipped
  BY DEF SkippedIInv
<1>1. /\ at = "off" /\ s = Fresh /\ script = <<>> /\ temp = <<>>
  BY DEF Init, DatabaseInit
<1>2. Range(temp) = {} /\ InScript = {}
  BY <1>1, EmptyParts DEF InScript, RowsBy
<1>3. PlacesRight
  BY <1>1 DEF PlacesRight, Finished, Functional, Fresh
<1>4. RowsRight
  BY <1>1, <1>2 DEF RowsRight
<1>5. ChainRight /\ CacheRight
  BY <1>1 DEF ChainRight, CacheRight, BeforeChoice, Cached
<1>. QED
  BY <1>3, <1>4, <1>5 DEF Unskipped

\* It implies that no test is left out.
LEMMA SkippedImplies ==
  ASSUME PrintIInv, SkippedIInv
  PROVE  NoTestSkipped
<1>. SUFFICES ASSUME at = "done", s.functional, seen.fails = 0, s.attempt = seen.chain.attempt,
                     seen.chain.functional,
                     NEW n \in 0..NumberOfTests(s.attempt) - 1, HasTest(s.attempt, n)
              PROVE  n \in seen.chain.ran
  BY DEF NoTestSkipped
<1>0. /\ PlacesRight /\ ChainRight /\ CacheRight /\ s.sequence \in Int /\ s.cache \in Seq(Nat)
      /\ n \in Nat
  <2>1. NumberOfTests(s.attempt) \in Nat
    BY TestsType
  <2>. QED
    BY <2>1 DEF SkippedIInv, Unskipped, PrintIInv, AllTypes, Memory
<1>1. CASE n <= s.sequence
  <2>1. n \in 0..s.sequence
    BY <1>0, <1>1
  <2>2. RanUpTo(seen.chain, s.sequence)
    BY <1>0 DEF ChainRight, BeforeChoice, GoesOn
  <2>. QED
    BY <2>1, <2>2 DEF RanUpTo
<1>2. CASE s.sequence < n
  <2>1. PICK j \in DOMAIN s.cache : s.cache[j] = n
    BY <1>0, <1>2 DEF CacheRight, Cached
  <2>2. j \in 1..s.next
    BY <1>0, <2>1 DEF PlacesRight, Finished
  <2>. QED
    BY <1>0, <2>1, <2>2 DEF CacheRight, Cached
<1>. QED
  BY <1>0, <1>1, <1>2

\* A functional session of the attempt its chain of restarts began with ends with no test of
\* that attempt left out, when no statement or query failed.
THEOREM NoTestLeftOut == Spec => []NoTestSkipped
<1>1. Init /\ PrintIInv => SkippedIInv
  BY SkippedInit
<1>2. PrintIInv /\ SkippedIInv /\ [Next]_vars => SkippedIInv'
  BY SkippedStep
<1>3. PrintIInv /\ SkippedIInv => NoTestSkipped
  BY SkippedImplies
<1>. QED
  BY <1>1, <1>2, <1>3, PrintInvariant, PTL DEF Spec

===============================================================================
