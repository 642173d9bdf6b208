-------------------------- MODULE TaskResultProofs --------------------------
(***************************************************************************)
(* Proofs about the result the agent and the adapter compute of a packet:  *)
(* whatever its events, decisions and lines, the room's contract takes it. *)
(***************************************************************************)
EXTENDS TaskAdmissionProofs, FiniteSetTheorems

-----------------------------------------------------------------------------
(* Induction.  The theorems that take a predicate as a parameter are out   *)
(* of the provers' reach; that finite sets are well founded under          *)
(* inclusion is a fact about sets, and gives the least number of a set.    *)

LEMMA LeastOf ==
  ASSUME NEW N \in Nat, NEW T \in SUBSET (0..N), T # {}
  PROVE  \E m \in T : \A k \in T : m <= k
<1> DEFINE R == StrictSubsetOrdering(0..N)
           S == FiniteSubsetsOf(0..N)
           Below == {0..k : k \in T}
<1>1. \A k \in T : 0..k \in S
  <2> SUFFICES ASSUME NEW k \in T PROVE 0..k \in S
    OBVIOUS
  <2>1. 0..k \in SUBSET (0..N)
    OBVIOUS
  <2>2. IsFiniteSet(0..k)
    BY FS_Interval
  <2> QED
    BY <2>1, <2>2 DEF FiniteSubsetsOf
<1>2. Below \subseteq S /\ Below # {}
  BY <1>1
<1>3. IsWellFoundedOn(R, S)
  BY FS_StrictSubsetOrderingWellFounded
<1>4. \E x \in Below : \A y \in Below : <<y, x>> \notin R
  <2> HIDE DEF R, S, Below
  <2> QED
    BY <1>2, <1>3, WFMin
<1>5. PICK m \in T : \A k \in T : <<0..k, 0..m>> \notin R
  BY <1>4
<1>6. ASSUME NEW k \in T, k < m PROVE FALSE
  <2>1. /\ 0..k \in SUBSET (0..N) /\ 0..m \in SUBSET (0..N)
        /\ 0..k \subseteq 0..m /\ 0..k # 0..m
    <3>1. m \in 0..m /\ m \notin 0..k
      BY <1>6
    <3> QED
      BY <1>6, <3>1
  <2>2. <<0..k, 0..m>> \in R
    BY <2>1 DEF StrictSubsetOrdering
  <2> QED
    BY <1>5, <2>2
<1> QED
  BY <1>5, <1>6

-----------------------------------------------------------------------------
(* The width of the titles *)

\* What the recursive function of Width says of the first n titles.
Counts(titles, n, g) ==
    /\ g \in [0..n -> Nat] /\ g[0] = 0
    /\ \A i \in 1..n : g[i] = g[i - 1] + titles[i] + 2

\* There is such a function, however many titles there are.
LEMMA CountsExist ==
  ASSUME NEW titles \in Seq(Nat)
  PROVE  \E g : Counts(titles, Len(titles), g)
<1> DEFINE L == Len(titles)
           Bad == {n \in 0..L : ~ \E g : Counts(titles, n, g)}
<1>1. L \in Nat /\ \A i \in 1..L : titles[i] \in Nat
  OBVIOUS
<1>2. SUFFICES ASSUME Bad # {} PROVE FALSE
  BY <1>1
<1>3. PICK n \in Bad : \A k \in Bad : n <= k
  <2> HIDE DEF L
  <2> QED
    BY <1>1, <1>2, LeastOf
<1>4. n # 0
  <2>1. Counts(titles, 0, [i \in 0..0 |-> 0])
    BY DEF Counts
  <2> QED
    BY <2>1
<1>5. n \in 1..L /\ n - 1 \in 0..L /\ n - 1 \notin Bad
  BY <1>1, <1>3, <1>4
<1>6. PICK g : Counts(titles, n - 1, g)
  BY <1>5
<1> DEFINE h == [i \in 0..n |-> IF i = n THEN g[n - 1] + titles[n] + 2 ELSE g[i]]
<1>7. n - 1 \in 0..(n - 1) /\ g[n - 1] \in Nat /\ titles[n] \in Nat
  BY <1>1, <1>5, <1>6 DEF Counts
<1>8. \A i \in 0..n : i = n \/ i \in 0..(n - 1)
  BY <1>5
<1>9. \A i \in 0..(n - 1) : g[i] \in Nat
  BY <1>6 DEF Counts
<1>10. h \in [0..n -> Nat] /\ h[0] = 0
  <2>1. \A i \in 0..n : (IF i = n THEN g[n - 1] + titles[n] + 2 ELSE g[i]) \in Nat
    BY <1>7, <1>8, <1>9
  <2> QED
    BY <1>5, <1>6, <2>1 DEF Counts
<1>11. \A i \in 1..n : h[i] = h[i - 1] + titles[i] + 2
  <2> SUFFICES ASSUME NEW i \in 1..n PROVE h[i] = h[i - 1] + titles[i] + 2
    OBVIOUS
  <2>1. i \in 0..n /\ i - 1 \in 0..n /\ i - 1 # n
    BY <1>5
  <2>2. h[i - 1] = g[i - 1]
    BY <2>1
  <2>3. CASE i = n
    BY <2>1, <2>2, <2>3
  <2>4. CASE i # n
    <3>1. i \in 1..(n - 1)
      BY <1>5, <2>4
    <3> QED
      BY <1>6, <2>1, <2>2, <2>4, <3>1 DEF Counts
  <2> QED
    BY <2>3, <2>4
<1>12. Counts(titles, n, h)
  BY <1>10, <1>11 DEF Counts
<1> QED
  BY <1>12

\* The width is a number: the recursion is well founded.
LEMMA WidthIsNat ==
  ASSUME NEW titles \in Seq(Nat)
  PROVE  Width(titles) \in Nat
<1> DEFINE L == Len(titles)
           Step(f) == [i \in 0..L |-> IF i = 0 THEN 0 ELSE f[i - 1] + titles[i] + 2]
           upTo == CHOOSE f : f = Step(f)
           Bad == {n \in 0..L : upTo[n] \notin Nat}
<1>1. Width(titles) = upTo[L]
  BY DEF Width
<1>2. L \in Nat /\ \A i \in 1..L : titles[i] \in Nat
  OBVIOUS
<1>3. PICK g : Counts(titles, L, g)
  BY CountsExist
<1>4. g = Step(g)
  <2>1. \A i \in 0..L : g[i] = IF i = 0 THEN 0 ELSE g[i - 1] + titles[i] + 2
    BY <1>2, <1>3 DEF Counts
  <2>2. g = [i \in 0..L |-> g[i]]
    BY <1>3 DEF Counts
  <2> QED
    BY <2>1, <2>2
<1>5. upTo = Step(upTo)
  <2> HIDE DEF Step
  <2> QED
    BY <1>4
<1> HIDE DEF upTo
<1>6. \A i \in 0..L : upTo[i] = IF i = 0 THEN 0 ELSE upTo[i - 1] + titles[i] + 2
  BY <1>5
<1>7. ASSUME Bad # {} PROVE FALSE
  <2>1. PICK n \in Bad : \A k \in Bad : n <= k
    <3> HIDE DEF L
    <3> QED
      BY <1>2, <1>7, LeastOf
  <2>2. n # 0
    BY <1>2, <1>6
  <2>3. n - 1 \in 0..L /\ n - 1 \notin Bad
    BY <1>2, <2>1, <2>2
  <2>4. upTo[n] = upTo[n - 1] + titles[n] + 2
    BY <1>6, <2>2
  <2> QED
    BY <1>2, <2>2, <2>3, <2>4
<1>8. upTo[L] \in Nat
  BY <1>2, <1>7
<1> QED
  BY <1>1, <1>8

-----------------------------------------------------------------------------
(* Parts of a result *)

\* No more than n of a sequence are taken, and they are its first.
LEMMA TakesFirst ==
  ASSUME NEW S, NEW s \in Seq(S), NEW n \in Nat
  PROVE  /\ FirstN(s, n) \in Seq(S)
         /\ Len(FirstN(s, n)) <= n /\ Len(FirstN(s, n)) <= Len(s)
         /\ \A i \in 1..Len(FirstN(s, n)) : FirstN(s, n)[i] = s[i]
<1> DEFINE k == IF Len(s) < n THEN Len(s) ELSE n
<1>1. k \in 0..Len(s) /\ k <= n /\ FirstN(s, n) = SubSeq(s, 1, k)
  BY LenProperties DEF FirstN
<1>2. \A i \in 1..k : s[i] \in S
  BY <1>1
<1>3. /\ SubSeq(s, 1, k) \in Seq(S) /\ Len(SubSeq(s, 1, k)) = k
      /\ \A i \in 1..k : SubSeq(s, 1, k)[i] = s[i]
  <2> HIDE DEF k
  <2> QED
    BY <1>1, <1>2, SubSeqProperties
<1> QED
  BY <1>1, <1>3

\* Of the action items no more than twenty are taken.
LEMMA ItemsFit ==
  ASSUME NEW p \in Packets
  PROVE  ActionItems(p).items <= 20
<1>1. DOMAIN p.input = 1..Len(p.input) /\ Len(p.input) \in Nat
  BY PacketsAreTyped DEF IsSequence
<1>2. IsFiniteSet(DOMAIN p.input) /\ ItemLines(p) \subseteq DOMAIN p.input
  <2>1. 1 \in Int /\ Len(p.input) \in Int
    BY <1>1
  <2> QED
    BY <1>1, <2>1, FS_Interval DEF ItemLines
<1>3. Cardinality(ItemLines(p)) \in Nat
  BY <1>2, FS_Subset, FS_CardinalityType
<1> DEFINE n == Cardinality(ItemLines(p))
<1>4. ActionItems(p).items = IF n < 20 THEN n ELSE 20
  BY DEF ActionItems
<1> QED
  BY <1>3, <1>4

\* Titles that are shown fit in the summary with the wording around them.
LEMMA TitlesFit ==
  ASSUME NEW p \in Packets
  PROVE  SummaryWidth(Titles(p)) <= 8000
<1>1. p.decisions \in Seq(Nat)
  BY PacketsAreTyped
<1>2. Width(p.decisions) \in Nat
  BY <1>1, WidthIsNat
<1>3. CASE Len(p.decisions) > 20 \/ Width(p.decisions) > 7000
  BY <1>3 DEF Titles, SummaryWidth, Frame
<1>4. CASE ~ (Len(p.decisions) > 20 \/ Width(p.decisions) > 7000)
  <2>1. Titles(p) = [omitted |-> FALSE, shown |-> p.decisions]
    BY <1>4 DEF Titles
  <2>2. SummaryWidth(Titles(p)) = 130 + Width(p.decisions)
    BY <2>1 DEF SummaryWidth, Frame
  <2> QED
    BY <1>2, <1>4, <2>2
<1> QED
  BY <1>3, <1>4

\* As many ids as events: in whatever spelling, no id is there twice.
LEMMA IdsDiffer ==
  ASSUME NEW p \in Packets, NEW time, Verified(p, time),
         NEW i \in 1..Len(p.events), NEW j \in 1..Len(p.events),
         p.events[i].id = p.events[j].id
  PROVE  i = j
<1> DEFINE L == Len(p.events)
           ids == {Uuid(p.events[k].id) : k \in 1..L}
           f == [k \in 1..L |-> Uuid(p.events[k].id)]
<1>1. L \in Nat /\ DOMAIN p.events = 1..L
  BY PacketsAreTyped DEF IsSequence
<1>2. Cardinality(ids) = L
  BY <1>1 DEF Verified
<1>3. IsFiniteSet(1..L) /\ Cardinality(1..L) = L
  <2> HIDE DEF L
  <2>1. 1 \in Int /\ L \in Int /\ 1..0 = {}
    BY <1>1
  <2>2. Cardinality(1..L) = IF 1 > L THEN 0 ELSE L - 1 + 1
    BY <2>1, FS_Interval
  <2> QED
    BY <1>1, <2>1, <2>2, FS_Interval
<1>4. f \in Surjection(1..L, ids)
  BY DEF Surjection
<1>5. f \in Injection(1..L, ids)
  <2> HIDE DEF f, ids, L
  <2> QED
    BY <1>2, <1>3, <1>4, FS_Surjection
<1>6. f[i] = f[j]
  OBVIOUS
<1> QED
  BY <1>5, <1>6 DEF Injection, IsInjective

\* The result of a verified packet is one that the room's contract takes.
LEMMA ResultFits ==
  ASSUME NEW p \in Packets, NEW time, Verified(p, time)
  PROVE  WithinContract(ExpectedResult(p))
<1>1. CASE p.skill = "summarize-context"
  <2> DEFINE r == Summary(p)
             ids == [i \in DOMAIN p.events |-> p.events[i].id]
             S == {p.events[i].id : i \in DOMAIN p.events}
  <2>1. /\ r.kind = "context-summary.v1" /\ r.titles = Titles(p)
        /\ r.citations = FirstN(ids, 100)
    BY DEF Summary
  <2>2. DOMAIN p.events = 1..Len(p.events) /\ Len(p.events) \in Nat
    BY PacketsAreTyped DEF IsSequence
  <2>3. ids \in Seq(S) /\ Len(ids) = Len(p.events)
    BY <2>2
  <2> HIDE DEF r
  <2>4. \A i \in 1..Len(p.events) : ids[i] = p.events[i].id
    BY <2>2
  <2> HIDE DEF ids, S
  <2>5. /\ r.citations \in Seq(S)
        /\ Len(r.citations) <= 100 /\ Len(r.citations) <= Len(p.events)
        /\ \A i \in 1..Len(r.citations) : r.citations[i] = ids[i]
    BY <2>1, <2>3, TakesFirst
  <2>6. /\ DOMAIN r.citations = 1..Len(r.citations)
        /\ \A i \in 1..Len(r.citations) : i \in 1..Len(p.events)
    BY <2>2, <2>5
  <2>7. \A i, j \in DOMAIN r.citations : r.citations[i] = r.citations[j] => i = j
    BY <2>4, <2>5, <2>6, IdsDiffer
  <2>8. WithinContract(r)
    BY <2>1, <2>5, <2>7, TitlesFit DEF WithinContract
  <2> QED
    BY <1>1, <2>8 DEF ExpectedResult, r
<1>2. CASE p.skill # "summarize-context"
  <2> DEFINE r == ActionItems(p)
  <2>1. /\ r.kind = "action-items.v1"
        /\ r.citations = <<Invocation(p).id>>
    BY DEF ActionItems
  <2>2. DOMAIN r.citations = 1..1 /\ Len(r.citations) = 1
    BY <2>1
  <2>3. WithinContract(r)
    <3> HIDE DEF r
    <3>1. r.items <= 20
      BY ItemsFit DEF r
    <3> QED
      BY <2>1, <2>2, <3>1 DEF WithinContract
  <2> QED
    BY <1>2, <2>3 DEF ExpectedResult
<1> QED
  BY <1>1, <1>2

-----------------------------------------------------------------------------
(* What has been admitted *)

\* The adapter has verified the packet again before it took the last event.
Complete ==
    Len(admitted) = 4 =>
        \E p \in Packets, time \in 0..MaxTime : p = packet /\ Verified(p, time)

LEMMA CompleteStep == IInv /\ Complete /\ [Next]_vars => Complete'
<1> SUFFICES ASSUME IInv, Complete, [Next]_vars PROVE Complete'
  OBVIOUS
<1>1. CASE Receive
  <2>1. UNCHANGED packet
    BY <1>1 DEF Receive
  <2>2. CASE UNCHANGED admitted
    BY <2>1, <2>2 DEF Complete
  <2>3. ASSUME NEW i \in DOMAIN stream,
               ValidEvent(packet, stream[i], Len(admitted), now),
               admitted' = Append(admitted, stream[i]), Len(admitted') = 4
        PROVE  \E p \in Packets, time \in 0..MaxTime :
                 p = packet /\ Verified(p, time)
    <3>1. Len(admitted) = 3
      <4>1. admitted \in Seq(Events) /\ Len(admitted) \in Nat
        BY DEF IInv, InTurn
      <4>2. Len(Append(admitted, stream[i])) = Len(admitted) + 1
        BY <4>1
      <4>3. Len(Append(admitted, stream[i])) = 4
        BY <2>3, Zenon
      <4> DEFINE n == Len(admitted)
      <4>4. n \in Nat /\ n + 1 = 4
        BY <4>1, <4>2, <4>3
      <4> HIDE DEF n
      <4>5. n = 3
        BY <4>4
      <4> QED
        BY <4>5 DEF n
    <3>2. CompletedEvent(packet, stream[i], now)
      BY <2>3, <3>1 DEF ValidEvent
    <3>3. Verified(packet, now)
      BY <3>2 DEF CompletedEvent, ValidResult
    <3> QED
      BY <3>3 DEF IInv
  <2> QED
    BY <1>1, <2>1, <2>2, <2>3 DEF Receive, Complete
<1>2. CASE UNCHANGED <<packet, admitted>>
  BY <1>2 DEF Complete
<1> QED
  BY <1>1, <1>2 DEF Next, Invoke, EndOfStream, Tick, vars

\* For any packets, whatever the number of events, decisions and lines: a
\* result that is admitted is one that the room's contract takes.
THEOREM ResultTaken == Spec => []ResultWithinContract
<1>1. Init => Complete
  BY DEF Init, Complete
<1>2. IInv /\ Complete => ResultWithinContract
  <2> SUFFICES ASSUME IInv, Complete, Len(admitted) = 4
               PROVE  WithinContract(admitted[4].artifact.result)
    BY DEF ResultWithinContract
  <2>1. packet \in Packets /\ admitted[4] = StreamOf(packet)[4]
    BY DEF IInv, InTurn
  <2>2. admitted[4].artifact.result = ExpectedResult(packet)
    <3>1. Artifact(packet).result = ExpectedResult(packet)
      BY DEF Artifact
    <3>2. admitted[4].artifact = Artifact(packet)
      BY <2>1, EventFields, Zenon
    <3> QED
      BY <3>1, <3>2
  <2>3. PICK time \in 0..MaxTime : Verified(packet, time)
    BY DEF Complete
  <2> QED
    BY <2>1, <2>2, <2>3, ResultFits
<1> QED
  BY <1>1, <1>2, CompleteStep, Invariance, PTL DEF Spec
=============================================================================
