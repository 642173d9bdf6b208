------------------------- MODULE TaskAdmissionProofs -------------------------
(***************************************************************************)
(* Proofs about the admission of an agent's answers, for any packets.      *)
(***************************************************************************)
EXTENDS TaskAdmission, SequenceTheorems, TLAPS

Events == {StreamOf(q)[j] : q \in Packets, j \in 1..4}

\* What was admitted is, event by event, the stream of the packet.
InTurn ==
    /\ admitted \in Seq(Events)
    /\ Len(admitted) <= 4
    /\ \A i \in 1..Len(admitted) : admitted[i] = StreamOf(packet)[i]

\* An answer was taken from the stream at hand.
FromStream ==
    /\ stream = <<>> \/ \E q \in Packets : stream = StreamOf(q)
    /\ \A i \in 1..Len(admitted) : \E j \in DOMAIN stream : admitted[i] = stream[j]

IInv ==
    /\ now \in 0..MaxTime
    /\ packet \in Packets
    /\ outcome \in {"idle", "running", "ok", "error"}
    /\ outcome = "idle" => admitted = <<>>
    /\ InTurn /\ FromStream

-----------------------------------------------------------------------------

\* The four events of a stream.
LEMMA StreamEvents ==
  ASSUME NEW q
  PROVE  /\ DOMAIN StreamOf(q) = 1..4
         /\ StreamOf(q)[1] = TaskEvent(q, "submitted", None)
         /\ StreamOf(q)[2] = WorkingUpdate(q, "reading")
         /\ StreamOf(q)[3] = WorkingUpdate(q, "preparing")
         /\ StreamOf(q)[4] = TaskEvent(q, "completed", Artifact(q))
BY DEF StreamOf

\* What their fields say.
LEMMA EventFields ==
  ASSUME NEW q
  PROVE  /\ \A j \in 1..4 : OfPacket(q, StreamOf(q)[j])
         /\ \A j \in 1..4 : StreamOf(q)[j].task = q.task
         /\ \A j \in 1..4 : StreamOf(q)[j].context = Context(q)
         /\ StreamOf(q)[1].type = "task"
         /\ StreamOf(q)[1].state = "submitted"
         /\ StreamOf(q)[1].text = None
         /\ StreamOf(q)[1].artifact = None
         /\ \A j \in {2, 3} : StreamOf(q)[j].type = "status"
         /\ \A j \in {2, 3} : StreamOf(q)[j].state = "working"
         /\ StreamOf(q)[2].text = "reading"
         /\ StreamOf(q)[3].text = "preparing"
         /\ StreamOf(q)[4].type = "task"
         /\ StreamOf(q)[4].state = "completed"
         /\ StreamOf(q)[4].text = None
         /\ StreamOf(q)[4].artifact = Artifact(q)
<1>1. \A x, y : /\ TaskEvent(q, x, y).task = q.task
                /\ TaskEvent(q, x, y).context = Context(q)
                /\ TaskEvent(q, x, y).type = "task"
                /\ TaskEvent(q, x, y).state = x
                /\ TaskEvent(q, x, y).text = None
                /\ TaskEvent(q, x, y).artifact = y
  BY DEF TaskEvent
<1>2. \A x : /\ WorkingUpdate(q, x).task = q.task
             /\ WorkingUpdate(q, x).context = Context(q)
             /\ WorkingUpdate(q, x).type = "status"
             /\ WorkingUpdate(q, x).state = "working"
             /\ WorkingUpdate(q, x).text = x
  BY DEF WorkingUpdate
<1>3. \A j \in 1..4 : StreamOf(q)[j].task = q.task /\ StreamOf(q)[j].context = Context(q)
  <2>1. \A j \in 1..4 : j \in {1, 2, 3, 4}
    OBVIOUS
  <2> QED
    BY <1>1, <1>2, <2>1, StreamEvents
<1>4. \A j \in {2, 3} : StreamOf(q)[j].type = "status" /\ StreamOf(q)[j].state = "working"
  BY <1>2, StreamEvents
<1>5. /\ StreamOf(q)[2].text = "reading"
      /\ StreamOf(q)[3].text = "preparing"
  BY <1>2, StreamEvents
<1>6. /\ StreamOf(q)[1].type = "task"
      /\ StreamOf(q)[1].state = "submitted"
      /\ StreamOf(q)[1].text = None
      /\ StreamOf(q)[1].artifact = None
  BY <1>1, StreamEvents
<1>7. /\ StreamOf(q)[4].type = "task"
      /\ StreamOf(q)[4].state = "completed"
      /\ StreamOf(q)[4].text = None
      /\ StreamOf(q)[4].artifact = Artifact(q)
  BY <1>1, StreamEvents
<1> QED
  BY <1>3, <1>4, <1>5, <1>6, <1>7 DEF OfPacket

\* An answer for any packet that is admitted in its turn is the answer of the
\* packet that was invoked.
LEMMA OnlyOwnEvent ==
  ASSUME NEW p, NEW q, NEW j \in 1..4, NEW n \in Nat, NEW time,
         ValidEvent(p, StreamOf(q)[j], n, time)
  PROVE  n \in 0..3 /\ StreamOf(q)[j] = StreamOf(p)[n + 1]
<1> DEFINE e == StreamOf(q)[j]
<1>1. j \in {1, 2, 3, 4}
  OBVIOUS
<1>2. CASE n = 0 /\ SubmittedEvent(p, e)
  <2>1. j = 1
    BY <1>1, <1>2, StreamEvents, EventFields DEF SubmittedEvent
  <2>2. q.task = p.task /\ Context(q) = Context(p)
    BY <1>2, <2>1, StreamEvents, EventFields DEF SubmittedEvent, OfPacket
  <2>3. TaskEvent(q, "submitted", None) = TaskEvent(p, "submitted", None)
    BY <2>2 DEF TaskEvent
  <2> QED
    BY <1>2, <2>1, <2>3, StreamEvents
<1>3. CASE n \in {1, 2} /\ WorkingEvent(p, e, n)
  <2>1. j \in {2, 3} /\ e.text = WorkingText(n)
    BY <1>1, <1>3, StreamEvents, EventFields DEF WorkingEvent
  <2>2. j = n + 1
    BY <1>3, <2>1, StreamEvents, EventFields DEF WorkingText
  <2>3. q.task = p.task /\ Context(q) = Context(p)
    BY <1>3, <2>1, StreamEvents, EventFields DEF WorkingEvent, OfPacket
  <2>4. \A x : WorkingUpdate(q, x) = WorkingUpdate(p, x)
    BY <2>3 DEF WorkingUpdate
  <2> QED
    BY <1>3, <2>2, <2>4, StreamEvents
<1>4. CASE n = 3 /\ CompletedEvent(p, e, time)
  <2>1. j = 4
    BY <1>1, <1>4, StreamEvents, EventFields DEF CompletedEvent
  <2>2. /\ q.task = p.task /\ Context(q) = Context(p)
        /\ e.artifact = Artifact(q)
    BY <1>4, <2>1, StreamEvents, EventFields DEF CompletedEvent, OfPacket
  <2>3. BoundTo(p, Binding(q)) /\ ExpectedResult(q) = ExpectedResult(p)
    BY <1>4, <2>2 DEF CompletedEvent, ValidResult, Artifact
  <2>4. Binding(q) = Binding(p)
    <3>1. /\ q.task = p.task /\ q.room = p.room /\ q.hash = p.hash
          /\ Carried(q.rev) <= SafeRevision /\ Carried(q.rev) = p.rev
      BY <2>3 DEF BoundTo, Binding, ReadAs
    <3>2. q.rev = p.rev
      BY <3>1, SafeRevisionIsNat DEF Carried
    <3> QED
      BY <3>1, <3>2 DEF Binding
  <2>5. Artifact(q) = Artifact(p)
    BY <2>3, <2>4 DEF Artifact
  <2>6. TaskEvent(q, "completed", Artifact(q)) = TaskEvent(p, "completed", Artifact(p))
    BY <2>2, <2>5 DEF TaskEvent
  <2> QED
    BY <1>4, <2>1, <2>6, StreamEvents
<1> QED
  BY <1>2, <1>3, <1>4 DEF ValidEvent

\* A packet's own binding is read as that packet's just if its revision is safe.
LEMMA OwnBinding ==
  ASSUME NEW p
  PROVE  BoundTo(p, Binding(p)) <=> p.rev <= SafeRevision
<1>1. BoundTo(p, Binding(p)) <=> ReadAs(p.rev, Carried(p.rev))
  BY DEF BoundTo, Binding
<1>2. CASE p.rev <= SafeRevision
  BY <1>1, <1>2 DEF ReadAs, Carried
<1>3. CASE ~(p.rev <= SafeRevision)
  <2>1. ~(SafeRevision + 1 <= SafeRevision)
    BY SafeRevisionIsNat
  <2> QED
    BY <1>1, <1>3, <2>1 DEF ReadAs, Carried
<1> QED
  BY <1>2, <1>3

\* The adapter takes each event of a packet's own stream in its turn, the last
\* one of a safe revision only.
LEMMA OwnEvents ==
  ASSUME NEW p \in Packets, NEW time, Verified(p, time), NEW n \in 0..3
  PROVE  ValidEvent(p, StreamOf(p)[n + 1], n, time)
           <=> (n = 3 => p.rev <= SafeRevision)
<1>1. n \in {0, 1, 2, 3}
  OBVIOUS
<1>2. CASE n = 0
  BY <1>2, StreamEvents, EventFields DEF ValidEvent, SubmittedEvent, OfPacket
<1>3. CASE n \in {1, 2}
  BY <1>3, StreamEvents, EventFields DEF ValidEvent, WorkingEvent, WorkingText, OfPacket
<1>4. CASE n = 3
  <2> DEFINE e == StreamOf(p)[4]
  <2>1. /\ Artifact(p).binding = Binding(p)
        /\ ValidResult(p, Artifact(p).result, time)
    BY DEF Artifact, ValidResult
  <2>2. /\ e.type = "task" /\ OfPacket(p, e) /\ e.state = "completed"
        /\ e.text = None /\ e.artifact = Artifact(p) /\ Artifact(p) # None
    BY StreamEvents, EventFields, NoneIsNoArtifact DEF OfPacket
  <2>3. CompletedEvent(p, e, time) <=> BoundTo(p, Binding(p))
    BY <2>1, <2>2, Zenon DEF CompletedEvent
  <2>4. ValidEvent(p, e, 3, time) <=> CompletedEvent(p, e, time)
    BY DEF ValidEvent
  <2> QED
    BY <1>4, <2>3, <2>4, OwnBinding
<1> QED
  BY <1>1, <1>2, <1>3, <1>4

-----------------------------------------------------------------------------

\* An event that is admitted is the next of the packet's stream.
LEMMA ReceiveInTurn ==
  ASSUME IInv, Receive
  PROVE  InTurn' /\ FromStream'
<1> USE DEF IInv
<1>1. CASE UNCHANGED admitted
  BY <1>1 DEF Receive, InTurn, FromStream
<1>2. ASSUME NEW i \in DOMAIN stream,
             ValidEvent(packet, stream[i], Len(admitted), now),
             admitted' = Append(admitted, stream[i])
      PROVE  InTurn' /\ FromStream'
  <2>1. UNCHANGED <<packet, stream>>
    BY DEF Receive
  <2>2. PICK q \in Packets : stream = StreamOf(q) /\ i \in 1..4
    <3>1. stream # <<>>
      BY <1>2
    <3> QED
      BY <1>2, <3>1, StreamEvents DEF FromStream
  <2>3. Len(admitted) \in Nat
    BY DEF InTurn
  <2>4. Len(admitted) \in 0..3 /\ stream[i] = StreamOf(packet)[Len(admitted) + 1]
    BY <1>2, <2>2, <2>3, OnlyOwnEvent
  <2>5. stream[i] \in Events
    BY <2>2 DEF Events
  <2>6. /\ admitted' \in Seq(Events)
        /\ Len(admitted') = Len(admitted) + 1
        /\ \A k \in 1..Len(admitted) : admitted'[k] = admitted[k]
        /\ admitted'[Len(admitted) + 1] = stream[i]
    BY <1>2, <2>5, AppendProperties DEF InTurn
  <2>7. \A k \in 1..Len(admitted') : k \in 1..Len(admitted) \/ k = Len(admitted) + 1
    BY <2>3, <2>6
  <2>8. InTurn'
    BY <2>1, <2>3, <2>4, <2>6, <2>7 DEF InTurn
  <2>9. FromStream'
    BY <2>1, <2>6, <2>7 DEF FromStream
  <2> QED
    BY <2>8, <2>9
<1> QED
  BY <1>1, <1>2 DEF Receive

LEMMA InitInv == Init => IInv
BY TimeIsBounded DEF Init, IInv, InTurn, FromStream

LEMMA StepInv == IInv /\ [Next]_vars => IInv'
<1> SUFFICES ASSUME IInv, [Next]_vars PROVE IInv'
  OBVIOUS
<1> USE DEF IInv
<1>1. CASE Invoke
  <2>1. admitted = <<>> /\ UNCHANGED <<now, packet, admitted>>
    BY <1>1 DEF Invoke
  <2>2. /\ outcome' \in {"running", "error"}
        /\ stream' = <<>> \/ \E q \in Packets : stream' = StreamOf(q)
    BY <1>1 DEF Invoke, FromStream
  <2> QED
    BY <2>1, <2>2 DEF InTurn, FromStream
<1>2. CASE Receive
  <2>1. UNCHANGED <<now, packet>> /\ outcome' \in {"running", "error"}
    BY <1>2 DEF Receive
  <2> QED
    BY <1>2, <2>1, ReceiveInTurn
<1>3. CASE EndOfStream
  BY <1>3 DEF EndOfStream, InTurn, FromStream
<1>4. CASE Tick
  <2>1. now' \in 0..MaxTime
    BY <1>4, TimeIsBounded DEF Tick
  <2> QED
    BY <1>4, <2>1 DEF Tick, InTurn, FromStream
<1>5. CASE UNCHANGED vars
  BY <1>5 DEF vars, InTurn, FromStream
<1> QED
  BY <1>1, <1>2, <1>3, <1>4, <1>5 DEF Next

\* What is admitted is in turn, in every reachable state: the inductive
\* invariant of src/a2a_adapter.rs, invoke_stream.
THEOREM Invariance == Spec => []IInv
BY InitInv, StepInv, PTL DEF Spec

-----------------------------------------------------------------------------

\* Every reachable state of an invocation is well typed.
THEOREM TypeCorrect == Spec => []TypeOK
<1>1. IInv => TypeOK
  <2> SUFFICES ASSUME IInv PROVE TypeOK
    OBVIOUS
  <2>1. DOMAIN admitted = 1..Len(admitted)
    BY LenProperties DEF IInv, InTurn
  <2> QED
    BY <2>1 DEF IInv, InTurn, FromStream, TypeOK
<1> QED
  BY <1>1, Invariance, PTL

\* For any packets, whatever the agent answers and in whatever order, what is
\* admitted is the beginning of the stream of the packet that was invoked.
THEOREM OwnStreamOnly == Spec => []OnlyOwnStream
<1>1. IInv => OnlyOwnStream
  <2> SUFFICES ASSUME IInv PROVE admitted = SubSeq(StreamOf(packet), 1, Len(admitted))
    BY DEF OnlyOwnStream
  <2> DEFINE n == Len(admitted)
  <2>0. /\ admitted \in Seq(Events) /\ Len(admitted) <= 4
        /\ packet \in Packets
    BY DEF IInv, InTurn
  <2>1. Len(admitted) \in Nat
    BY <2>0, LenProperties
  <2>2. \A k \in Nat : k <= 4 => k \in 0..4 /\ \A i \in 1..k : i \in 1..4
    OBVIOUS
  <2>3. n \in 0..4 /\ \A i \in 1..n : i \in 1..4
    BY <2>0, <2>1, <2>2, Zenon
  <2>4. \A i \in 1..n : StreamOf(packet)[i] \in Events
    BY <2>0, <2>3 DEF Events
  <2> DEFINE own == SubSeq(StreamOf(packet), 1, n)
  <2>5. own \in Seq(Events) /\ Len(own) = n /\ \A i \in 1..n : own[i] = StreamOf(packet)[i]
    BY <2>3, <2>4, SubSeqProperties
  <2>6. \A i \in 1..n : admitted[i] = own[i]
    BY <2>5 DEF IInv, InTurn
  <2> HIDE DEF own
  <2>7. admitted = own
    BY <2>0, <2>5, <2>6, SeqEqual
  <2> QED
    BY <2>7 DEF own
<1> QED
  BY <1>1, Invariance, PTL

\* For any packet, the agent and the adapter agree on the whole protocol, but
\* for the revisions that a double does not hold: those never complete.
THEOREM OwnStreamWelcome == Spec => []OwnStreamAdmitted
<1>1. IInv => OwnStreamAdmitted
  BY OwnEvents DEF IInv, OwnStreamAdmitted
<1> QED
  BY <1>1, Invariance, PTL
=============================================================================
