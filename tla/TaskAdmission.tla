---------------------------- MODULE TaskAdmission ----------------------------
(***************************************************************************)
(* One invocation of the reference agent: which packets are worked on,     *)
(* what the agent answers to each (src/reference_agent.rs), and what the   *)
(* adapter admits of a stream of answers (src/a2a_adapter.rs,              *)
(* src/update_validation.rs).  The agent is on the other side of a         *)
(* connection: it may answer for another packet, out of order, or not.     *)
(*                                                                         *)
(* A UUID has several spellings, so an id is <<uuid, spelling>>; a title is *)
(* its length; a line of input is an action item or prose; SHA-256 is the  *)
(* canonical content itself.                                               *)
(***************************************************************************)
EXTENDS Integers, Sequences, FiniteSets

CONSTANTS
    Packets,  \* context packets the room may hand out
    None,     \* an absent value
    SafeRevision, \* 2^53 - 1: up to here a double holds each whole number
    MaxTime   \* bound: the last moment that is looked at

ASSUME TimeIsBounded == MaxTime \in Nat
ASSUME SafeRevisionIsNat == SafeRevision \in Nat

IsSequence(s) == s \in Seq({s[i] : i \in DOMAIN s})

\* What serde has made of a packet before anyone looks at it.
ASSUME PacketsAreTyped ==
    \A p \in Packets :
        /\ IsSequence(p.events) /\ IsSequence(p.input) /\ p.decisions \in Seq(Nat)
        /\ p.rev \in Int /\ p.length \in Nat

VARIABLES
    now,       \* the time
    packet,    \* the packet invoked
    stream,    \* what the agent answers
    admitted,  \* events the adapter has admitted
    outcome    \* of invoke_stream

vars == <<now, packet, stream, admitted, outcome>>

-----------------------------------------------------------------------------
(* Packets *)

Canonical == "hyphenated"
Uuid(id) == id[1]

Content(p) == [f \in DOMAIN p \ {"hash"} |-> p[f]]

ReferenceAgent == "reference-agent"

\* What the invocation must agree on with the packet.
About(p) == [room |-> p.room, requester |-> p.requester, agent |-> p.agent,
             skill |-> p.skill, rev |-> p.rev]

Invocations(p) ==
    SelectSeq(p.events, LAMBDA e : e.kind = "agent.task.requested"
                                   /\ Uuid(e.task) = p.task)
Invocation(p) == Head(Invocations(p))

\* verify_packet_at
Verified(p, time) ==
    /\ p.agent = ReferenceAgent
    /\ p.skill \in {"summarize-context", "extract-action-items"}
    /\ p.rev >= 0
    /\ p.issued <= p.expires /\ time < p.expires
    /\ p.hash = Content(p)
    /\ Cardinality({Uuid(p.events[i].id) : i \in DOMAIN p.events}) = Len(p.events)
    /\ Invocations(p) # <<>>
    /\ p.input # <<>> /\ p.length <= 8000
    /\ Invocation(p).actor = [role |-> "human", id |-> p.requester]
    /\ Invocation(p).about = About(p)

-----------------------------------------------------------------------------
(* The result of a packet *)

FirstN(s, n) == SubSeq(s, 1, IF Len(s) < n THEN Len(s) ELSE n)

\* Characters of the titles with a separator each.
Width(titles) ==
    LET upTo[i \in 0..Len(titles)] == IF i = 0 THEN 0 ELSE upTo[i - 1] + titles[i] + 2
    IN  upTo[Len(titles)]

\* Mutant: only the number of titles is bounded.
FewTitles(p) ==
    IF Len(p.decisions) > 20 THEN [omitted |-> TRUE, shown |-> <<>>]
    ELSE [omitted |-> FALSE, shown |-> p.decisions]

Titles(p) ==
    IF Len(p.decisions) > 20 \/ Width(p.decisions) > 7000
    THEN [omitted |-> TRUE, shown |-> <<>>]
    ELSE [omitted |-> FALSE, shown |-> p.decisions]

Summary(p) ==
    [kind      |-> "context-summary.v1",
     messages  |-> Len(SelectSeq(p.events, LAMBDA e : e.kind = "message.created")),
     titles    |-> Titles(p),
     citations |-> FirstN([i \in DOMAIN p.events |-> p.events[i].id], 100)]

ItemLines(p) == {i \in DOMAIN p.input : p.input[i] = "item"}

\* Of the items, each the same as any other, only how many are taken.
ActionItems(p) ==
    [kind      |-> "action-items.v1",
     items     |-> IF Cardinality(ItemLines(p)) < 20
                   THEN Cardinality(ItemLines(p)) ELSE 20,
     citations |-> <<Invocation(p).id>>]

\* expected_result of a verified packet
ExpectedResult(p) ==
    IF p.skill = "summarize-context" THEN Summary(p) ELSE ActionItems(p)

-----------------------------------------------------------------------------
(* The agent's stream, and its admission *)

Context(p) == <<p.room, p.rev>>
Binding(p) == [task |-> p.task, room |-> p.room, rev |-> p.rev, hash |-> p.hash]

TaskEvent(p, state, artifact) ==
    [type |-> "task", task |-> p.task, context |-> Context(p), state |-> state,
     text |-> None, artifact |-> artifact]
WorkingUpdate(p, text) ==
    [type |-> "status", task |-> p.task, context |-> Context(p),
     state |-> "working", text |-> text, artifact |-> None]

Artifact(p) == [binding |-> Binding(p), result |-> ExpectedResult(p)]

ASSUME NoneIsNoArtifact == \A p \in Packets : Artifact(p) # None

\* stream_for_packet of a verified packet
StreamOf(p) ==
    <<TaskEvent(p, "submitted", None),
      WorkingUpdate(p, "reading"),
      WorkingUpdate(p, "preparing"),
      TaskEvent(p, "completed", Artifact(p))>>

OfPacket(p, e) == e.task = p.task /\ e.context = Context(p)

SubmittedEvent(p, e) ==
    /\ e.type = "task" /\ OfPacket(p, e) /\ e.state = "submitted"
    /\ e.text = None /\ e.artifact = None

WorkingText(n) ==
    IF n = 1 THEN "reading" ELSE "preparing"

WorkingEvent(p, e, n) ==
    /\ e.type = "status" /\ OfPacket(p, e) /\ e.state = "working"
    /\ e.text = WorkingText(n)

\* An artifact is data, and a number in it is carried as a double: a larger one
\* is rounded, and to none that is safe.  (The packet is sent as text.)
Carried(rev) == IF rev <= SafeRevision THEN rev ELSE SafeRevision + 1

\* Mutant: the number is cast without a bound.
CastTo(rev, number) == number = rev

\* deserialize_a2a_revision: the number is a safe one, and this one.
ReadAs(rev, number) == number <= SafeRevision /\ number = rev

\* Mutant: the artifact is not compared with the hash of the packet.
BoundToTask(p, b) ==
    b.task = p.task /\ b.room = p.room /\ ReadAs(p.rev, Carried(b.rev))

BoundTo(p, b) ==
    /\ b.task = p.task /\ b.room = p.room /\ ReadAs(p.rev, Carried(b.rev))
    /\ b.hash = p.hash

\* validate_result computes the result again, at the time of the check.
ValidResult(p, result, time) == Verified(p, time) /\ result = ExpectedResult(p)

CompletedEvent(p, e, time) ==
    /\ e.type = "task" /\ OfPacket(p, e) /\ e.state = "completed"
    /\ e.text = None /\ e.artifact # None
    /\ BoundTo(p, e.artifact.binding)
    /\ ValidResult(p, e.artifact.result, time)

\* Mutant: every later event is held against the last one.
ValidAtLeast(p, e, n, time) ==
    \/ n = 0 /\ SubmittedEvent(p, e)
    \/ n \in {1, 2} /\ WorkingEvent(p, e, n)
    \/ n >= 3 /\ CompletedEvent(p, e, time)

ValidEvent(p, e, n, time) ==
    \/ n = 0 /\ SubmittedEvent(p, e)
    \/ n \in {1, 2} /\ WorkingEvent(p, e, n)
    \/ n = 3 /\ CompletedEvent(p, e, time)

-----------------------------------------------------------------------------
(* invoke_stream *)

TypeOK ==
    /\ now \in 0..MaxTime
    /\ packet \in Packets
    /\ stream = <<>> \/ \E q \in Packets : stream = StreamOf(q)
    /\ \A i \in DOMAIN admitted : \E j \in DOMAIN stream : admitted[i] = stream[j]
    /\ Len(admitted) <= 4
    /\ outcome \in {"idle", "running", "ok", "error"}

Init ==
    /\ now \in 0..MaxTime /\ packet \in Packets
    /\ stream = <<>> /\ admitted = <<>> /\ outcome = "idle"

\* The agent verifies the packet it is given, or believes it is given.
Invoke ==
    /\ outcome = "idle"
    /\ IF Verified(packet, now)
       THEN /\ outcome' = "running"
            /\ \E q \in Packets :
                 stream' = IF Verified(q, now) THEN StreamOf(q) ELSE <<>>
       ELSE outcome' = "error" /\ UNCHANGED stream
    /\ UNCHANGED <<now, packet, admitted>>

Receive ==
    /\ outcome = "running"
    /\ \E i \in DOMAIN stream :
         IF ValidEvent(packet, stream[i], Len(admitted), now)
         THEN admitted' = Append(admitted, stream[i]) /\ UNCHANGED outcome
         ELSE outcome' = "error" /\ UNCHANGED admitted
    /\ UNCHANGED <<now, packet, stream>>

\* The stream ends, or the transport fails.
EndOfStream ==
    /\ outcome = "running"
    /\ \/ outcome' = "error"
       \/ Len(admitted) = 4 /\ outcome' = "ok"
    /\ UNCHANGED <<now, packet, stream, admitted>>

Tick ==
    /\ now < MaxTime /\ now' = now + 1
    /\ UNCHANGED <<packet, stream, admitted, outcome>>

Next == Invoke \/ Receive \/ EndOfStream \/ Tick

Spec == Init /\ [][Next]_vars

-----------------------------------------------------------------------------
(* Properties *)

\* Whatever packet the agent answers for, and in whatever order, what is
\* admitted is the beginning of the stream of the packet that was invoked:
\* an answer for other content of the same task and revision is not.
OnlyOwnStream ==
    admitted # <<>> => admitted = SubSeq(StreamOf(packet), 1, Len(admitted))

\* The agent and the adapter agree on the protocol, but for one number: of a
\* packet that may be worked on, each event of its stream is admitted in its
\* turn, and the last one only of a safe revision.  Neither verify_packet_at
\* nor the contract bounds the revision, and beyond 2^53 - 1 each task fails.
OwnStreamAdmitted ==
    Verified(packet, now) =>
        \A n \in 0..3 :
            ValidEvent(packet, StreamOf(packet)[n + 1], n, now)
                <=> (n = 3 => packet.rev <= SafeRevision)

\* Room wording of the summary around the titles, at most.
Frame == 130

SummaryWidth(titles) ==
    Frame + IF titles.omitted THEN 90 ELSE Width(titles.shown)

\* contracts/n2n.room.v1/schemas/room-event.schema.json: at most 100 citations
\* and none twice, a summary of 8000 characters, 20 action items.
WithinContract(result) ==
    /\ Len(result.citations) <= 100
    /\ \A i, j \in DOMAIN result.citations :
         result.citations[i] = result.citations[j] => i = j
    /\ result.kind = "context-summary.v1" => SummaryWidth(result.titles) <= 8000
    /\ result.kind = "action-items.v1" => result.items <= 20

\* A result that is admitted is one that the room's contract takes, for any
\* number of events, decisions and lines: the agent's bounds are the room's.
ResultWithinContract ==
    Len(admitted) = 4 => WithinContract(admitted[4].artifact.result)
=============================================================================
