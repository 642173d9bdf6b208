----------------------- MODULE SourceDisclosureProofs -----------------------
(***************************************************************************)
(* Proofs about the disclosure of sources, for any turns, packets and      *)
(* citations.                                                              *)
(***************************************************************************)
EXTENDS SourceDisclosure, TLAPS

\* What is shown to t, by its packet or before, by acknowledged turns.
ShownTo(t) == Sources(record[t].packet) \cup Disclosed(record[t].packet)

\* What a record collected was shown, and so was what its decisions stand on;
\* its reply is within what it collected.
Collected ==
    \A t \in Tasks :
        record[t] # None =>
            /\ record[t].sources \subseteq ShownTo(t)
            /\ record[t].cites # None =>
                 record[t].cites \subseteq Sources(record[t].packet) \cup record[t].sources
            /\ \A d \in record[t].packet.decisions : d.from \subseteq ShownTo(t)

\* The task in hand has a record that is still open.
InHand == turn # None => record[turn] # None /\ ~Acknowledged(turn)

IInv == TypeOK /\ Collected /\ InHand

\* Acknowledged records are never touched again.
Kept ==
    \A t \in Tasks : Acknowledged(t) =>
        /\ Acknowledged(t)'
        /\ record'[t].packet = record[t].packet
        /\ record'[t].sources = record[t].sources

\* Then what conversations were shown, and the sources collected, only grow.
LEMMA Grows ==
  ASSUME Kept
  PROVE  /\ \A p : Disclosed(p) \subseteq Disclosed(p)'
         /\ \A p : PriorSources(p) \subseteq PriorSources(p)'
BY DEF Kept, Disclosed, PriorSources, SameConversation

\* The sources collected for a packet were shown to its conversation.
LEMMA PriorShown == ASSUME IInv, NEW p PROVE PriorSources(p) \subseteq Disclosed(p)
<1>1. SUFFICES ASSUME NEW t \in Tasks, Acknowledged(t),
                      SameConversation(record[t].packet, p)
               PROVE  record[t].sources \subseteq Disclosed(p)
  BY DEF PriorSources
<1>2. record[t].sources \subseteq ShownTo(t)
  BY <1>1 DEF IInv, Collected, Acknowledged
<1>3. Sources(record[t].packet) \subseteq Disclosed(p)
  BY <1>1 DEF Disclosed, SameConversation
<1>4. Disclosed(record[t].packet) = Disclosed(p)
  BY <1>1 DEF Disclosed, SameConversation
<1> QED BY <1>2, <1>3, <1>4 DEF ShownTo

\* A record whose packet, sources and reply stay is still within its bounds.
LEMMA StaysCollected ==
  ASSUME IInv, Kept, NEW t \in Tasks, record[t] # None,
         record'[t].packet = record[t].packet,
         record'[t].sources = record[t].sources,
         record'[t].cites = record[t].cites
         \/ record'[t].cites \subseteq Sources(record[t].packet) \cup record[t].sources
  PROVE  /\ record'[t].sources \subseteq ShownTo(t)'
         /\ record'[t].cites # None =>
              record'[t].cites \subseteq Sources(record'[t].packet) \cup record'[t].sources
         /\ \A d \in record'[t].packet.decisions : d.from \subseteq ShownTo(t)'
<1>1. ShownTo(t) \subseteq ShownTo(t)'
  BY Grows DEF ShownTo
<1>2. /\ record[t].sources \subseteq ShownTo(t)
      /\ record[t].cites # None =>
           record[t].cites \subseteq Sources(record[t].packet) \cup record[t].sources
      /\ \A d \in record[t].packet.decisions : d.from \subseteq ShownTo(t)
  BY DEF IInv, Collected
<1> QED BY <1>1, <1>2

-----------------------------------------------------------------------------
(* The steps *)

\* A step that changes one record, and of it the phase or the reply.
LEMMA TouchedIInv ==
  ASSUME IInv, NEW t \in Tasks, record[t] # None,
         ~Acknowledged(t) \/ record'[t].phase = "acknowledged",
         NEW r \in Records, record' = [record EXCEPT ![t] = r],
         r.packet = record[t].packet, r.sources = record[t].sources,
         r.cites = record[t].cites
         \/ r.cites \subseteq Sources(record[t].packet) \cup record[t].sources,
         turn' = None
  PROVE  IInv' /\ Kept
<1>1. /\ record'[t] = r /\ r # None
      /\ \A s \in Tasks : s # t => record'[s] = record[s]
  BY NoneIsNoRecord DEF IInv, TypeOK
<1>2. TypeOK'
  BY DEF IInv, TypeOK
<1>3. Kept
  <2>1. SUFFICES ASSUME NEW s \in Tasks, Acknowledged(s)
                 PROVE  /\ Acknowledged(s)'
                        /\ record'[s].packet = record[s].packet
                        /\ record'[s].sources = record[s].sources
    BY DEF Kept
  <2>2. CASE s = t
    BY <1>1, <2>1, <2>2 DEF Acknowledged
  <2>3. CASE s # t
    BY <1>1, <2>1, <2>3 DEF Acknowledged
  <2> QED BY <2>2, <2>3
<1>4. Collected'
  <2>1. SUFFICES ASSUME NEW s \in Tasks, record'[s] # None
                 PROVE  /\ record'[s].sources \subseteq ShownTo(s)'
                        /\ record'[s].cites # None =>
                             record'[s].cites \subseteq
                               Sources(record'[s].packet) \cup record'[s].sources
                        /\ \A d \in record'[s].packet.decisions : d.from \subseteq ShownTo(s)'
    BY DEF Collected
  <2>2. CASE s = t
    BY <1>1, <1>3, <2>2, StaysCollected
  <2>3. CASE s # t
    BY <1>1, <1>3, <2>1, <2>3, StaysCollected
  <2> QED BY <2>2, <2>3
<1> QED BY <1>2, <1>3, <1>4 DEF IInv, InHand

\* Where nothing is stored, nothing changes.
LEMMA UntouchedIInv ==
  ASSUME IInv, record' = record, turn' \in Tasks \cup {None},
         turn' # None => record[turn'] # None /\ ~Acknowledged(turn')
  PROVE  IInv' /\ Kept
<1>1. TypeOK' /\ Kept
  BY DEF IInv, TypeOK, Kept, Acknowledged
<1>2. Collected'
  BY DEF IInv, Collected, ShownTo, Disclosed, Acknowledged
<1>3. InHand'
  BY DEF InHand, Acknowledged
<1> QED BY <1>1, <1>2, <1>3 DEF IInv

\* A turn is admitted with what its conversation was shown before.
LEMMA ClaimIInv ==
  ASSUME IInv, NEW t \in Tasks, NEW p \in Packets, Claim(t, p)
  PROVE  IInv' /\ Kept
<1> DEFINE r == [phase |-> "submission-intent", packet |-> p,
                 sources |-> Sources(p) \cup PriorSources(p), cites |-> None]
<1>1. turn' = t /\ ValidPacket(p, PriorSources(p))
  BY DEF Claim, Claimable
<1>2. CASE record[t] # None
  <2>1. record' = record /\ ~Acknowledged(t) /\ turn' \in Tasks
    BY <1>1, <1>2 DEF Claim, Claimable
  <2> QED BY <1>1, <1>2, <2>1, UntouchedIInv
<1>3. CASE record[t] = None
  <2>1. record' = [record EXCEPT ![t] = r]
    BY <1>3 DEF Claim
  <2>2. Sources(p) \subseteq Ids
    BY DisclosureConstants DEF Sources, Replied, Ids, PacketType
  <2>3. PriorSources(p) \subseteq Ids
    BY DEF PriorSources, Acknowledged, IInv, TypeOK, Records
  <2>4. r \in Records /\ r # None
    BY <2>2, <2>3, NoneIsNoRecord DEF Records, Phases
  <2>5. record'[t] = r /\ \A s \in Tasks : s # t => record'[s] = record[s]
    BY <2>1 DEF IInv, TypeOK
  <2>6. TypeOK'
    BY <1>1, <2>1, <2>4 DEF IInv, TypeOK
  <2>7. Kept
    BY <1>3, <2>5 DEF Kept, Acknowledged
  <2>8. PriorSources(p) \subseteq Disclosed(p)'
    BY <2>7, PriorShown, Grows
  <2>9. /\ r.sources \subseteq Sources(p) \cup Disclosed(p)'
        /\ \A d \in p.decisions : d.from \subseteq Sources(p) \cup Disclosed(p)'
    BY <1>1, <2>8 DEF ValidPacket, ValidDecisions, Sources
  <2>10. Collected'
    <3>1. SUFFICES ASSUME NEW s \in Tasks, record'[s] # None
                   PROVE  /\ record'[s].sources \subseteq ShownTo(s)'
                          /\ record'[s].cites # None =>
                               record'[s].cites \subseteq
                                 Sources(record'[s].packet) \cup record'[s].sources
                          /\ \A d \in record'[s].packet.decisions : d.from \subseteq ShownTo(s)'
      BY DEF Collected
    <3>2. CASE s = t
      <4>1. ShownTo(s)' = Sources(p) \cup Disclosed(p)'
        BY <2>5, <3>2 DEF ShownTo, Disclosed, Acknowledged
      <4> QED BY <2>5, <2>9, <3>2, <4>1
    <3>3. CASE s # t
      BY <2>5, <2>7, <3>1, <3>3, StaysCollected
    <3> QED BY <3>2, <3>3
  <2>11. InHand'
    BY <1>1, <2>4, <2>5 DEF InHand, Acknowledged
  <2> QED BY <2>6, <2>7, <2>10, <2>11 DEF IInv
<1> QED BY <1>2, <1>3

\* A reply is stored when all it cites is known.
LEMMA ReplyIInv ==
  ASSUME IInv, NEW cites \in Citations, Reply(cites)
  PROVE  IInv' /\ Kept
<1> DEFINE r == [phase |-> "completed", packet |-> record[turn].packet,
                 sources |-> record[turn].sources, cites |-> cites]
<1>1. /\ turn \in Tasks /\ record[turn] \in Records /\ record[turn] # None
      /\ ~Acknowledged(turn) /\ turn' = None
  BY DEF Reply, IInv, InHand, TypeOK
<1>2. record' = [record EXCEPT ![turn] = r]
  BY DEF Reply
<1>3. r \in Records
  BY <1>1 DEF Records, Phases
<1>4. r.cites \subseteq Sources(record[turn].packet) \cup record[turn].sources
  BY DEF Reply, ValidReply
<1> QED BY <1>1, <1>2, <1>3, <1>4, TouchedIInv

\* Steps that only change the phase of a record.
LEMMA PhaseIInv ==
  ASSUME IInv, NEW t \in Tasks, record[t] # None, NEW phase \in Phases,
         ~Acknowledged(t) \/ phase = "acknowledged",
         record' = [record EXCEPT ![t].phase = phase], turn' = None
  PROVE  IInv' /\ Kept
<1> DEFINE r == [record[t] EXCEPT !.phase = phase]
<1>1. record[t] \in Records
  BY DEF IInv, TypeOK
<1>2. /\ r \in Records /\ r.packet = record[t].packet
      /\ r.sources = record[t].sources /\ r.cites = record[t].cites
      /\ r.phase = phase
  BY <1>1 DEF Records
<1>3. record' = [record EXCEPT ![t] = r] /\ record'[t] = r
  BY DEF IInv, TypeOK
<1> HIDE DEF r
<1> QED BY <1>2, <1>3, TouchedIInv

\* Every step keeps the invariant and the acknowledged records.
LEMMA NextIInv == IInv /\ [Next]_vars => IInv' /\ Kept
<1> SUFFICES ASSUME IInv, [Next]_vars PROVE IInv' /\ Kept
  OBVIOUS
<1>1. CASE UNCHANGED vars \/ NoTask
  <2>1. record' = record /\ turn' = turn
    BY <1>1 DEF vars, NoTask
  <2> QED BY <2>1, UntouchedIInv DEF IInv, TypeOK, InHand
<1>2. CASE GiveUp
  <2>1. turn \in Tasks /\ record[turn] # None /\ ~Acknowledged(turn) /\ turn' = None
    BY <1>2 DEF GiveUp, IInv, InHand, TypeOK
  <2>2. CASE record' = record
    BY <2>1, <2>2, UntouchedIInv
  <2>3. CASE record' = [record EXCEPT ![turn].phase = "interrupted"]
    BY <2>1, <2>3, PhaseIInv DEF Phases
  <2> QED BY <1>2, <2>2, <2>3 DEF GiveUp
<1>3. ASSUME NEW t \in Tasks, NEW p \in Packets, Claim(t, p) PROVE IInv' /\ Kept
  BY <1>3, ClaimIInv
<1>4. ASSUME NEW cites \in Citations, Reply(cites) PROVE IInv' /\ Kept
  BY <1>4, ReplyIInv
<1>5. ASSUME NEW t \in Tasks, Acknowledge(t) PROVE IInv' /\ Kept
  BY <1>5, PhaseIInv DEF Acknowledge, Phases
<1>6. ASSUME NEW t \in Tasks, Quarantine(t) PROVE IInv' /\ Kept
  BY <1>6, PhaseIInv DEF Quarantine, Phases
<1> QED BY <1>1, <1>2, <1>3, <1>4, <1>5, <1>6 DEF Next

-----------------------------------------------------------------------------
(* Theorems *)

\* Every reachable state satisfies the inductive invariant: what the records
\* of the mediator collect was shown to their conversation.
THEOREM Invariance == Spec => []IInv
<1>1. Init => IInv
  BY DEF Init, IInv, TypeOK, Collected, InHand
<1>2. IInv /\ [Next]_vars => IInv'
  BY NextIInv
<1> QED BY <1>1, <1>2, PTL DEF Spec

\* Records keep their type.
THEOREM TypeCorrect == Spec => []TypeOK
<1>1. IInv => TypeOK
  BY DEF IInv
<1> QED BY <1>1, Invariance, PTL

\* No stored reply cites what its conversation was not shown in this
\* generation and under this policy (conversation_validation.rs,
\* validate_result_policy with prior_sources).
THEOREM Cites == Spec => []CitesDisclosed
<1>1. IInv => CitesDisclosed
  BY DEF IInv, Collected, CitesDisclosed, ShownTo
<1> QED BY <1>1, Invariance, PTL

\* No turn works from a decision whose events its conversation was not shown
\* (conversation_validation.rs, validate_packet_with_sources).
THEOREM Grounded == Spec => []DecisionsGrounded
<1>1. IInv => DecisionsGrounded
  BY DEF IInv, Collected, DecisionsGrounded, ShownTo
<1> QED BY <1>1, Invariance, PTL

\* What a conversation was shown is never forgotten, so that a source that
\* was usable stays so (conversation_dispatcher.rs, prior_sources).
THEOREM NeverForgets == Spec => DisclosureGrows
<1>1. IInv /\ [Next]_vars => [\A p \in Packets : PriorSources(p) \subseteq PriorSources(p)']_vars
  BY NextIInv, Grows
<1> QED BY <1>1, Invariance, PTL DEF Spec, DisclosureGrows
=============================================================================
