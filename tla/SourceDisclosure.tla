-------------------------- MODULE SourceDisclosure --------------------------
(***************************************************************************)
(* What a conversation may cite (src/conversation_validation.rs, and       *)
(* prior_sources in src/conversation_dispatcher.rs).  A turn's packet      *)
(* shows the agent room events, its own earlier replies and decisions.  A  *)
(* later packet shows only what is new, so the mediator collects from its  *)
(* stored records what the conversation was shown before, and admits the   *)
(* decisions of a packet and the citations of a reply against it.          *)
(*                                                                         *)
(* One turn is in hand at a time, and what matters of it is what it leaves *)
(* on disk: ConversationDispatcher has its steps.  The room may issue, and *)
(* the agent may cite, anything.  An event is named by its sequence; the   *)
(* digest binds a record to the whole packet; room and conversation are    *)
(* one.  Times, texts and settings are left out.                           *)
(***************************************************************************)
EXTENDS Naturals, FiniteSets

CONSTANTS
    Tasks,      \* turns of all conversations
    None,       \* an absent value
    Revisions,  \* sequences of room events
    Decisions,  \* decision ids
    Packets,    \* context packets the room may issue
    Citations,  \* sets of sources the agent may cite
    ReadLimit   \* sources of a record that is still read back (4 MiB of JSON)

VARIABLES
    record,  \* task -> the record stored for it
    turn     \* the task in hand

vars == <<record, turn>>

-----------------------------------------------------------------------------
(* Types *)

Ids == Revisions \cup Decisions

PacketType ==
    [conversation : STRING, generation : Nat, policy : Nat,
     mode : {"new", "continue"}, kind : {"baseline", "delta"},
     base : Nat, rev : Revisions,
     entries : SUBSET Revisions,
     replies : SUBSET [event : Revisions, generation : Nat],
     decisions : SUBSET [id : Decisions, from : SUBSET Revisions]]

ASSUME DisclosureConstants ==
    /\ Revisions \subseteq Nat \ {0} /\ Revisions \cap Decisions = {}
    /\ Packets \subseteq PacketType /\ Citations \subseteq SUBSET Ids
    /\ None \notin Tasks /\ None \notin Citations
    /\ ReadLimit \in Nat

Phases == {"submission-intent", "interrupted", "completed", "acknowledged",
           "quarantined"}
Records == [phase : Phases, packet : Packets, sources : SUBSET Ids,
            cites : Citations \cup {None}]

ASSUME NoneIsNoRecord == None \notin Records

TypeOK ==
    /\ record \in [Tasks -> Records \cup {None}]
    /\ turn \in Tasks \cup {None}

Init == record = [t \in Tasks |-> None] /\ turn = None

-----------------------------------------------------------------------------
(* Packets *)

Replied(p) == {r.event : r \in p.replies}

\* What the packet shows.
Sources(p) == p.entries \cup Replied(p) \cup {d.id : d \in p.decisions}

\* Entries and bound replies are in order, after base, and none is twice.
ValidEvents(p) ==
    /\ \A e \in p.entries \cup Replied(p) : p.base < e /\ e <= p.rev
    /\ p.entries \cap Replied(p) = {}
    /\ \A r, s \in p.replies : r.event = s.event => r = s
    /\ \A r \in p.replies : r.generation = p.generation
    /\ p.rev \in p.entries                       \* the trigger

\* Mutant: the decisions are admitted on the word of the room.
DecisionsOnce(p, prior) == \A d, e \in p.decisions : d.id = e.id => d = e

ValidDecisions(p, prior) ==
    /\ \A d, e \in p.decisions : d.id = e.id => d = e
    /\ \A d \in p.decisions : d.from \subseteq p.entries \cup Replied(p) \cup prior

ValidPacket(p, prior) ==
    /\ p.base < p.rev
    /\ p.mode = "new" <=> p.kind = "baseline"
    /\ p.kind = "baseline" => p.base = 0 /\ p.replies = {}
    /\ ValidEvents(p)
    /\ ValidDecisions(p, prior)

-----------------------------------------------------------------------------
(* What a conversation was shown before *)

\* Mutant: a new generation inherits what the old one was shown.
SameRoom(p, q) == p.conversation = q.conversation /\ p.policy = q.policy

SameConversation(p, q) ==
    /\ p.conversation = q.conversation
    /\ p.generation = q.generation
    /\ p.policy = q.policy

Acknowledged(t) == record[t] # None /\ record[t].phase = "acknowledged"

\* prior_sources
PriorSources(p) ==
    UNION {record[t].sources :
             t \in {s \in Tasks : /\ Acknowledged(s)
                                  /\ SameConversation(record[s].packet, p)}}

-----------------------------------------------------------------------------
(* Turns *)

\* load: any record may be written, but only so much is read back.
Readable(t) == record[t] # None => Cardinality(record[t].sources) <= ReadLimit

\* What run_once asks before it takes p up for t: scan and prior_sources read
\* every record, and a turn claimed again must be bound to the same packet.
Claimable(t, p) ==
    /\ ~Acknowledged(t)
    /\ \A s \in Tasks : Readable(s)
    /\ ValidPacket(p, PriorSources(p))
    /\ record[t] # None => record[t].packet = p

NoTask == turn = None /\ UNCHANGED vars

\* A task in the room's hands is leased, first or again; a turn claimed again
\* keeps the sources it was stored with.
Claim(t, p) ==
    /\ turn = None /\ Claimable(t, p)
    /\ turn' = t
    /\ record' = IF record[t] # None THEN record
                 ELSE [record EXCEPT ![t] =
                         [phase |-> "submission-intent", packet |-> p,
                          sources |-> Sources(p) \cup PriorSources(p),
                          cites |-> None]]

\* The citations are known; a reply read again is the one that was stored.
ValidReply(r, cites) ==
    /\ cites \subseteq Sources(r.packet) \cup r.sources
    /\ r.cites \in {None, cites}

Reply(cites) ==
    /\ turn # None
    /\ ValidReply(record[turn], cites)
    /\ record' = [record EXCEPT ![turn] =
                    [phase |-> "completed", packet |-> @.packet,
                     sources |-> @.sources, cites |-> cites]]
    /\ turn' = None

\* Mutant: the record takes the phase of the worker's receipt.
GiveUpAsReceived ==
    /\ turn # None /\ turn' = None
    /\ \/ UNCHANGED record
       \/ record' = [record EXCEPT ![turn].phase = "failed"]

\* A crash, an invalid reply or a lost authority; or the failure of the turn.
GiveUp ==
    /\ turn # None /\ turn' = None
    /\ \/ UNCHANGED record
       \/ record' = [record EXCEPT ![turn].phase = "interrupted"]

\* The room has the reply: told by its answer, or by its receipt later.
Acknowledge(t) ==
    /\ turn = None
    /\ record[t] # None /\ record[t].cites # None
    /\ record' = [record EXCEPT ![t].phase = "acknowledged"]
    /\ UNCHANGED turn

\* Mutant: records with an acknowledgement are looked at again.
QuarantineAny(t) ==
    /\ turn = None
    /\ record[t] # None
    /\ record' = [record EXCEPT ![t].phase = "quarantined"]
    /\ UNCHANGED turn

\* The room has failed the task, or the authority of the turn is lost.
Quarantine(t) ==
    /\ turn = None
    /\ record[t] # None /\ ~Acknowledged(t)
    /\ record' = [record EXCEPT ![t].phase = "quarantined"]
    /\ UNCHANGED turn

Next ==
    \/ NoTask \/ GiveUp
    \/ \E t \in Tasks, p \in Packets : Claim(t, p)
    \/ \E cites \in Citations : Reply(cites)
    \/ \E t \in Tasks : Acknowledge(t) \/ Quarantine(t)

Spec == Init /\ [][Next]_vars

-----------------------------------------------------------------------------
(* Properties *)

\* What the turns the room has acknowledged showed to the conversation of p,
\* in its generation and under its policy.
Disclosed(p) ==
    UNION {Sources(record[t].packet) :
             t \in {s \in Tasks : /\ Acknowledged(s)
                                  /\ record[s].packet.conversation = p.conversation
                                  /\ record[s].packet.generation = p.generation
                                  /\ record[s].packet.policy = p.policy}}

\* A stored reply cites only what its own packet, or an acknowledged turn of
\* the same conversation, generation and policy, has shown: nothing that a
\* failed turn, an earlier generation or another policy has seen, whichever
\* turns come in between.
CitesDisclosed ==
    \A t \in Tasks :
        record[t] # None /\ record[t].cites # None =>
            record[t].cites \subseteq
                Sources(record[t].packet) \cup Disclosed(record[t].packet)

\* The decisions a turn works from stand on events that its conversation was
\* shown, so that the agent is never led to sources it may not cite.
DecisionsGrounded ==
    \A t \in Tasks :
        record[t] # None =>
            \A d \in record[t].packet.decisions :
                d.from \subseteq Sources(record[t].packet) \cup Disclosed(record[t].packet)

\* What a conversation was shown before never shrinks: a decision or citation
\* that one turn may use stays usable for all later turns of it.
DisclosureGrows == [][\A p \in Packets : PriorSources(p) \subseteq PriorSources(p)']_vars

\* The comment in run_once: a record that cannot be finished "does not starve
\* other rooms".  A first turn of a conversation that has no records is taken
\* up, whatever the conversations of other rooms have stored.
OtherRoomsClaim ==
    turn = None =>
        \A t \in Tasks, p \in Packets :
            /\ record[t] = None /\ ValidPacket(p, {})
            /\ \A s \in Tasks :
                 record[s] # None => record[s].packet.conversation # p.conversation
            => Claimable(t, p)
=============================================================================
