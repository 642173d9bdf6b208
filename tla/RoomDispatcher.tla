--------------------------- MODULE RoomDispatcher ---------------------------
(***************************************************************************)
(* The dispatcher of deterministic room tasks (src/dispatcher.rs) with the *)
(* A2A adapter (src/a2a_adapter.rs) that feeds it: run_once claims one     *)
(* task, reads its context again, lets the reference agent stream four     *)
(* events over a channel of capacity 1, and submits each to the room, with *)
(* the same update again and again until it is answered or the packet is   *)
(* over.  Nothing is stored: a task that is claimed again starts afresh.   *)
(*                                                                         *)
(* The adapter runs only while run_once waits in its select, so its steps  *)
(* are taken at "select".  A claim and a context read are one step.  An    *)
(* update is one step when it is answered; when it is not it stays in      *)
(* "net" and the room may still handle it at any later moment, or never.   *)
(* Texts, results and bindings are abstracted: validate_event and          *)
(* validate_agent_event accept exactly the four events in their order.     *)
(***************************************************************************)
EXTENDS Naturals, FiniteSets

CONSTANTS
    Tasks,       \* deterministic tasks of the room
    None,        \* an absent value
    MaxLeases    \* bound: leases the room broker issues per task

ASSUME DispatcherConstants == None \notin Tasks /\ MaxLeases \in Nat \ {0}

VARIABLES
    pc,        \* where run_once stands; "ended": run_forever returned an error
    task,      \* the claimed task
    lease,     \* the lease its packet came with
    sent,      \* events the adapter has sent
    chan,      \* events in the channel
    ended,     \* the invocation returned Ok (invocation_done)
    received,  \* events run_once took from the channel
    terminal,  \* the completed event was one of them
    update,    \* the update being submitted
    room,      \* task -> updates the room accepted
    broker,    \* task -> its lease in the room broker
    net,       \* update requests nobody waits for any more
    calm       \* TRUE once requests are no longer lost and nothing crashes

invocation == <<sent, chan, ended, received, terminal>>
memory == <<pc, task, lease, invocation, update>>
world == <<room, broker, net, calm>>
vars == <<memory, world>>

-----------------------------------------------------------------------------
(* Types *)

Codes == {"invalid_task_input", "execution_failed"}

\* occurred_at is the time of the invocation (0) or, of a packet that does
\* not hold it, the time the packet was issued under its lease.
Updates ==
    [kind : {"progressed"}, ordinal : 0..2, at : 0..MaxLeases] \cup
    [kind : {"succeeded"}, ordinal : {3}, at : 0..MaxLeases] \cup
    [kind : Codes, ordinal : 0..4, at : 0..MaxLeases]

ASSUME NoneIsNoUpdate == None \notin Updates

\* deterministic_update_id hashes these, and the task.
UpdateId(u) == <<u.ordinal, u.kind>>

Leases == [lease : 0..MaxLeases, over : BOOLEAN, revoked : BOOLEAN]
Posts == [task : Tasks, lease : 1..MaxLeases, update : Updates]

TypeOK ==
    /\ pc \in {"idle", "fetch", "select", "submit", "ended"}
    /\ task \in Tasks \cup {None}
    /\ lease \in 0..MaxLeases
    /\ sent \in 0..4 /\ chan \subseteq 0..3 /\ ended \in BOOLEAN
    /\ received \in 0..4 /\ terminal \in BOOLEAN
    /\ update \in Updates \cup {None}
    /\ room \in [Tasks -> SUBSET Updates]
    /\ broker \in [Tasks -> Leases]
    /\ net \subseteq Posts
    /\ calm \in BOOLEAN

NoInvocation == sent = 0 /\ chan = {} /\ ended = FALSE /\ received = 0 /\ terminal = FALSE

Init ==
    /\ pc = "idle" /\ task = None /\ lease = 0 /\ NoInvocation /\ update = None
    /\ room = [t \in Tasks |-> {}]
    /\ broker = [t \in Tasks |-> [lease |-> 0, over |-> FALSE, revoked |-> FALSE]]
    /\ net = {}
    /\ calm = FALSE

-----------------------------------------------------------------------------
(* What the room broker answers *)

Settled(t) == \E u \in room[t] : u.kind # "progressed"

LeaseHolds(t, l) == broker[t].lease = l /\ ~broker[t].over /\ ~broker[t].revoked

\* Duplicates are compared with what was accepted; the rest needs the lease.
Takes(t, l, u) ==
    \/ u \in room[t]
    \/ /\ LeaseHolds(t, l) /\ ~Settled(t)
       /\ \A v \in room[t] : UpdateId(v) # UpdateId(u)

Applied(t, l, u) ==
    IF Takes(t, l, u) THEN [room EXCEPT ![t] = @ \cup {u}] ELSE room

Claimable(t) ==
    /\ ~Settled(t) /\ ~broker[t].revoked
    /\ broker[t].lease = 0 \/ broker[t].over
    /\ broker[t].lease < MaxLeases

-----------------------------------------------------------------------------
(* Ends of a step of run_once *)

\* The packet in hand is past its expires_at.
Over == broker[task].lease # lease \/ broker[task].over

\* The next call starts from nothing, after run_forever's sleep or never.
Leave(step) ==
    /\ pc' = step /\ task' = None /\ lease' = 0 /\ update' = None
    /\ sent' = 0 /\ chan' = {} /\ ended' = FALSE
    /\ received' = 0 /\ terminal' = FALSE

Return == Leave("idle")

Submit(u) == pc' = "submit" /\ update' = u /\ UNCHANGED <<task, lease>>

\* The time the packet of this lease was issued (and a mutant of InvokedAt).
IssuedAt == lease

\* The time of the invocation outlives the lease.
InvokedAt == 0

Progress(n) == [kind |-> "progressed", ordinal |-> n, at |-> InvokedAt]
Success == [kind |-> "succeeded", ordinal |-> 3, at |-> InvokedAt]
Failure(code, n, at) == [kind |-> code, ordinal |-> n, at |-> at]

\* submit_failure; the stream is dropped when run_once has returned.
Fail(code, n, at) == Submit(Failure(code, n, at)) /\ UNCHANGED invocation

-----------------------------------------------------------------------------
(* The claim and the context packet *)

NoTask ==
    /\ pc = "idle" /\ \A t \in Tasks : ~Claimable(t)
    /\ UNCHANGED vars

\* The answer may be lost (retryable), or be no claim (the process ends).
Claim ==
    /\ pc = "idle"
    /\ \E t \in Tasks :
         /\ Claimable(t)
         /\ broker' = [broker EXCEPT ![t] =
                          [lease |-> @.lease + 1, over |-> FALSE, revoked |-> FALSE]]
         /\ \/ /\ pc' = "fetch" /\ task' = t /\ lease' = broker'[t].lease
               /\ UNCHANGED <<invocation, update>>
            \/ ~calm /\ \E step \in {"idle", "ended"} : Leave(step)
    /\ UNCHANGED <<room, net, calm>>

ClaimRejected ==
    /\ pc = "idle" /\ ~calm
    /\ Leave("ended")
    /\ UNCHANGED world

\* verify_packet refuses an expired packet; a failure about a packet that is
\* not verified may lack the time of the invocation.
Fetch ==
    /\ pc = "fetch"
    /\ \/ /\ ~Over
          /\ pc' = "select"
          /\ UNCHANGED <<task, lease, invocation, update>>
       \/ \E code \in Codes, at \in {InvokedAt, IssuedAt} : Fail(code, 0, at)
    /\ UNCHANGED world

-----------------------------------------------------------------------------
(* The invocation, polled in the select *)

\* Mutant: try_send, which does not wait for room in the channel.
AdapterTriesToSend ==
    /\ pc = "select" /\ ~ended /\ sent < 4
    /\ sent' = sent + 1
    /\ chan' = IF chan = {} THEN {sent} ELSE chan
    /\ UNCHANGED <<pc, task, lease, ended, received, terminal, update, world>>

\* Mutant: the adapter admits a fifth event.
AdapterSendsMore ==
    /\ pc = "select" /\ ~ended /\ chan = {}
    /\ sent' = sent + 1 /\ chan' = {sent}
    /\ UNCHANGED <<pc, task, lease, ended, received, terminal, update, world>>

\* The adapter admits the agent's next event; the result of the last one is
\* computed again from the packet, which must not be over.
AdapterSends ==
    /\ pc = "select" /\ ~ended /\ sent < 4 /\ chan = {}
    /\ sent = 3 => ~Over
    /\ sent' = sent + 1 /\ chan' = {sent}
    /\ UNCHANGED <<pc, task, lease, ended, received, terminal, update, world>>

\* The stream ends after four events; the last may still be in the channel.
AdapterEnds ==
    /\ pc = "select" /\ ~ended /\ sent = 4
    /\ ended' = TRUE
    /\ UNCHANGED <<pc, task, lease, sent, chan, received, terminal, update, world>>

\* Mutant: an invocation that does not end is waited for.
InvocationUntimed ==
    /\ pc = "select" /\ ~ended /\ ~calm
    /\ Fail("execution_failed", received, InvokedAt)
    /\ UNCHANGED world

\* Mutant: the failed invocation is logged and not reported.
InvocationIgnored ==
    /\ pc = "select" /\ ~ended
    /\ Return
    /\ UNCHANGED world

\* An error, or the timeout; it may win over an event in the channel.
InvocationFails ==
    /\ pc = "select" /\ ~ended
    /\ Fail("execution_failed", received, InvokedAt)
    /\ UNCHANGED world

\* Admitted only in its turn; the completed event is kept for the end.
Admitted(n) == n = received /\ (n = 3 => ~Over)

Receive ==
    /\ pc = "select"
    /\ \E n \in chan :
         \/ /\ ~Admitted(n)
            /\ Fail("execution_failed", received, InvokedAt)
         \/ /\ Admitted(n) /\ n < 3
            /\ Submit(Progress(n))
            /\ chan' = {} /\ received' = received + 1
            /\ UNCHANGED <<sent, ended, terminal>>
         \/ /\ Admitted(n) /\ n = 3
            /\ chan' = {} /\ received' = 4 /\ terminal' = TRUE
            /\ UNCHANGED <<pc, task, lease, sent, ended, update>>
    /\ UNCHANGED world

Drained ==
    /\ pc = "select" /\ ended /\ chan = {}
    /\ IF terminal /\ received = 4
       THEN Submit(Success) /\ UNCHANGED invocation
       ELSE Fail("execution_failed", received, InvokedAt)
    /\ UNCHANGED world

-----------------------------------------------------------------------------
(* submit: one update until it is answered or the packet is over *)

Accepted ==
    IF update.kind = "progressed"
    THEN /\ pc' = "select" /\ update' = None
         /\ UNCHANGED <<task, lease, invocation>>
    ELSE Return

\* Mutant: a refused progress event is logged and the stream goes on.
RefusedIsLogged == IF update.kind \in Codes THEN Leave("ended") ELSE Accepted

\* DispatchError::Rejected: reported as a failure; of a failure, the end.
Rejected ==
    IF update.kind \in Codes
    THEN Leave("ended")
    ELSE Fail("execution_failed", received, InvokedAt)

\* Mutant: the deadline is looked at for progress only.
ProgressExpired ==
    /\ pc = "submit" /\ Over /\ update.kind = "progressed"
    /\ Return
    /\ UNCHANGED world

\* DispatchError::Broker, from this update and then from its failure too.
SubmitExpired ==
    /\ pc = "submit" /\ Over
    /\ Return
    /\ UNCHANGED world

SubmitAnswered ==
    /\ pc = "submit" /\ Takes(task, lease, update)
    /\ room' = Applied(task, lease, update)
    /\ Accepted
    /\ UNCHANGED <<broker, net, calm>>

\* 4xx: the room's answer, or that of the token endpoint.
SubmitRefused ==
    /\ pc = "submit" /\ (~Takes(task, lease, update) \/ ~calm)
    /\ Rejected
    /\ UNCHANGED world

\* The room handles the update but the body of its answer does not arrive
\* whole: a decode error, which is not retryable.
SubmitGarbled ==
    /\ pc = "submit" /\ Takes(task, lease, update) /\ ~calm
    /\ room' = Applied(task, lease, update)
    /\ Rejected
    /\ UNCHANGED <<broker, net, calm>>

Post == [task |-> task, lease |-> lease, update |-> update]

\* Mutant: an update that was not answered is not submitted again.
UnansweredIsAccepted ==
    /\ pc = "submit" /\ ~calm
    /\ net' = net \cup {Post}
    /\ Accepted
    /\ UNCHANGED <<room, broker, calm>>

\* No answer in 5 s, 429 or 5xx: the same update is submitted again.
SubmitUnanswered ==
    /\ pc = "submit" /\ ~calm
    /\ net' = net \cup {Post}
    /\ UNCHANGED <<memory, room, broker, calm>>

-----------------------------------------------------------------------------

Crash ==
    /\ pc \notin {"idle", "ended"} /\ ~calm
    /\ Return
    /\ UNCHANGED world

\* The container runtime starts the process again.
Restart ==
    /\ pc = "ended"
    /\ Return
    /\ UNCHANGED world

Expire(t) ==
    /\ broker[t].lease > 0 /\ ~broker[t].over
    /\ broker' = [broker EXCEPT ![t].over = TRUE]
    /\ UNCHANGED <<memory, room, net, calm>>

Revoke(t) ==
    /\ ~broker[t].revoked
    /\ broker' = [broker EXCEPT ![t].revoked = TRUE]
    /\ UNCHANGED <<memory, room, net, calm>>

LateUpdate ==
    /\ \E m \in net :
         /\ room' = Applied(m.task, m.lease, m.update)
         /\ net' = net \ {m}
    /\ UNCHANGED <<memory, broker, calm>>

CalmDown == ~calm /\ calm' = TRUE /\ UNCHANGED <<memory, room, broker, net>>

Adapter == AdapterSends \/ AdapterEnds
Select == InvocationFails \/ Receive \/ Drained
Submitting == \/ SubmitExpired \/ SubmitAnswered \/ SubmitRefused
              \/ SubmitGarbled \/ SubmitUnanswered
Dispatcher == NoTask \/ Claim \/ ClaimRejected \/ Fetch \/ Select \/ Submitting

Next == \/ Dispatcher \/ Adapter \/ Crash \/ Restart \/ LateUpdate \/ CalmDown
        \/ \E t \in Tasks : Expire(t) \/ Revoke(t)

Spec == Init /\ [][Next]_vars

\* run_once goes on by itself, but an update is only sure to be answered when
\* the network is calm, and nothing is assumed of the agent.
Fairness ==
    /\ WF_vars(Fetch) /\ WF_vars(Select) /\ WF_vars(SubmitExpired)
    /\ WF_vars(calm /\ Submitting)

FairSpec == Spec /\ Fairness

\* What may be assumed besides: that packets come to their end, or that the
\* network recovers.
TimePasses == \A t \in Tasks : WF_vars(Expire(t))
NetworkRecovers == WF_vars(CalmDown)

-----------------------------------------------------------------------------
(* Properties *)

\* While run_once waits for the next event, the room has accepted every
\* progress event it took from the channel, however often it had to ask.
RoomKeepsUp ==
    pc = "select" => \A n \in 0..2 : n < received =>
                       \E u \in room[task] : UpdateId(u) = UpdateId(Progress(n))

\* Under any later lease, and after any crash, an update that the room knows
\* by its id is the same update, so that it is never refused as a conflict.
ReplaysNeverConflict ==
    pc = "submit" =>
        \A v \in room[task] : UpdateId(v) = UpdateId(update) => v = update

\* An invocation that ended well, with its last event perhaps still in the
\* channel, is not taken for an incomplete stream.
NoEventLost == pc = "select" /\ ended /\ chan = {} => received = 4 /\ terminal

\* run_once returns once its packet is over, although the network need never
\* recover, whatever is lost or hangs.
RunOnceReturns ==
    TimePasses =>
        ((pc \in {"fetch", "select", "submit"}) ~> (pc \in {"idle", "ended"}))

\* When the network recovers, a task that was claimed ends in the room, with a
\* success or a failure, unless its lease is lost: also when the agent hangs
\* and the lease never ends.
ClaimedTasksSettle ==
    NetworkRecovers =>
        \A t \in Tasks :
            (calm /\ task = t) ~> (Settled(t) \/ ~LeaseHolds(t, broker[t].lease))

\* tests/dispatcher_test.rs: "The worker must replay the identical update ID
\* while its lease is live so the gateway's duplicate acceptance can finish
\* the task".  No failure follows a success that the room has accepted.
SuccessIsReplayed ==
    pc = "submit" /\ update.kind \in Codes => Success \notin room[task]

-----------------------------------------------------------------------------
(* The dispatcher implements RoomTaskStream *)

Stream == INSTANCE RoomTaskStream WITH
    shown <- [t \in Tasks |->
                {n \in 0..2 : \E u \in room[t] : UpdateId(u) = <<n, "progressed">>}],
    end <- [t \in Tasks |->
              IF \E u \in room[t] : u.kind = "succeeded" THEN "succeeded"
              ELSE IF Settled(t) THEN "failed" ELSE "open"]

\* What the room holds is always three ordered progress events and one end.
ImplementsStream == Stream!Spec
=============================================================================
