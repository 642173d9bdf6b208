----------------------- MODULE ConversationDispatcher -----------------------
(***************************************************************************)
(* The Codex mediator (src/conversation_dispatcher.rs): run_once scans the *)
(* durable records for finished turns, then claims one task from the room  *)
(* broker, has the worker run one turn for it, stores the verified result, *)
(* posts it, and stores the broker's acknowledgement.                      *)
(*                                                                         *)
(* Every HTTP GET is one step: the server answers and the mediator         *)
(* branches.  A POST is one step when it is answered; when it is not, the  *)
(* request stays in "net" and may be handled at any later moment or never. *)
(* A save is one step (temporary file, fsync, rename, fsync), so a crash   *)
(* falls between any two of these.  Failed saves end the process and are   *)
(* crashes.  The broker and the worker are other programs: their actions   *)
(* are what this code may observe of them.                                 *)
(***************************************************************************)
EXTENDS Naturals, FiniteSets

CONSTANTS
    Tasks,        \* conversation tasks of the one agent
    Replies,      \* normalized replies with their runtime binding
    Codes,        \* safe failure codes
    Interrupted,  \* "conversation_interrupted", the default code
    None,         \* an absent value (JSON null, Option::None)
    MaxLeases,    \* bound: leases the broker issues per task
    MaxEpochs,    \* bound: task deadlines the broker sets per task
    EarlyRelease  \* whether the broker may end a lease before the deadline

ASSUME ConstantsAssumption ==
    /\ Interrupted \in Codes
    /\ None \notin Replies \cup Codes \cup Tasks
    /\ Replies \cap Codes = {}
    /\ MaxLeases \in Nat \ {0}
    /\ MaxEpochs \in Nat \ {0}
    /\ EarlyRelease \in BOOLEAN

VARIABLES
    disk,      \* task -> the record stored for it
    pc,        \* where run_once stands
    scanning,  \* TRUE in the recovery scan, FALSE from the claim on
    todo,      \* stored records the scan has still to look at
    cur,       \* the task being worked on
    rec,       \* its record in memory
    reply,     \* what the SendMessage response said
    broker,    \* task -> the room broker's view of it
    worker,    \* task -> the worker's receipt
    net,       \* requests nobody waits for any more, or not yet handled
    sends,     \* history: SendMessage requests made per task
    calm       \* TRUE once requests are no longer lost and nothing crashes

memory == <<pc, scanning, todo, cur, rec, reply>>
vars == <<disk, memory, broker, worker, net, sends, calm>>

-----------------------------------------------------------------------------
(* Types *)

Phases == {"reserved", "submission-intent", "completed", "interrupted",
           "acknowledged", "quarantined"}
Updates ==
    [kind : {"completed"}, value : Replies, id : 1..MaxLeases] \cup
    [kind : {"failed"}, value : Codes, id : 1..MaxLeases]
Records == [phase  : Phases,
            result : Replies \cup {None},
            update : Updates \cup {None},
            ack    : Replies \cup {None},
            lease  : 1..MaxLeases,
            epoch  : 1..MaxEpochs]     \* the binding: all that can change in it

ASSUME NoneIsAbsence == None \notin Records /\ None \notin Updates

Receipts == [phase : {"none", "running", "completed", "failed", "interrupted"},
             out   : Replies \cup Codes \cup {None},
             acked : BOOLEAN]
BrokerTasks == [state   : {"open", "completed", "failed"},
                out     : Replies \cup Codes \cup {None},
                lease   : 0..MaxLeases,
                leased  : BOOLEAN,
                epoch   : 1..MaxEpochs,
                expired : BOOLEAN,
                revoked : BOOLEAN]

SendMessage(t) == [kind |-> "SendMessage", task |-> t]
CancelTask(t) == [kind |-> "CancelTask", task |-> t]
Ack(t, a) == [kind |-> "ack", task |-> t, ack |-> a]
Post(t, l, u) == [kind |-> "update", task |-> t, lease |-> l, update |-> u]

Requests == [kind : {"SendMessage", "CancelTask"}, task : Tasks] \cup
            [kind : {"ack"}, task : Tasks, ack : Replies] \cup
            [kind : {"update"}, task : Tasks, lease : 1..MaxLeases,
             update : Updates]

Steps == {"idle", "scan", "receipt", "authority", "quarantine",
          "saveQuarantine", "claim", "workerReceipt", "admit", "saveReserved",
          "saveIntent", "send", "sending", "saveLost", "checkFailure",
          "saveInterrupted", "saveFail", "postFail", "confirm", "authority2",
          "saveCompleted", "post", "ack", "saveAck"}

TypeOK ==
    /\ disk \in [Tasks -> Records \cup {None}]
    /\ pc \in Steps
    /\ scanning \in BOOLEAN
    /\ todo \subseteq Tasks
    /\ cur \in Tasks \cup {None}
    /\ rec \in Records \cup {None}
    /\ reply \in Replies \cup Codes \cup {None}
    /\ broker \in [Tasks -> BrokerTasks]
    /\ worker \in [Tasks -> Receipts]
    /\ net \subseteq Requests
    /\ sends \in [Tasks -> Nat]
    /\ calm \in BOOLEAN

Init ==
    /\ disk = [t \in Tasks |-> None]
    /\ pc = "idle" /\ scanning = FALSE /\ todo = {}
    /\ cur = None /\ rec = None /\ reply = None
    /\ broker = [t \in Tasks |->
                   [state |-> "open", out |-> None, lease |-> 0,
                    leased |-> FALSE, epoch |-> 1, expired |-> FALSE,
                    revoked |-> FALSE]]
    /\ worker = [t \in Tasks |->
                   [phase |-> "none", out |-> None, acked |-> FALSE]]
    /\ net = {}
    /\ sends = [t \in Tasks |-> 0]
    /\ calm = FALSE

-----------------------------------------------------------------------------
(* What the broker and the worker answer *)

\* The lease authorizes the task: what GET authority and POST updates check.
Authorized(t, l, e) ==
    /\ broker[t].state = "open" /\ broker[t].leased
    /\ broker[t].lease = l /\ broker[t].epoch = e
    /\ ~broker[t].expired /\ ~broker[t].revoked

\* A terminal update is applied at most once, under the current lease.
Applied(t, l, u) ==
    IF Authorized(t, l, broker[t].epoch)
    THEN [broker EXCEPT ![t].state = u.kind, ![t].out = u.value]
    ELSE broker

Claimable(t) ==
    /\ broker[t].state = "open" /\ ~broker[t].leased /\ ~broker[t].revoked
    /\ broker[t].lease < MaxLeases

\* receipt_failure: the safe code of a failed or interrupted receipt, or None.
ReceiptFailure(t) ==
    IF worker[t].phase \in {"failed", "interrupted"} THEN worker[t].out ELSE None

\* worker.ack is accepted for the reply the worker's receipt holds.
WorkerAccepts(t, a) == worker[t].phase = "completed" /\ worker[t].out = a
Told(t, a) ==
    IF WorkerAccepts(t, a) THEN [worker EXCEPT ![t].acked = TRUE] ELSE worker

-----------------------------------------------------------------------------
(* Ends of a step of run_once *)

GoTo(step) == pc' = step /\ UNCHANGED <<scanning, todo, cur, rec, reply>>
GoWith(step, r) ==
    /\ pc' = step /\ rec' = r
    /\ UNCHANGED <<scanning, todo, cur, reply>>

\* run_once returns, or the process ends: memory is gone.
Return ==
    /\ pc' = "idle" /\ scanning' = FALSE /\ todo' = {}
    /\ cur' = None /\ rec' = None /\ reply' = None

\* The scan goes on with the next file.
NextFile ==
    /\ pc' = "scan" /\ cur' = None /\ rec' = None
    /\ UNCHANGED <<scanning, todo, reply>>

\* An error other than State: skipped in the scan, returned after the claim.
GiveUp == IF scanning THEN NextFile ELSE Return

Save(r) == disk' = [disk EXCEPT ![cur] = r]

\* CancelTask is sent and its outcome ignored.
Cancel == net' = net \cup {CancelTask(cur)}

\* fail_with_code up to its save: a fresh failed update replaces any other.
FailWithCode(code) ==
    GoWith("saveFail", [rec EXCEPT !.phase = "interrupted",
                                   !.update = [kind |-> "failed",
                                               value |-> code,
                                               id |-> rec.lease]])

-----------------------------------------------------------------------------
(* The recovery scan, and the claim *)

\* Mutant: a quarantined record is looked at again.
Unfinished(r) == r # None /\ r.result # None /\ r.ack = None

Pending(r) == r # None /\ r.result # None /\ r.ack = None /\ r.phase # "quarantined"

RunOnce ==
    /\ pc = "idle"
    /\ pc' = "scan" /\ scanning' = TRUE
    /\ todo' = {t \in Tasks : Pending(disk[t])}
    /\ UNCHANGED <<disk, cur, rec, reply, broker, worker, net, sends, calm>>

LoadNext ==
    /\ pc = "scan"
    /\ \E t \in todo :
         /\ pc' = "receipt" /\ cur' = t /\ rec' = disk[t] /\ todo' = todo \ {t}
    /\ UNCHANGED <<disk, scanning, reply, broker, worker, net, sends, calm>>

ScanDone ==
    /\ pc = "scan" /\ todo = {}
    /\ pc' = "claim" /\ scanning' = FALSE
    /\ UNCHANGED <<disk, todo, cur, rec, reply, broker, worker, net, sends, calm>>

NoTask ==
    /\ pc = "claim" /\ \A t \in Tasks : ~Claimable(t)
    /\ Return
    /\ UNCHANGED <<disk, broker, worker, net, sends, calm>>

LeasedAgain(b, renew) ==
    [b EXCEPT !.lease = b.lease + 1,
              !.leased = TRUE,
              !.epoch = IF renew THEN b.epoch + 1 ELSE b.epoch,
              !.expired = IF renew THEN FALSE ELSE b.expired]

\* The broker leases t; a task whose deadline passed may get a new one.
Lease(t, renew) ==
    /\ Claimable(t)
    /\ renew => broker[t].expired /\ broker[t].epoch < MaxEpochs
    /\ broker' = [broker EXCEPT ![t] = LeasedAgain(broker[t], renew)]

FreshRecord(b) ==
    [phase |-> "reserved", result |-> None, update |-> None, ack |-> None,
     lease |-> b.lease, epoch |-> b.epoch]

\* Mutant: the stored record is not loaded.
TakenUpAfresh(t, b) == FreshRecord(b)

\* The stored record of a task claimed again, under its new lease.
TakenUp(t, b) ==
    IF disk[t] = None THEN FreshRecord(b) ELSE [disk[t] EXCEPT !.lease = b.lease]

\* A stored record is taken up again only if the packet's binding is the same.
Claimed(t) ==
    LET b == broker'[t]
    IN  IF b.expired \/ (disk[t] # None /\ disk[t].epoch # b.epoch)
        THEN Return
        ELSE /\ pc' = "receipt" /\ cur' = t
             /\ rec' = TakenUp(t, b)
             /\ UNCHANGED <<scanning, todo, reply>>

Claim ==
    /\ pc = "claim"
    /\ \E t \in Tasks, renew \in BOOLEAN :
         /\ Lease(t, renew)
         /\ Claimed(t) \/ (~calm /\ Return)   \* the claim may be lost or malformed
    /\ UNCHANGED <<disk, worker, net, sends, calm>>

ClaimFails ==
    /\ pc = "claim" /\ ~calm
    /\ Return
    /\ UNCHANGED <<disk, broker, worker, net, sends, calm>>

-----------------------------------------------------------------------------
(* Broker-first reconciliation, quarantine, and the authority of a task *)

\* Mutant: a record that only waits for the broker ends the whole scan.
StillOpenEndsScan ==
    IF scanning /\ rec.phase # "completed" THEN Return ELSE GoTo("authority")

\* The broker has no outcome yet: the scan replays completed records only.
StillOpen ==
    IF scanning /\ rec.phase # "completed" THEN NextFile ELSE GoTo("authority")

ReconcileBroker ==
    /\ pc = "receipt"
    /\ \/ /\ broker[cur].state = "failed"
          /\ GoTo("quarantine")
       \/ /\ broker[cur].state = "completed"
          /\ IF rec.result = broker[cur].out /\ rec.ack \in {None, rec.result}
             THEN GoTo("ack") ELSE GiveUp
       \/ /\ broker[cur].state = "open"
          /\ StillOpen
       \/ ~calm /\ GiveUp
    /\ UNCHANGED <<disk, broker, worker, net, sends, calm>>

\* Any error but 403, 409 and 410: a record of the scan is looked at again.
AuthorityUnknown ==
    IF scanning THEN NextFile /\ UNCHANGED net ELSE Cancel /\ Return

\* A lost authority quarantines a record of the scan and ends a claim.
AuthorityLost ==
    IF scanning THEN GoTo("quarantine") /\ UNCHANGED net ELSE Cancel /\ Return

CheckAuthority ==
    /\ pc = "authority"
    /\ \/ /\ Authorized(cur, rec.lease, rec.epoch)
          /\ GoTo(IF scanning THEN "post" ELSE "workerReceipt")
          /\ UNCHANGED net
       \/ /\ ~Authorized(cur, rec.lease, rec.epoch)
          /\ AuthorityLost
       \/ ~calm /\ AuthorityUnknown
       \/ ~calm /\ AuthorityLost      \* a 403 of Keycloak, or a clock ahead
    /\ UNCHANGED <<disk, broker, worker, sends, calm>>

Quarantine ==
    /\ pc = "quarantine"
    /\ Cancel
    /\ GoWith("saveQuarantine", [rec EXCEPT !.phase = "quarantined"])
    /\ UNCHANGED <<disk, broker, worker, sends, calm>>

SaveQuarantine ==
    /\ pc = "saveQuarantine"
    /\ Save(rec)
    /\ GiveUp
    /\ UNCHANGED <<broker, worker, net, sends, calm>>

-----------------------------------------------------------------------------
(* One claimed task: what the worker already did with it *)

\* Mutant: the phase of the record is not looked at.
NoResultYet == rec.result = None

\* Nothing says that a turn was, or may have been, asked for.
NeverSubmitted == rec.phase = "reserved" /\ rec.result = None

WorkerReceipt ==
    /\ pc = "workerReceipt"
    /\ \/ /\ worker[cur].phase = "completed"
          /\ IF rec.result \in {None, worker[cur].out}
             THEN GoWith("authority2", [rec EXCEPT !.result = worker[cur].out])
             ELSE Return
          /\ UNCHANGED net
       \/ /\ worker[cur].phase \in {"running", "failed", "interrupted"}
          /\ Cancel
          /\ FailWithCode(IF ReceiptFailure(cur) = None
                          THEN Interrupted ELSE ReceiptFailure(cur))
       \/ /\ worker[cur].phase = "none"
          /\ IF NeverSubmitted
             THEN GoTo("admit") /\ UNCHANGED net
             ELSE Cancel /\ FailWithCode(Interrupted)
       \/ /\ ~calm
          /\ Cancel
          /\ FailWithCode(Interrupted)
    /\ UNCHANGED <<disk, broker, worker, sends, calm>>

\* The worker's card and its model catalog admit the task, or the claim ends.
Admit ==
    /\ pc = "admit"
    /\ GoTo("saveReserved") \/ (~calm /\ Return)
    /\ UNCHANGED <<disk, broker, worker, net, sends, calm>>

SaveReserved ==
    /\ pc = "saveReserved"
    /\ Save(rec)
    /\ GoWith("saveIntent", [rec EXCEPT !.phase = "submission-intent"])
    /\ UNCHANGED <<broker, worker, net, sends, calm>>

\* Mutant: the intent is not stored before the worker is asked.
ForgetIntent ==
    /\ pc = "saveIntent"
    /\ GoTo("send")
    /\ UNCHANGED <<disk, broker, worker, net, sends, calm>>

SaveIntent ==
    /\ pc = "saveIntent"
    /\ Save(rec)
    /\ GoTo("send")
    /\ UNCHANGED <<broker, worker, net, sends, calm>>

Send ==
    /\ pc = "send"
    /\ net' = net \cup {SendMessage(cur)}
    /\ sends' = [sends EXCEPT ![cur] = @ + 1]
    /\ GoTo("sending")
    /\ UNCHANGED <<disk, broker, worker, calm>>

-----------------------------------------------------------------------------
(* The turn: its response races the authority poll of every second *)

\* The reply need not be the one the worker's receipt holds.
Replied ==
    /\ pc = "sending" /\ worker[cur].phase = "completed"
    /\ \/ \E v \in Replies :
            /\ calm => v = worker[cur].out
            /\ pc' = "confirm" /\ reply' = v
            /\ UNCHANGED <<scanning, todo, cur, rec>>
       \/ ~calm /\ Return                       \* not the one-artifact shape
    /\ UNCHANGED <<disk, broker, worker, net, sends, calm>>

\* Mutant: any error text is taken for a code.
RejectedAnyText ==
    /\ pc = "sending" /\ (worker[cur].phase \in {"failed", "interrupted"} \/ ~calm)
    /\ pc' = "checkFailure" /\ reply' \in Codes \cup {None}
    /\ UNCHANGED <<scanning, todo, cur, rec>>
    /\ UNCHANGED <<disk, broker, worker, net, sends, calm>>

\* A JSON-RPC error naming a safe code, true or not.
Rejected ==
    /\ pc = "sending" /\ (worker[cur].phase \in {"failed", "interrupted"} \/ ~calm)
    /\ pc' = "checkFailure" /\ reply' \in Codes
    /\ UNCHANGED <<scanning, todo, cur, rec>>
    /\ UNCHANGED <<disk, broker, worker, net, sends, calm>>

PollAuthority ==
    /\ pc = "sending"
    /\ ~Authorized(cur, rec.lease, rec.epoch) \/ ~calm
    /\ Cancel
    /\ GoWith("saveLost", [rec EXCEPT !.phase = "interrupted"])
    /\ UNCHANGED <<disk, broker, worker, sends, calm>>

SaveLost ==
    /\ pc = "saveLost"
    /\ Save(rec)
    /\ Return
    /\ UNCHANGED <<broker, worker, net, sends, calm>>

Uncertain ==
    /\ Cancel
    /\ GoWith("saveInterrupted", [rec EXCEPT !.phase = "interrupted"])

\* Mutant: no limit on the time the worker takes.
SendFailsAtLast ==
    /\ pc = "sending" /\ worker[cur].phase \in {"failed", "interrupted"}
    /\ Uncertain
    /\ UNCHANGED <<disk, broker, worker, sends, calm>>

\* No response in 185 s, or an error that names no safe code.
SendFails ==
    /\ pc = "sending" /\ (worker[cur].phase # "completed" \/ ~calm)
    /\ Uncertain
    /\ UNCHANGED <<disk, broker, worker, sends, calm>>

\* Mutant: any failed receipt confirms the code of the error.
AnyFailedReceipt == worker[cur].phase \in {"failed", "interrupted"}

\* Only a matching terminal receipt makes the worker's code the task's.
FailureMatches == ReceiptFailure(cur) = reply

CheckFailure ==
    /\ pc = "checkFailure"
    /\ \/ FailureMatches /\ FailWithCode(reply) /\ UNCHANGED net
       \/ (~FailureMatches \/ ~calm) /\ Uncertain
    /\ UNCHANGED <<disk, broker, worker, sends, calm>>

SaveInterrupted ==
    /\ pc = "saveInterrupted"
    /\ Save(rec)
    /\ FailWithCode(Interrupted)
    /\ UNCHANGED <<broker, worker, net, sends, calm>>

SaveFail ==
    /\ pc = "saveFail"
    /\ Save(rec)
    /\ GoTo("postFail")
    /\ UNCHANGED <<broker, worker, net, sends, calm>>

PostFail ==
    /\ pc = "postFail"
    /\ \/ broker' = Applied(cur, rec.lease, rec.update) /\ UNCHANGED net
       \/ /\ ~calm
          /\ net' = net \cup {Post(cur, rec.lease, rec.update)}
          /\ UNCHANGED broker
    /\ Return
    /\ UNCHANGED <<disk, worker, sends, calm>>

-----------------------------------------------------------------------------
(* A verified result: stored, posted, acknowledged *)

\* Mutant: the response is believed once the receipt says completed.
ReceiptCompleted == worker[cur].phase = "completed"

ReceiptConfirms == worker[cur].phase = "completed" /\ worker[cur].out = reply

Confirm ==
    /\ pc = "confirm"
    /\ \/ /\ ReceiptConfirms
          /\ GoWith("authority2", [rec EXCEPT !.result = reply])
       \/ /\ ~ReceiptConfirms \/ ~calm
          /\ Return
    /\ UNCHANGED <<disk, broker, worker, net, sends, calm>>

\* An update already in the record is kept, whatever it says.
CompletedRecord ==
    [rec EXCEPT !.phase = "completed",
                !.update = IF @ = None
                           THEN [kind |-> "completed", value |-> rec.result,
                                 id |-> rec.lease]
                           ELSE @]

CheckAuthorityAgain ==
    /\ pc = "authority2"
    /\ \/ /\ Authorized(cur, rec.lease, rec.epoch)
          /\ GoWith("saveCompleted", CompletedRecord)
          /\ UNCHANGED net
       \/ /\ ~Authorized(cur, rec.lease, rec.epoch) \/ ~calm
          /\ Cancel
          /\ Return
    /\ UNCHANGED <<disk, broker, worker, sends, calm>>

\* Mutant: the update is posted before it is stored.
PostUnsaved ==
    /\ pc = "saveCompleted"
    /\ GoTo("post")
    /\ UNCHANGED <<disk, broker, worker, net, sends, calm>>

SaveCompleted ==
    /\ pc = "saveCompleted"
    /\ Save(rec)
    /\ GoTo("post")
    /\ UNCHANGED <<broker, worker, net, sends, calm>>

\* Mutant: any answer to the update is an acknowledgement.
AnyAnswer == TRUE

\* The broker answers with an acknowledgement once it holds this reply.
Acknowledged ==
    broker'[cur].state = "completed" /\ broker'[cur].out = rec.result

PostUpdate ==
    /\ pc = "post"
    /\ \/ /\ broker' = Applied(cur, rec.lease, rec.update)
          /\ IF Acknowledged THEN GoTo("ack") ELSE GiveUp
          /\ UNCHANGED net
       \/ /\ ~calm
          /\ net' = net \cup {Post(cur, rec.lease, rec.update)}
          /\ UNCHANGED broker
          /\ GiveUp
    /\ UNCHANGED <<disk, worker, sends, calm>>

\* The refusal of a receipt the worker does not have (400 with the code
\* invalid_task_input) is taken for an acceptance.
AckWorker ==
    /\ pc = "ack"
    /\ \/ /\ worker' = Told(cur, rec.result)
          /\ GoWith("saveAck", [rec EXCEPT !.ack = rec.result,
                                           !.phase = "acknowledged"])
          /\ UNCHANGED net
       \/ /\ ~calm \/ ~WorkerAccepts(cur, rec.result)
          /\ net' = net \cup {Ack(cur, rec.result)}
          /\ GiveUp
          /\ UNCHANGED worker
    /\ UNCHANGED <<disk, broker, sends, calm>>

SaveAck ==
    /\ pc = "saveAck"
    /\ Save(rec)
    /\ Return
    /\ UNCHANGED <<broker, worker, net, sends, calm>>

Crash ==
    /\ pc # "idle" /\ ~calm
    /\ Return
    /\ UNCHANGED <<disk, broker, worker, net, sends, calm>>

-----------------------------------------------------------------------------
(* The worker: one turn per task, cancelled or ended by itself *)

Unsaid == <<disk, memory, sends, calm>>

WorkerStart(t) ==
    /\ SendMessage(t) \in net
    /\ net' = net \ {SendMessage(t)}
    /\ worker' = IF worker[t].phase = "none"
                 THEN [worker EXCEPT ![t].phase = "running"] ELSE worker
    /\ UNCHANGED <<Unsaid, broker>>

WorkerEnds(t) ==
    /\ worker[t].phase = "running"
    /\ \/ \E v \in Replies :
            worker' = [worker EXCEPT ![t].phase = "completed", ![t].out = v]
       \/ \E ph \in {"failed", "interrupted"}, c \in Codes \cup {None} :
            worker' = [worker EXCEPT ![t].phase = ph, ![t].out = c]
    /\ UNCHANGED <<Unsaid, broker, net>>

WorkerCancels(t) ==
    /\ CancelTask(t) \in net
    /\ net' = net \ {CancelTask(t)}
    /\ worker' = IF worker[t].phase = "running"
                 THEN [worker EXCEPT ![t].phase = "interrupted",
                                     ![t].out = Interrupted]
                 ELSE worker
    /\ UNCHANGED <<Unsaid, broker>>

WorkerAcked(t) ==
    /\ \E a \in Replies :
         /\ Ack(t, a) \in net
         /\ net' = net \ {Ack(t, a)}
         /\ worker' = Told(t, a)
    /\ UNCHANGED <<Unsaid, broker>>

Worker(t) == WorkerStart(t) \/ WorkerEnds(t) \/ WorkerCancels(t) \/ WorkerAcked(t)

-----------------------------------------------------------------------------
(* The room broker: late updates, deadlines, revocation, the end of a lease *)

BrokerUpdated(t) ==
    /\ \E m \in net :
         /\ m.kind = "update" /\ m.task = t
         /\ broker' = Applied(t, m.lease, m.update)
         /\ net' = net \ {m}
    /\ UNCHANGED <<Unsaid, worker>>

BrokerChanges(t, b) ==
    /\ broker[t].state = "open"
    /\ broker' = [broker EXCEPT ![t] = b]
    /\ UNCHANGED <<Unsaid, worker, net>>

Expire(t) ==
    /\ ~broker[t].expired
    /\ BrokerChanges(t, [broker[t] EXCEPT !.expired = TRUE])

Revoke(t) ==
    /\ ~broker[t].revoked
    /\ BrokerChanges(t, [broker[t] EXCEPT !.revoked = TRUE])

LeaseEnds(t) ==
    /\ broker[t].leased /\ (EarlyRelease \/ broker[t].expired)
    /\ BrokerChanges(t, [broker[t] EXCEPT !.leased = FALSE])

BrokerFails(t) ==
    /\ broker[t].expired \/ broker[t].revoked
    /\ BrokerChanges(t, [broker[t] EXCEPT !.state = "failed"])

Broker(t) == \/ BrokerUpdated(t) \/ Expire(t) \/ Revoke(t)
             \/ LeaseEnds(t) \/ BrokerFails(t)

CalmDown == ~calm /\ calm' = TRUE
            /\ UNCHANGED <<disk, memory, broker, worker, net, sends>>

-----------------------------------------------------------------------------

Scan == RunOnce \/ LoadNext \/ ScanDone
Claiming == NoTask \/ Claim \/ ClaimFails
Reconcile == ReconcileBroker \/ CheckAuthority \/ Quarantine \/ SaveQuarantine
Submit == WorkerReceipt \/ Admit \/ SaveReserved \/ SaveIntent \/ Send
Turn == \/ Replied \/ Rejected \/ PollAuthority \/ SaveLost \/ SendFails
        \/ CheckFailure \/ SaveInterrupted
Fail == SaveFail \/ PostFail
Finish == \/ Confirm \/ CheckAuthorityAgain \/ SaveCompleted
          \/ PostUpdate \/ AckWorker \/ SaveAck

Mediator == \/ Scan \/ Claiming \/ Reconcile \/ Submit \/ Turn \/ Fail \/ Finish

Next == \/ Mediator \/ Crash \/ CalmDown
        \/ \E t \in Tasks : Worker(t) \/ Broker(t)

Spec == Init /\ [][Next]_vars

\* The mediator's loop never stops, and requests stop being lost at some time.
\* Nothing is assumed of the worker, the leases or the deadlines.
Fairness == WF_vars(Mediator) /\ WF_vars(CalmDown)

FairSpec == Spec /\ Fairness

-----------------------------------------------------------------------------
(* Properties *)

Stored(t, phases) == disk[t] # None /\ disk[t].phase \in phases

\* However often the mediator crashes, loses an answer or is given the task
\* again, it asks the worker for at most one provider turn per task.
SendOnce == \A t \in Tasks : sends[t] <= 1

\* The reply the room holds is the one in the worker's receipt: a response
\* that drifted from the receipt never reaches the broker.
RoomHoldsWorkersReply ==
    \A t \in Tasks : broker[t].state = "completed" => WorkerAccepts(t, broker[t].out)

\* The worker is told to let go of a receipt, and a record is acknowledged,
\* only once the room holds that reply.
AcknowledgedAfterRoom ==
    \A t \in Tasks :
        /\ worker[t].acked => broker[t].state = "completed"
        /\ Stored(t, {"acknowledged"}) =>
             /\ worker[t].acked
             /\ disk[t].ack = broker[t].out /\ disk[t].result = broker[t].out

\* A failure code other than the default reaches the room only if the
\* worker's own terminal receipt carries it, whatever an RPC error said.
FailureConfirmed ==
    \A t \in Tasks :
        broker[t].state = "failed" /\ broker[t].out \notin {None, Interrupted}
            => ReceiptFailure(t) = broker[t].out

\* An update still on its way that the broker would apply is the stored one:
\* the mediator never posts an update it could forget in a crash.
UpdateStoredFirst ==
    \A m \in net :
        m.kind = "update" /\ Authorized(m.task, m.lease, broker[m.task].epoch)
            => disk[m.task] # None /\ disk[m.task].update = m.update

\* A stored record never loses the mark that a turn may have been asked for,
\* never changes its result, and is final once acknowledged.
RecordsNeverRegress ==
    [][\A t \in Tasks :
         /\ Stored(t, Phases \ {"reserved"}) => disk'[t].phase # "reserved"
         /\ disk[t] # None /\ disk[t].result # None => disk'[t].result = disk[t].result
         /\ Stored(t, {"acknowledged"}) => disk'[t] = disk[t]]_disk

\* A record that lost its authority, be it because a late update completed the
\* task between two questions to the broker, is not replayed, acknowledged or
\* failed by any later scan: only a claim, under another lease, goes on with it.
QuarantineLasts ==
    [][\A t \in Tasks :
         Stored(t, {"quarantined"}) /\ disk'[t] # disk[t]
             => disk'[t].lease # disk[t].lease]_disk

\* Every call of run_once returns, even if the worker never answers.
RunOnceReturns == (pc # "idle") ~> (pc = "idle")

\* Once requests get through, a stored result does not stay in between.
ResultsSettle ==
    \A t \in Tasks : Stored(t, {"completed"}) ~>
                       Stored(t, {"acknowledged", "quarantined", "interrupted"})

\* Records that cannot be finished do not keep other tasks from being claimed.
NoStarvation == \A t \in Tasks : Claimable(t) ~> ~Claimable(t)

\* docs/verification/codex-mediation.md says "Lost authority cancels bound
\* work."  Also the work of a turn that a restart made the mediator forget.
LostAuthorityCancels ==
    \A t \in Tasks :
        (/\ worker[t].phase = "running" /\ broker[t].revoked
         /\ Stored(t, {"submission-intent"}) /\ cur # t) ~>
        (worker[t].phase # "running" \/ CancelTask(t) \in net)

\* The comment in recover_pending: "Replay only the stored normalized output".
ReplaysStoredOutput ==
    \A t \in Tasks : Stored(t, {"completed"}) =>
        disk[t].update.kind = "completed" /\ disk[t].update.value = disk[t].result

-----------------------------------------------------------------------------
(* The mediator implements ConversationOutcome *)

Outcome == INSTANCE ConversationOutcome WITH
    turns    <- sends,
    produced <- [t \in Tasks |-> worker[t].out],
    outcome  <- [t \in Tasks |-> [state |-> broker[t].state, out |-> broker[t].out]],
    released <- [t \in Tasks |-> worker[t].acked],
    settled  <- [t \in Tasks |-> Stored(t, {"acknowledged"})]

\* Every behaviour of the mediator, crashes and losses included, is one that
\* ConversationOutcome allows.
ImplementsOutcome == Outcome!Spec
=============================================================================
