----------------------- MODULE ConversationLeaseProofs -----------------------
(***************************************************************************)
(* What the mediator keeps if the room broker keeps its leases: a task is  *)
(* not given to anyone again before its deadline, as recover_pending says  *)
(* at line 540.  Then a stored record is never taken up by a claim, and    *)
(* the scan replays only what the turn has come to; for any tasks,         *)
(* replies, codes and bounds.                                              *)
(***************************************************************************)
EXTENDS ConversationOutcomeProofs

\* A lease that is over was over at the deadline, and a record is bound to a
\* deadline the broker has set.
Punctual(t) == broker[t].leased \/ broker[t].lease = 0 \/ broker[t].expired
BoundToPast(t) == disk[t] # None => disk[t].epoch <= broker[t].epoch

\* A completed record is to post its result.
Faithful(r) ==
    r.phase = "completed" =>
        /\ r.update # None
        /\ r.update.kind = "completed" /\ r.update.value = r.result

\* The steps of a claim before there is anything to post.
Undecided == {"receipt", "authority", "workerReceipt", "admit", "saveReserved",
              "saveIntent", "send", "sending", "checkFailure", "confirm", "authority2"}

\* The record at hand is stored under its own lease, or not at all yet.
AtHand(r) ==
    /\ Faithful(r)
    /\ r.epoch <= broker[cur].epoch
    /\ disk[cur] # None => disk[cur].lease = r.lease
    /\ ~scanning /\ pc \in Undecided => r.update = None /\ r.phase # "completed"

LeaseInv ==
    /\ \A t \in Tasks : Punctual(t) /\ BoundToPast(t)
    /\ \A t \in Tasks : disk[t] # None => Faithful(disk[t])
    /\ AtWork => AtHand(rec)

-----------------------------------------------------------------------------
(* The broker *)

\* An update changes neither lease nor deadline.
LEMMA AppliedKeepsLeases ==
  ASSUME IInv, NEW t \in Tasks, NEW l, NEW u, broker' = Applied(t, l, u), NEW s \in Tasks
  PROVE  /\ broker'[s].leased = broker[s].leased /\ broker'[s].lease = broker[s].lease
         /\ broker'[s].expired = broker[s].expired /\ broker'[s].epoch = broker[s].epoch
BY DEF Applied, IInv, TypeOK, BrokerTasks

\* Without early release no step of the broker makes it unpunctual, and
\* deadlines are only ever set anew.
LEMMA BrokerKeeps ==
  ASSUME IInv, ~EarlyRelease, [Next]_vars, NEW s \in Tasks, Punctual(s)
  PROVE  Punctual(s)' /\ broker[s].epoch <= broker'[s].epoch
<1>0. broker[s] \in BrokerTasks /\ broker[s].epoch \in Nat
  BY DEF IInv, TypeOK, BrokerTasks
<1>1. CASE UNCHANGED broker
  BY <1>0, <1>1 DEF Punctual
<1>2. CASE PostFail \/ PostUpdate
  <2>1. cur \in Tasks
    BY <1>2 DEF PostFail, PostUpdate, IInv, Working
  <2> QED BY <1>0, <1>1, <1>2, <2>1, AppliedKeepsLeases DEF PostFail, PostUpdate, Punctual
<1>3. ASSUME NEW t \in Tasks, BrokerUpdated(t) PROVE Punctual(s)' /\ broker[s].epoch <= broker'[s].epoch
  BY <1>0, <1>3, AppliedKeepsLeases DEF BrokerUpdated, Punctual
<1>4. ASSUME NEW t \in Tasks, Expire(t) \/ Revoke(t) \/ LeaseEnds(t) \/ BrokerFails(t)
      PROVE  Punctual(s)' /\ broker[s].epoch <= broker'[s].epoch
  <2>1. CASE s = t
    BY <1>0, <1>4, <2>1 DEF Expire, Revoke, LeaseEnds, BrokerFails, BrokerChanges,
       Punctual, IInv, TypeOK, BrokerTasks
  <2>2. CASE s # t
    BY <1>0, <1>4, <2>2 DEF Expire, Revoke, LeaseEnds, BrokerFails, BrokerChanges,
       Punctual, IInv, TypeOK, BrokerTasks
  <2> QED BY <2>1, <2>2
<1>5. CASE Claim
  <2>1. PICK t \in Tasks, renew \in BOOLEAN : Lease(t, renew)
    BY <1>5 DEF Claim
  <2>2. broker'[s] = IF s = t THEN LeasedAgain(broker[t], renew) ELSE broker[s]
    BY <2>1 DEF Lease, IInv, TypeOK
  <2>3. CASE s = t
    BY <1>0, <2>2, <2>3 DEF LeasedAgain, Punctual, BrokerTasks
  <2>4. CASE s # t
    BY <1>0, <2>2, <2>4 DEF Punctual
  <2> QED BY <2>3, <2>4
<1>6. CASE Scan \/ NoTask \/ ClaimFails \/ Reconcile \/ Submit \/ Turn \/ SaveFail
           \/ Confirm \/ CheckAuthorityAgain \/ SaveCompleted \/ AckWorker \/ SaveAck
           \/ Crash \/ CalmDown \/ UNCHANGED vars
  <2>1. CASE Scan \/ NoTask \/ ClaimFails \/ Reconcile \/ Submit
    BY <1>1, <2>1 DEF Scan, RunOnce, LoadNext, ScanDone, NoTask, ClaimFails, Reconcile,
       ReconcileBroker, CheckAuthority, Quarantine, SaveQuarantine, Submit, WorkerReceipt,
       Admit, SaveReserved, SaveIntent, Send
  <2>2. CASE Turn \/ SaveFail \/ Confirm \/ CheckAuthorityAgain \/ SaveCompleted
    BY <1>1, <2>2 DEF Turn, Replied, Rejected, PollAuthority, SaveLost, SendFails,
       CheckFailure, SaveInterrupted, SaveFail, Confirm, CheckAuthorityAgain, SaveCompleted
  <2>3. CASE AckWorker \/ SaveAck \/ Crash \/ CalmDown \/ UNCHANGED vars
    BY <1>1, <2>3 DEF AckWorker, SaveAck, Crash, CalmDown, vars
  <2> QED BY <1>6, <2>1, <2>2, <2>3
<1>7. ASSUME NEW t \in Tasks, Worker(t) PROVE Punctual(s)' /\ broker[s].epoch <= broker'[s].epoch
  BY <1>1, <1>7 DEF Worker, WorkerStart, WorkerEnds, WorkerCancels, WorkerAcked
<1> QED BY <1>2, <1>3, <1>4, <1>5, <1>6, <1>7 DEF Next, Mediator, Claiming, Fail, Finish, Broker

-----------------------------------------------------------------------------
(* The record at hand *)

\* A step that goes on with a call leaves the lease and the binding of its
\* record alone, and stores nothing but that record.
Continued ==
    /\ cur' = cur /\ scanning' = scanning /\ (disk' = disk \/ Save(rec))
    /\ rec'.lease = rec.lease /\ rec'.epoch = rec.epoch

LEMMA StaysAtHand ==
  ASSUME Agreement, LeaseInv, ~EarlyRelease, [Next]_vars, AtWork, Continued,
         Faithful(rec'),
         ~scanning /\ pc' \in Undecided => rec'.update = None /\ rec'.phase # "completed"
  PROVE  AtHand(rec)'
<1>1. cur \in Tasks /\ rec \in Records /\ AtHand(rec)
  BY DEF Agreement, IInv, Working, AtWork, LeaseInv
<1>2. rec'.epoch <= broker'[cur].epoch
  <2>1. Punctual(cur)
    BY <1>1 DEF LeaseInv
  <2>2. broker[cur].epoch <= broker'[cur].epoch
    BY <1>1, <2>1, BrokerKeeps DEF Agreement
  <2>3. IInv'
    BY NextIInv DEF Agreement
  <2>4. /\ broker[cur].epoch \in Nat /\ broker'[cur].epoch \in Nat /\ rec.epoch \in Nat
    BY <1>1, <2>3 DEF Agreement, IInv, TypeOK, BrokerTasks, Records
  <2> QED BY <1>1, <2>2, <2>4 DEF AtHand, Continued
<1>3. disk'[cur] # None => disk'[cur].lease = rec'.lease
  <2>1. CASE disk' = disk
    BY <1>1, <2>1 DEF AtHand, Continued
  <2>2. CASE Save(rec)
    BY <1>1, <2>2 DEF Save, Continued, Agreement, IInv, TypeOK
  <2> QED BY <2>1, <2>2 DEF Continued
<1>4. Faithful(rec)' /\ cur' = cur /\ scanning' = scanning
  BY DEF Continued, Faithful
<1> QED BY <1>2, <1>3, <1>4 DEF AtHand

\* The record itself is kept.
LEMMA KeptAtHand ==
  ASSUME Agreement, LeaseInv, ~EarlyRelease, [Next]_vars, AtWork,
         UNCHANGED <<cur, scanning, rec>>, disk' = disk \/ Save(rec),
         ~scanning /\ pc' \in Undecided => pc \in Undecided
  PROVE  AtHand(rec)'
<1>1. AtHand(rec)
  BY DEF LeaseInv
<1>2. Continued /\ Faithful(rec')
  BY <1>1 DEF Continued, AtHand
<1>3. ~scanning /\ pc' \in Undecided => rec'.update = None /\ rec'.phase # "completed"
  BY <1>1 DEF AtHand
<1> QED BY <1>2, <1>3, StaysAtHand

\* The record is given a phase other than "completed", and nothing is left to
\* be decided.
LEMMA MarkedAtHand ==
  ASSUME Agreement, LeaseInv, ~EarlyRelease, [Next]_vars, AtWork, Continued,
         rec'.phase # "completed", pc' \notin Undecided
  PROVE  AtHand(rec)'
BY StaysAtHand DEF Faithful

\* A failure is written over whatever the record was to post.
LEMMA FailsAtHand ==
  ASSUME Agreement, LeaseInv, ~EarlyRelease, [Next]_vars, AtWork,
         NEW code, FailWithCode(code), disk' = disk \/ Save(rec)
  PROVE  AtHand(rec)'
<1>1. rec \in Records
  BY DEF Agreement, IInv, Working, AtWork
<1>2. /\ Continued /\ rec'.phase # "completed" /\ pc' \notin Undecided
  BY <1>1 DEF FailWithCode, GoWith, Continued, Records, Undecided
<1> QED BY <1>2, MarkedAtHand

LEMMA ReconcileAtHand ==
  ASSUME Agreement, LeaseInv, ~EarlyRelease, [Next]_vars, Reconcile, AtWork'
  PROVE  AtHand(rec)'
<1>0. AtWork /\ rec \in Records
  BY DEF Reconcile, ReconcileBroker, CheckAuthority, Quarantine, SaveQuarantine, AtWork,
     Agreement, IInv, Working
<1>1. CASE ReconcileBroker
  <2>1. UNCHANGED <<disk, cur, scanning, rec>> /\ pc' \in {"quarantine", "ack", "authority"}
    BY <1>1 DEF ReconcileBroker, GoTo, GiveUp, StillOpen, NextFile, Return, AtWork
  <2> QED BY <1>0, <1>1, <2>1, KeptAtHand DEF ReconcileBroker, Undecided
<1>2. CASE CheckAuthority
  <2>1. /\ UNCHANGED <<disk, cur, scanning, rec>> /\ pc = "authority"
    BY <1>2 DEF CheckAuthority, AuthorityUnknown, AuthorityLost, GoTo, NextFile, Return, AtWork
  <2> QED BY <1>0, <2>1, KeptAtHand DEF Undecided
<1>3. CASE Quarantine
  <2>1. Continued /\ rec'.phase = "quarantined" /\ pc' = "saveQuarantine"
    BY <1>0, <1>3 DEF Quarantine, GoWith, Continued, Records
  <2> QED BY <1>0, <2>1, MarkedAtHand DEF Undecided
<1>4. ~SaveQuarantine
  BY DEF SaveQuarantine, GiveUp, NextFile, Return, AtWork
<1> QED BY <1>1, <1>2, <1>3, <1>4 DEF Reconcile

LEMMA SubmitAtHand ==
  ASSUME Agreement, LeaseInv, ~EarlyRelease, [Next]_vars, Submit, AtWork'
  PROVE  AtHand(rec)'
<1>0. AtWork /\ rec \in Records /\ ~scanning /\ AtHand(rec) /\ pc \in Undecided
  <2>1. AtWork /\ pc \notin ScanSteps /\ pc \in Undecided
    BY DEF Submit, WorkerReceipt, Admit, SaveReserved, SaveIntent, Send, AtWork,
       ScanSteps, Undecided
  <2> QED BY <2>1, ClaimSteps DEF LeaseInv
<1>1. CASE WorkerReceipt
  <2>1. CASE \E code : FailWithCode(code)
    BY <1>0, <1>1, <2>1, FailsAtHand DEF WorkerReceipt
  <2>2. CASE GoWith("authority2", [rec EXCEPT !.result = worker[cur].out])
    <3>1. Continued /\ rec'.update = rec.update /\ rec'.phase = rec.phase
      BY <1>0, <1>1, <2>2 DEF WorkerReceipt, GoWith, Continued, Records
    <3> QED BY <1>0, <3>1, StaysAtHand DEF AtHand, Faithful
  <2>3. CASE GoTo("admit")
    BY <1>0, <1>1, <2>3, KeptAtHand DEF WorkerReceipt, GoTo
  <2> QED BY <1>1, <2>1, <2>2, <2>3 DEF WorkerReceipt, Return, AtWork
<1>2. CASE Admit \/ SaveIntent \/ Send
  <2>1. UNCHANGED <<cur, scanning, rec>> /\ (disk' = disk \/ Save(rec))
    BY <1>2 DEF Admit, SaveIntent, Send, GoTo, Return, AtWork
  <2> QED BY <1>0, <2>1, KeptAtHand
<1>3. CASE SaveReserved
  <2>1. /\ Continued /\ rec'.update = rec.update /\ rec'.phase = "submission-intent"
    BY <1>0, <1>3 DEF SaveReserved, GoWith, Continued, Records
  <2> QED BY <1>0, <2>1, StaysAtHand DEF AtHand, Faithful
<1> QED BY <1>1, <1>2, <1>3 DEF Submit

LEMMA TurnAtHand ==
  ASSUME Agreement, LeaseInv, ~EarlyRelease, [Next]_vars, Turn, AtWork'
  PROVE  AtHand(rec)'
<1>0. AtWork /\ rec \in Records
  BY DEF Turn, Replied, Rejected, PollAuthority, SaveLost, SendFails, CheckFailure,
     SaveInterrupted, AtWork, Agreement, IInv, Working
<1>1. CASE Replied \/ Rejected
  <2>1. UNCHANGED <<disk, cur, scanning, rec>> /\ pc = "sending"
    BY <1>1 DEF Replied, Rejected, Return, AtWork
  <2> QED BY <1>0, <2>1, KeptAtHand DEF Undecided
<1>2. CASE PollAuthority \/ SendFails \/ (CheckFailure /\ Uncertain)
  <2>1. /\ Continued /\ rec'.phase = "interrupted" /\ pc' \in {"saveLost", "saveInterrupted"}
    BY <1>0, <1>2 DEF PollAuthority, SendFails, CheckFailure, Uncertain, GoWith, Continued, Records
  <2> QED BY <1>0, <2>1, MarkedAtHand DEF Undecided
<1>3. CASE CheckFailure /\ FailWithCode(reply)
  BY <1>0, <1>3, FailsAtHand DEF CheckFailure
<1>4. CASE SaveInterrupted
  BY <1>0, <1>4, FailsAtHand DEF SaveInterrupted
<1>5. ~SaveLost
  BY DEF SaveLost, Return, AtWork
<1> QED BY <1>1, <1>2, <1>3, <1>4, <1>5 DEF Turn, CheckFailure

LEMMA FinishAtHand ==
  ASSUME Agreement, LeaseInv, ~EarlyRelease, [Next]_vars, Fail \/ Finish, AtWork'
  PROVE  AtHand(rec)'
<1>0. AtWork /\ rec \in Records /\ AtHand(rec)
  BY DEF Fail, SaveFail, PostFail, Finish, Confirm, CheckAuthorityAgain, SaveCompleted,
     PostUpdate, AckWorker, SaveAck, AtWork, Agreement, IInv, Working, LeaseInv
<1>1. CASE SaveFail \/ SaveCompleted \/ PostUpdate
  <2>1. /\ UNCHANGED <<cur, scanning, rec>> /\ (disk' = disk \/ Save(rec))
        /\ pc' \in {"postFail", "post", "ack"}
    BY <1>1 DEF SaveFail, SaveCompleted, PostUpdate, GoTo, GiveUp, NextFile, Return, AtWork
  <2> QED BY <1>0, <2>1, KeptAtHand DEF Undecided
<1>2. CASE Confirm
  <2>1. ~scanning /\ pc \in Undecided
    BY <1>0, <1>2, ClaimSteps DEF Confirm, ScanSteps, Undecided
  <2>2. Continued /\ rec'.update = rec.update /\ rec'.phase = rec.phase
    BY <1>0, <1>2 DEF Confirm, GoWith, Return, AtWork, Continued, Records
  <2> QED BY <1>0, <2>1, <2>2, StaysAtHand DEF AtHand, Faithful
<1>3. CASE CheckAuthorityAgain
  <2>1. ~scanning /\ pc \in Undecided /\ rec.result \in Replies
    BY <1>0, <1>3, ClaimSteps DEF CheckAuthorityAgain, ScanSteps, Undecided, Agreement,
       IInv, AtStep
  <2>2. rec.update = None
    BY <1>0, <2>1 DEF AtHand
  <2>3. GoWith("saveCompleted", CompletedRecord) /\ disk' = disk
    BY <1>3 DEF CheckAuthorityAgain, Return, AtWork
  <2>4. /\ rec'.update = [kind |-> "completed", value |-> rec.result, id |-> rec.lease]
        /\ rec'.result = rec.result /\ Continued
    BY <1>0, <2>2, <2>3 DEF GoWith, CompletedRecord, Continued, Records
  <2>5. rec'.update \in Updates
    BY <1>0, <2>1, <2>4 DEF Updates, Records
  <2>6. Faithful(rec')
    BY <2>4, <2>5, NoneIsAbsence DEF Faithful
  <2>7. pc' = "saveCompleted"
    BY <2>3 DEF GoWith
  <2> QED BY <1>0, <2>4, <2>6, <2>7, StaysAtHand DEF Undecided
<1>4. CASE AckWorker
  <2>1. Continued /\ rec'.phase = "acknowledged" /\ pc' = "saveAck"
    BY <1>0, <1>4 DEF AckWorker, GoWith, GiveUp, NextFile, Return, AtWork, Continued, Records
  <2> QED BY <1>0, <2>1, MarkedAtHand DEF Undecided
<1>5. ~PostFail /\ ~SaveAck
  BY DEF PostFail, SaveAck, Return, AtWork
<1> QED BY <1>1, <1>2, <1>3, <1>4, <1>5 DEF Fail, Finish

\* The scan takes a stored record up as it is.
LEMMA LoadNextAtHand ==
  ASSUME Agreement, LeaseInv, LoadNext
  PROVE  AtHand(rec)'
<1>1. PICK t \in todo : cur' = t /\ rec' = disk[t]
  BY DEF LoadNext
<1>2. t \in Tasks /\ disk[t] # None
  BY DEF Agreement, IInv, TypeOK, Contents
<1>3. scanning' /\ UNCHANGED <<disk, broker>>
  BY DEF LoadNext, Agreement, MemoryInv, Scanning
<1> QED BY <1>1, <1>2, <1>3 DEF LeaseInv, BoundToPast, AtHand, Faithful

\* A task that is leased again has a new deadline, to which no stored record is
\* bound: a claim goes on only with a task that has none.
LEMMA ClaimAtHand ==
  ASSUME Agreement, LeaseInv, ~EarlyRelease, Claim, AtWork'
  PROVE  AtHand(rec)' /\ disk[cur'] = None
<1>1. PICK t \in Tasks, renew \in BOOLEAN : Lease(t, renew) /\ Claimed(t)
  BY DEF Claim, Return, AtWork
<1> DEFINE b == broker'[t]
<1>2. /\ ~b.expired /\ (disk[t] # None => disk[t].epoch = b.epoch)
      /\ cur' = t /\ rec' = TakenUp(t, b) /\ UNCHANGED <<disk, scanning>>
  BY <1>1 DEF Claimed, Return, AtWork, Claim
<1>3. b = LeasedAgain(broker[t], renew) /\ broker[t] \in BrokerTasks /\ ~broker[t].leased
  BY <1>1 DEF Lease, Claimable, Agreement, IInv, TypeOK
<1>4. b.epoch \in Nat /\ broker[t].epoch \in Nat /\ broker[t].lease \in Nat
  BY <1>3 DEF LeasedAgain, BrokerTasks
<1>5. ASSUME disk[t] # None PROVE FALSE
  <2>1. disk[t] \in Records /\ disk[t].epoch \in Nat /\ disk[t].lease \in 1..MaxLeases
    BY <1>5 DEF Agreement, IInv, TypeOK, Records
  <2>2. disk[t].lease <= broker[t].lease /\ disk[t].epoch <= broker[t].epoch
    BY <1>5 DEF Agreement, WorldInv, Leases, LeaseInv, BoundToPast
  <2>3. broker[t].expired
    BY <1>3, <1>4, <2>1, <2>2 DEF LeaseInv, Punctual
  <2>4. CASE renew
    BY <1>2, <1>3, <1>4, <1>5, <2>1, <2>2, <2>4 DEF LeasedAgain, BrokerTasks
  <2>5. CASE ~renew
    BY <1>2, <1>3, <2>3, <2>5 DEF LeasedAgain, BrokerTasks
  <2> QED BY <2>4, <2>5
<1>6. rec' = FreshRecord(b) /\ disk'[t] = None
  BY <1>2, <1>5 DEF TakenUp
<1>7. rec'.phase = "reserved" /\ rec'.update = None /\ rec'.epoch = b.epoch
  BY <1>6 DEF FreshRecord
<1> QED BY <1>2, <1>4, <1>5, <1>6, <1>7 DEF AtHand, Faithful

-----------------------------------------------------------------------------
(* The invariant *)

LEMMA StoredByStep ==
  ASSUME Agreement, LeaseInv, ~EarlyRelease, [Next]_vars, NEW t \in Tasks
  PROVE  /\ Punctual(t)' /\ BoundToPast(t)'
         /\ disk'[t] # None => Faithful(disk'[t])
<1>1. Punctual(t)' /\ broker[t].epoch <= broker'[t].epoch
  BY BrokerKeeps DEF LeaseInv, Agreement
<1>2. CASE disk'[t] = disk[t]
  <2>1. broker[t].epoch \in Nat /\ broker'[t].epoch \in Nat
    <3>1. IInv'
      BY NextIInv DEF Agreement
    <3> QED BY <3>1 DEF Agreement, IInv, TypeOK, BrokerTasks
  <2>2. disk[t] # None => disk[t].epoch \in Nat
    BY DEF Agreement, IInv, TypeOK, Records
  <2> QED BY <1>1, <1>2, <2>1, <2>2 DEF LeaseInv, BoundToPast
<1>3. CASE disk'[t] # disk[t]
  <2>1. AtWork /\ Save(rec) /\ UNCHANGED broker
    BY <1>3, DiskStep
  <2>2. t = cur /\ disk'[t] = rec
    BY <1>3, <2>1 DEF Save, Agreement, IInv, TypeOK
  <2> QED BY <1>1, <2>1, <2>2 DEF LeaseInv, AtHand, BoundToPast
<1> QED BY <1>2, <1>3

LEMMA HeldByStep ==
  ASSUME Agreement, LeaseInv, ~EarlyRelease, [Next]_vars, AtWork'
  PROVE  AtHand(rec)'
<1>1. CASE Scan
  BY <1>1, LoadNextAtHand DEF Scan, RunOnce, ScanDone, AtWork
<1>2. CASE Claiming
  BY <1>2, ClaimAtHand DEF Claiming, NoTask, ClaimFails, Return, AtWork
<1>3. CASE Reconcile \/ Submit \/ Turn \/ Fail \/ Finish
  BY <1>3, ReconcileAtHand, SubmitAtHand, TurnAtHand, FinishAtHand
<1>4. ~Crash
  BY DEF Crash, Return, AtWork
<1>5. CASE UNCHANGED <<disk, memory>>
  <2>1. AtWork /\ UNCHANGED <<pc, cur, scanning, rec>>
    BY <1>5 DEF memory, AtWork
  <2> QED BY <1>5, <2>1, KeptAtHand
<1>6. CASE CalmDown \/ UNCHANGED vars
  BY <1>5, <1>6 DEF CalmDown, vars
<1>7. ASSUME NEW t \in Tasks, Worker(t) \/ Broker(t) PROVE UNCHANGED <<disk, memory>>
  BY <1>7 DEF Worker, WorkerStart, WorkerEnds, WorkerCancels, WorkerAcked, Broker,
     BrokerUpdated, Expire, Revoke, LeaseEnds, BrokerFails, BrokerChanges, Unsaid
<1> QED BY <1>1, <1>2, <1>3, <1>4, <1>5, <1>6, <1>7 DEF Next, Mediator

\* With punctual leases, what is stored is bound to a deadline and, once
\* completed, is to post its result; so is the record at hand.
THEOREM Punctuality ==
  ASSUME ~EarlyRelease
  PROVE  Spec => []LeaseInv
<1>1. Init => LeaseInv
  BY DEF Init, LeaseInv, Punctual, BoundToPast, AtWork
<1>2. Agreement /\ LeaseInv /\ [Next]_vars => LeaseInv'
  BY StoredByStep, HeldByStep DEF LeaseInv
<1> QED BY <1>1, <1>2, Agrees, PTL DEF Spec

-----------------------------------------------------------------------------
(* What follows *)

\* The scan replays "only the stored normalized output" (line 540) if the broker
\* keeps its leases: the failed update that the run without this assumption
\* finds in a completed record needs a lease that ended early.
THEOREM ReplaysOutput ==
  ASSUME ~EarlyRelease
  PROVE  Spec => []ReplaysStoredOutput
<1>1. LeaseInv => ReplaysStoredOutput
  BY DEF LeaseInv, Faithful, ReplaysStoredOutput, Stored
<1> QED BY <1>1, Punctuality, PTL

\* A record stays under the lease that it was stored with.
RecordsKeepTheirLease ==
    [][\A t \in Tasks : disk[t] # None => disk'[t].lease = disk[t].lease]_disk

\* Then no claim ever takes a stored record up (run_once, lines 608 to 626): all
\* recovery is that of the scan, under the lease of the first claim.
THEOREM NeverTakenUp ==
  ASSUME ~EarlyRelease
  PROVE  Spec => RecordsKeepTheirLease
<1>1. ASSUME Agreement, LeaseInv, [Next]_vars, disk' # disk, NEW t \in Tasks, disk[t] # None
      PROVE  disk'[t].lease = disk[t].lease
  <2>1. AtWork /\ Save(rec) /\ AtHand(rec)
    BY <1>1, DiskStep DEF LeaseInv
  <2>2. disk'[t] = IF t = cur THEN rec ELSE disk[t]
    BY <1>1, <2>1 DEF Save, Agreement, IInv, TypeOK
  <2> QED BY <1>1, <2>1, <2>2 DEF AtHand
<1>2. Agreement /\ LeaseInv /\ [Next]_vars =>
        [\A t \in Tasks : disk[t] # None => disk'[t].lease = disk[t].lease]_disk
  BY <1>1
<1> QED BY <1>2, Agrees, Punctuality, PTL DEF Spec, RecordsKeepTheirLease

\* And a task that was quarantined, even by mistake, is never looked at again
\* (recover_pending, line 568).
QuarantineIsFinal ==
    [][\A t \in Tasks : Stored(t, {"quarantined"}) => disk'[t] = disk[t]]_disk

THEOREM GivenUpForGood ==
  ASSUME ~EarlyRelease
  PROVE  Spec => QuarantineIsFinal
<1>1. ASSUME Agreement, LeaseInv, [Next]_vars, disk' # disk, NEW t \in Tasks,
             Stored(t, {"quarantined"})
      PROVE  disk'[t] = disk[t]
  <2>1. AtWork /\ Save(rec) /\ AtHand(rec) /\ Continues(rec)
    BY <1>1, DiskStep DEF LeaseInv, Agreement, MemoryInv
  <2>2. t # cur
    <3>1. SUFFICES ASSUME t = cur PROVE FALSE
      OBVIOUS
    <3>2. disk[cur].lease < rec.lease /\ disk[cur].lease = rec.lease
      BY <1>1, <2>1, <3>1 DEF Continues, AtHand, Stored
    <3>3. rec.lease \in Nat
      BY <1>1, <2>1 DEF Agreement, IInv, Working, AtWork, Records
    <3> QED BY <3>2, <3>3
  <2> QED BY <2>1, <2>2 DEF Save, Agreement, IInv, TypeOK
<1>2. Agreement /\ LeaseInv /\ [Next]_vars =>
        [\A t \in Tasks : Stored(t, {"quarantined"}) => disk'[t] = disk[t]]_disk
  BY <1>1
<1> QED BY <1>2, Agrees, Punctuality, PTL DEF Spec, QuarantineIsFinal
=============================================================================
