---------------------- MODULE ConversationOutcomeProofs ----------------------
(***************************************************************************)
(* Proofs that the mediator keeps its promises: what the room, the worker  *)
(* and the stored records say of a task agrees, stored records never go    *)
(* back, and the mediator implements ConversationOutcome; for any tasks,   *)
(* replies, codes and bounds.                                              *)
(***************************************************************************)
EXTENDS ConversationDispatcherProofs

-----------------------------------------------------------------------------
(* What the stored records, the two servers and the requests on their way   *)
(* say of each other                                                        *)

\* The worker has nothing to say before its turn ends, and has a turn only if
\* it was asked for one; the room has nothing to say before the task ends.
Turns ==
    \A t \in Tasks :
        /\ worker[t].phase \in {"none", "running"} => worker[t].out = None
        /\ worker[t].phase = "running" \/ SendMessage(t) \in net => sends[t] = 1
        /\ broker[t].state = "open" => broker[t].out = None

\* An update says what the worker's receipt says, or nothing in particular.
SoundUpdate(t, u) ==
    /\ u.kind = "completed" => WorkerAccepts(t, u.value)
    /\ u.kind = "failed" => u.value \in {Interrupted, ReceiptFailure(t)}

SoundRecord(t, r) ==
    /\ r.result # None => WorkerAccepts(t, r.result)
    /\ r.update # None => SoundUpdate(t, r.update)

SoundRoom(t) ==
    /\ broker[t].state = "completed" => WorkerAccepts(t, broker[t].out)
    /\ broker[t].state = "failed" => broker[t].out \in {None, Interrupted, ReceiptFailure(t)}

Sound ==
    /\ \A t \in Tasks : SoundRoom(t) /\ (disk[t] # None => SoundRecord(t, disk[t]))
    /\ \A m \in net : m.kind = "update" => SoundUpdate(m.task, m.update)

InRoom(t, v) == broker[t].state = "completed" /\ broker[t].out = v

\* An acknowledgement on its way is of a reply the room holds.
Released ==
    /\ AcknowledgedAfterRoom
    /\ \A m \in net : m.kind = "ack" => InRoom(m.task, m.ack)

\* An update on its way under the lease the broker issued last is the stored
\* one, whether or not the broker would still apply it.
Leases ==
    /\ \A t \in Tasks : disk[t] # None => disk[t].lease <= broker[t].lease
    /\ \A m \in net : m.kind = "update" =>
         /\ m.lease <= broker[m.task].lease
         /\ m.lease = broker[m.task].lease =>
              disk[m.task] # None /\ disk[m.task].update = m.update

WorldInv == Turns /\ Sound /\ Released /\ Leases

-----------------------------------------------------------------------------
(* What the mediator's memory says of all this                              *)

AtWork == pc \notin {"idle", "scan", "claim"}
ScanSteps == {"scan", "receipt", "authority", "quarantine", "saveQuarantine",
              "post", "ack", "saveAck"}

\* The scan has before it records that are neither finished nor given up.
Scanning ==
    /\ scanning => pc \in ScanSteps
    /\ pc = "scan" => scanning
    /\ pc = "claim" => ~scanning
    /\ todo # {} => scanning
    /\ \A t \in todo : ~Stored(t, {"acknowledged", "quarantined"})

\* The record at hand, r, keeps a stored result and replaces no acknowledged
\* record, nor a quarantined one of the same lease.
Continues(r) ==
    /\ SoundRecord(cur, r)
    /\ ~Stored(cur, {"acknowledged"})
    /\ disk[cur] # None /\ disk[cur].result # None => r.result # None
    /\ Stored(cur, {"quarantined"}) => disk[cur].lease < r.lease

\* The scan posts what is stored; a claim posts under a lease of its own.
UnderLease(r) ==
    IF scanning
    THEN /\ cur \notin todo /\ disk[cur] # None
         /\ r.update = disk[cur].update /\ r.lease = disk[cur].lease
    ELSE /\ r.lease = broker[cur].lease
         /\ \A m \in net : m.kind = "update" /\ m.task = cur => m.lease < r.lease

\* What was stored or heard before the steps that rely on it.
Prepared(r) ==
    /\ pc \in {"post", "postFail"} => disk[cur] # None /\ disk[cur].update = r.update
    /\ pc \in {"ack", "saveAck"} => InRoom(cur, r.result)
    /\ pc = "saveAck" => r.ack = r.result /\ worker[cur].acked

MemoryInv ==
    /\ Scanning
    /\ AtWork => Continues(rec) /\ UnderLease(rec) /\ Prepared(rec)

Agreement == IInv /\ WorldInv /\ MemoryInv

-----------------------------------------------------------------------------
(* How the world changes by one step, and that it goes on agreeing          *)

\* A request to cancel says nothing of a result.
LEMMA QuietWorld ==
  ASSUME IInv, WorldInv, net' \subseteq net \cup {CancelTask(cur)},
         UNCHANGED <<disk, broker, worker, sends>>
  PROVE  WorldInv'
<1>1. Turns'
  BY DEF WorldInv, Turns, CancelTask, SendMessage
<1>2. Sound'
  BY DEF WorldInv, Sound, SoundRoom, SoundRecord, SoundUpdate, WorkerAccepts,
         ReceiptFailure, CancelTask
<1>3. Released'
  BY DEF WorldInv, Released, AcknowledgedAfterRoom, Stored, InRoom, CancelTask
<1>4. Leases'
  BY DEF WorldInv, Leases, CancelTask
<1> QED BY <1>1, <1>2, <1>3, <1>4 DEF WorldInv

\* A save stores a record that continues the stored one under its lease.
LEMMA SavedWorld ==
  ASSUME Agreement, AtWork, Save(rec), UNCHANGED <<broker, worker, net, sends>>,
         rec.phase = "acknowledged" => pc = "saveAck"
  PROVE  WorldInv'
<1> USE DEF Agreement
<1>1. /\ cur \in Tasks /\ rec \in Records /\ rec # None
      /\ disk'[cur] = rec /\ \A t \in Tasks \ {cur} : disk'[t] = disk[t]
  BY NoneIsAbsence DEF IInv, TypeOK, Working, AtWork, Save
<1>2. Continues(rec) /\ UnderLease(rec) /\ Prepared(rec)
  BY DEF MemoryInv
<1>3. Turns'
  BY DEF WorldInv, Turns
<1>4. Sound'
  BY <1>1, <1>2 DEF WorldInv, Sound, SoundRoom, SoundRecord, SoundUpdate,
     WorkerAccepts, ReceiptFailure, Continues
<1>5. Released'
  BY <1>1, <1>2 DEF WorldInv, Released, AcknowledgedAfterRoom, Stored, InRoom, Prepared
<1>6. Leases'
  <2>1. rec.lease <= broker[cur].lease
    BY <1>1, <1>2 DEF UnderLease, WorldInv, Leases, IInv, TypeOK, Records, BrokerTasks
  <2>2. ASSUME NEW m \in net, m.kind = "update", m.task = cur,
               m.lease = broker[cur].lease
        PROVE  rec.update = m.update
    <3>1. m.lease \in Nat
      BY <2>2 DEF IInv, TypeOK, Requests
    <3> QED BY <1>1, <1>2, <2>2, <3>1 DEF UnderLease, WorldInv, Leases
  <2> QED BY <1>1, <2>1, <2>2 DEF WorldInv, Leases, IInv, TypeOK, Requests
<1> QED BY <1>3, <1>4, <1>5, <1>6 DEF WorldInv

\* An update that is sound leaves a room that is.
LEMMA AppliedWorld ==
  ASSUME IInv, WorldInv, NEW t \in Tasks, NEW l, NEW u \in Updates, SoundUpdate(t, u),
         broker' = Applied(t, l, u), net' \subseteq net,
         UNCHANGED <<disk, worker, sends>>
  PROVE  WorldInv'
<1>1. CASE broker' = broker
  BY <1>1, QuietWorld
<1>2. CASE broker' # broker
  <2>1. /\ broker[t].state = "open"
        /\ broker' = [broker EXCEPT ![t].state = u.kind, ![t].out = u.value]
    BY <1>2 DEF Applied, Authorized
  <2>2. /\ broker'[t].state = u.kind /\ broker'[t].out = u.value
        /\ \A s \in Tasks : broker'[s].lease = broker[s].lease
        /\ \A s \in Tasks \ {t} : broker'[s] = broker[s]
    BY <2>1 DEF IInv, TypeOK, BrokerTasks
  <2>3. u.kind \in {"completed", "failed"}
    BY DEF Updates
  <2>4. Turns'
    BY <2>2, <2>3 DEF WorldInv, Turns
  <2>5. Sound'
    <3>1. SoundRoom(t)'
      BY <2>2, <2>3 DEF SoundRoom, SoundUpdate, WorkerAccepts, ReceiptFailure
    <3>2. \A s \in Tasks \ {t} : SoundRoom(s)'
      BY <2>2 DEF WorldInv, Sound, SoundRoom, WorkerAccepts, ReceiptFailure
    <3> QED BY <3>1, <3>2 DEF WorldInv, Sound, SoundRecord, SoundUpdate,
               WorkerAccepts, ReceiptFailure
  <2>6. Released'
    <3>1. ~worker[t].acked /\ ~Stored(t, {"acknowledged"})
      BY <2>1 DEF WorldInv, Released, AcknowledgedAfterRoom
    <3>2. \A m \in net : m.kind = "ack" => m.task \in Tasks \ {t}
      BY <2>1 DEF WorldInv, Released, InRoom, IInv, TypeOK, Requests
    <3> QED BY <2>2, <3>1, <3>2 DEF WorldInv, Released, AcknowledgedAfterRoom, Stored, InRoom
  <2>7. Leases'
    BY <2>2 DEF WorldInv, Leases, IInv, TypeOK, Requests
  <2> QED BY <2>4, <2>5, <2>6, <2>7 DEF WorldInv
<1> QED BY <1>1, <1>2

\* A post of the stored update, under the current lease or an older one.
LEMMA PostedWorld ==
  ASSUME Agreement, pc \in {"post", "postFail"},
         net' = net \cup {Post(cur, rec.lease, rec.update)},
         UNCHANGED <<disk, broker, worker, sends>>
  PROVE  WorldInv'
<1>1. /\ cur \in Tasks /\ rec \in Records /\ rec.update \in Updates
      /\ rec.update # None
  BY NoneIsAbsence DEF Agreement, IInv, Working, AtStep
<1>2. Continues(rec) /\ UnderLease(rec) /\ Prepared(rec) /\ WorldInv
  BY DEF Agreement, MemoryInv, AtWork
<1>3. Turns'
  BY <1>2 DEF WorldInv, Turns, Post, SendMessage
<1>4. Sound'
  <2>1. SoundUpdate(cur, rec.update)
    BY <1>1, <1>2 DEF Continues, SoundRecord
  <2> QED BY <1>2, <2>1 DEF WorldInv, Sound, SoundRoom, SoundRecord, SoundUpdate,
             WorkerAccepts, ReceiptFailure, Post
<1>5. Released'
  BY <1>2 DEF WorldInv, Released, AcknowledgedAfterRoom, Stored, InRoom, Post
<1>6. Leases'
  <2>1. rec.lease <= broker[cur].lease
    BY <1>1, <1>2 DEF UnderLease, WorldInv, Leases, Agreement, IInv, TypeOK, Records, BrokerTasks
  <2>2. disk[cur] # None /\ disk[cur].update = rec.update
    BY <1>2 DEF Prepared
  <2> QED BY <1>2, <2>1, <2>2 DEF WorldInv, Leases, Post
<1> QED BY <1>3, <1>4, <1>5, <1>6 DEF WorldInv

\* An acknowledgement of a reply the room holds.
LEMMA AckSentWorld ==
  ASSUME Agreement, pc = "ack", net' = net \cup {Ack(cur, rec.result)},
         UNCHANGED <<disk, broker, worker, sends>>
  PROVE  WorldInv'
<1>1. InRoom(cur, rec.result) /\ WorldInv
  BY DEF Agreement, MemoryInv, AtWork, Prepared
<1>2. Turns'
  BY <1>1 DEF WorldInv, Turns, Ack, SendMessage
<1>3. Sound'
  BY <1>1 DEF WorldInv, Sound, SoundRoom, SoundRecord, SoundUpdate, WorkerAccepts,
              ReceiptFailure, Ack
<1>4. Released'
  BY <1>1 DEF WorldInv, Released, AcknowledgedAfterRoom, Stored, InRoom, Ack
<1>5. Leases'
  BY <1>1 DEF WorldInv, Leases, Ack
<1> QED BY <1>2, <1>3, <1>4, <1>5 DEF WorldInv

\* A worker that is told of a reply the room holds.
LEMMA ToldWorld ==
  ASSUME IInv, WorldInv, NEW t \in Tasks, NEW a, InRoom(t, a),
         worker' = Told(t, a), net' \subseteq net, UNCHANGED <<disk, broker, sends>>
  PROVE  WorldInv'
<1>1. /\ \A s \in Tasks : /\ worker'[s].phase = worker[s].phase
                          /\ worker'[s].out = worker[s].out
                          /\ worker[s].acked => worker'[s].acked
                          /\ worker'[s].acked => worker[s].acked \/ s = t
  BY DEF Told, IInv, TypeOK, Receipts
<1>2. Turns'
  BY <1>1 DEF WorldInv, Turns
<1>3. Sound'
  BY <1>1 DEF WorldInv, Sound, SoundRoom, SoundRecord, SoundUpdate, WorkerAccepts,
              ReceiptFailure, IInv, TypeOK, Requests
<1>4. Released'
  BY <1>1 DEF WorldInv, Released, AcknowledgedAfterRoom, Stored, InRoom
<1>5. Leases'
  BY DEF WorldInv, Leases
<1> QED BY <1>2, <1>3, <1>4, <1>5 DEF WorldInv

\* A worker that starts, ends or cancels its turn leaves every terminal receipt
\* as it was.
ReceiptsKept ==
    \A t \in Tasks :
        /\ worker'[t].acked = worker[t].acked
        /\ worker[t].phase \in {"completed", "failed", "interrupted"} =>
             worker'[t].phase = worker[t].phase /\ worker'[t].out = worker[t].out

\* What was once said of a receipt stays said of it.
LEMMA KeptSound ==
  ASSUME ReceiptsKept, NEW t \in Tasks
  PROVE  /\ \A a : WorkerAccepts(t, a) => WorkerAccepts(t, a)'
         /\ \A u : SoundUpdate(t, u) /\ u.value # None => SoundUpdate(t, u)'
         /\ \A r : SoundRecord(t, r) /\ r.update.value # None => SoundRecord(t, r)'
BY DEF ReceiptsKept, WorkerAccepts, ReceiptFailure, SoundUpdate, SoundRecord

LEMMA KeptWorld ==
  ASSUME IInv, WorldInv, ReceiptsKept, Turns', net' \subseteq net,
         UNCHANGED <<disk, broker, sends>>
  PROVE  WorldInv'
<1>1. Sound'
  <2>1. \A u \in Updates : u.value # None
    BY ConstantsAssumption DEF Updates
  <2>2. \A t \in Tasks : disk[t] # None => SoundRecord(t, disk[t])'
    <3>1. SUFFICES ASSUME NEW t \in Tasks, disk[t] # None
                   PROVE  SoundRecord(t, disk[t])'
      OBVIOUS
    <3>2. disk[t].update = None \/ disk[t].update \in Updates
      BY <3>1 DEF IInv, TypeOK, Records
    <3> QED BY <2>1, <3>1, <3>2, KeptSound DEF WorldInv, Sound, SoundRecord
  <2>3. \A m \in net : m.kind = "update" => SoundUpdate(m.task, m.update)'
    <3>1. \A m \in net : m.kind = "update" => m.task \in Tasks /\ m.update \in Updates
      BY DEF IInv, TypeOK, Requests
    <3> QED BY <2>1, <3>1, KeptSound DEF WorldInv, Sound
  <2>4. \A t \in Tasks : SoundRoom(t)'
    BY KeptSound DEF WorldInv, Sound, SoundRoom, ReceiptsKept, ReceiptFailure, WorkerAccepts
  <2> QED BY <2>2, <2>3, <2>4 DEF Sound
<1>2. Released'
  BY DEF WorldInv, Released, AcknowledgedAfterRoom, Stored, InRoom, ReceiptsKept
<1>3. Leases'
  BY DEF WorldInv, Leases
<1> QED BY <1>1, <1>2, <1>3 DEF WorldInv

-----------------------------------------------------------------------------
(* How the memory changes by one step                                       *)

\* run_once returns, or the scan goes on with the next file.
Leaves == Return \/ (scanning /\ NextFile)

\* Nothing is held of a task that was left.
LEMMA LeftMemory ==
  ASSUME MemoryInv, Leaves, \A t \in todo : disk'[t] = disk[t]
  PROVE  MemoryInv'
BY DEF MemoryInv, Leaves, Return, NextFile, Scanning, ScanSteps, AtWork, Stored

\* A call that leaves its task after a request to cancel it, or after none.
LEMMA LeavesQuietly ==
  ASSUME Agreement, Leaves, IInv', net' \subseteq net \cup {CancelTask(cur)},
         UNCHANGED <<disk, broker, worker, sends>>
  PROVE  Agreement'
BY QuietWorld, LeftMemory DEF Agreement

\* A call that leaves its task after a save.
LEMMA SavesAndLeaves ==
  ASSUME Agreement, AtWork, Save(rec), Leaves, IInv',
         UNCHANGED <<broker, worker, net, sends>>,
         rec.phase = "acknowledged" => pc = "saveAck"
  PROVE  Agreement'
<1>1. todo # {} => cur \notin todo
  BY DEF Agreement, MemoryInv, Scanning, UnderLease
<1>2. \A t \in todo : disk'[t] = disk[t]
  BY <1>1 DEF Agreement, IInv, TypeOK, Working, AtWork, Save
<1> QED BY <1>2, SavedWorld, LeftMemory DEF Agreement

\* A call that goes on with its task, with a record that says no less.
GoesOn ==
    /\ pc' \notin {"idle", "scan", "claim"} /\ UNCHANGED <<scanning, todo, cur>>
    /\ rec'.lease = rec.lease
    /\ rec.result # None => rec'.result # None
    /\ SoundRecord(cur, rec')
    /\ scanning => pc' \in ScanSteps /\ rec'.update = rec.update

LEMMA GoesOnQuietly ==
  ASSUME Agreement, AtWork, GoesOn, IInv', net' \subseteq net \cup {CancelTask(cur)},
         UNCHANGED <<disk, broker, worker, sends>>, Prepared(rec)'
  PROVE  Agreement'
<1>1. Continues(rec) /\ UnderLease(rec) /\ Scanning
  BY DEF Agreement, MemoryInv
<1>2. Scanning'
  BY <1>1 DEF Scanning, GoesOn, Stored
<1>3. Continues(rec)'
  BY <1>1 DEF Continues, GoesOn, Stored, SoundRecord, SoundUpdate, WorkerAccepts, ReceiptFailure
<1>4. UnderLease(rec)'
  BY <1>1 DEF UnderLease, GoesOn, CancelTask
<1> QED BY <1>2, <1>3, <1>4, QuietWorld DEF Agreement, MemoryInv

\* A claim that goes on after a save.
LEMMA SavesAndGoesOn ==
  ASSUME Agreement, AtWork, ~scanning, Save(rec), GoesOn, IInv',
         UNCHANGED <<broker, worker, net, sends>>,
         rec.phase \notin {"acknowledged", "quarantined"}, Prepared(rec)'
  PROVE  Agreement'
<1>1. Continues(rec) /\ UnderLease(rec) /\ Scanning
  BY DEF Agreement, MemoryInv
<1>2. disk'[cur] = rec /\ rec # None
  BY NoneIsAbsence DEF Agreement, IInv, TypeOK, Working, AtWork, Save
<1>3. Scanning'
  BY <1>1 DEF Scanning, GoesOn
<1>4. Continues(rec)'
  BY <1>1, <1>2 DEF Continues, GoesOn, Stored, SoundRecord, SoundUpdate, WorkerAccepts, ReceiptFailure
<1>5. UnderLease(rec)'
  BY <1>1 DEF UnderLease, GoesOn
<1> QED BY <1>3, <1>4, <1>5, SavedWorld DEF Agreement, MemoryInv

\* What the servers do on their own disturbs no call: the lease of a task at
\* work and what the room holds stay.
LEMMA UndisturbedMemory ==
  ASSUME IInv, MemoryInv, net' \subseteq net, UNCHANGED <<disk, memory>>,
         \A t \in Tasks : /\ broker'[t].lease = broker[t].lease
                          /\ \A v : InRoom(t, v) => InRoom(t, v)'
                          /\ worker[t].acked => worker'[t].acked
                          /\ \A r \in Records : SoundRecord(t, r) => SoundRecord(t, r)'
  PROVE  MemoryInv'
<1>1. Scanning'
  BY DEF MemoryInv, Scanning, Stored, memory
<1>2. ASSUME AtWork PROVE (Continues(rec) /\ UnderLease(rec) /\ Prepared(rec))'
  <2>1. cur \in Tasks /\ rec \in Records
    BY <1>2 DEF IInv, Working, AtWork
  <2>2. Continues(rec)'
    BY <1>2, <2>1 DEF MemoryInv, Continues, Stored, memory
  <2>3. UnderLease(rec)'
    BY <1>2, <2>1 DEF MemoryInv, UnderLease, memory
  <2>4. Prepared(rec)'
    BY <1>2, <2>1 DEF MemoryInv, Prepared, memory
  <2> QED BY <2>2, <2>3, <2>4
<1> QED BY <1>1, <1>2 DEF MemoryInv, AtWork, memory

-----------------------------------------------------------------------------
(* The steps of the mediator                                                *)

LEMMA RunOnceAgrees == ASSUME Agreement, RunOnce, IInv' PROVE Agreement'
<1>1. WorldInv'
  BY QuietWorld DEF Agreement, RunOnce
<1>2. MemoryInv'
  <2>1. \A t \in Tasks : Pending(disk[t]) => ~Stored(t, {"acknowledged", "quarantined"})
    <3>1. SUFFICES ASSUME NEW t \in Tasks, Pending(disk[t]), Stored(t, {"acknowledged"})
                   PROVE  FALSE
      BY DEF Pending, Stored
    <3>2. disk[t].ack \in Replies
      BY <3>1 DEF Agreement, WorldInv, Released, AcknowledgedAfterRoom, IInv, Contents
    <3> QED BY <3>1, <3>2, ConstantsAssumption DEF Pending
  <2> QED BY <2>1 DEF MemoryInv, RunOnce, Scanning, ScanSteps, AtWork, Stored
<1> QED BY <1>1, <1>2 DEF Agreement

LEMMA LoadNextAgrees == ASSUME Agreement, LoadNext, IInv' PROVE Agreement'
<1>1. WorldInv'
  BY QuietWorld DEF Agreement, LoadNext
<1>2. scanning /\ UNCHANGED scanning /\ pc' = "receipt"
  BY DEF Agreement, MemoryInv, Scanning, LoadNext
<1>3. Scanning'
  BY <1>2 DEF Agreement, MemoryInv, LoadNext, Scanning, ScanSteps, Stored
<1>4. cur' \in Tasks /\ disk[cur'] # None /\ rec' = disk[cur']
  BY DEF Agreement, IInv, Contents, LoadNext
<1>5. ~Stored(cur', {"acknowledged", "quarantined"}) /\ cur' \notin todo'
  BY DEF Agreement, MemoryInv, Scanning, LoadNext
<1>6. SoundRecord(cur', rec')
  BY <1>4 DEF Agreement, WorldInv, Sound
<1>7. Continues(rec)'
  BY <1>4, <1>5, <1>6 DEF LoadNext, Continues, Stored, SoundRecord, SoundUpdate,
     WorkerAccepts, ReceiptFailure
<1>8. UnderLease(rec)'
  BY <1>2, <1>4, <1>5 DEF LoadNext, UnderLease
<1>9. Prepared(rec)'
  BY <1>2 DEF Prepared
<1> QED BY <1>1, <1>3, <1>7, <1>8, <1>9 DEF Agreement, MemoryInv

LEMMA ScanDoneAgrees == ASSUME Agreement, ScanDone, IInv' PROVE Agreement'
<1>1. WorldInv'
  BY QuietWorld DEF Agreement, ScanDone
<1>2. MemoryInv'
  BY DEF Agreement, MemoryInv, ScanDone, Scanning, AtWork
<1> QED BY <1>1, <1>2 DEF Agreement

LEMMA NoTaskAgrees == ASSUME Agreement, NoTask \/ ClaimFails \/ Crash, IInv' PROVE Agreement'
BY LeavesQuietly DEF NoTask, ClaimFails, Crash, Leaves

LEMMA ReconcileBrokerAgrees ==
  ASSUME Agreement, ReconcileBroker, IInv' PROVE Agreement'
<1> USE DEF ReconcileBroker
<1>1. CASE GiveUp \/ (scanning /\ NextFile)
  BY <1>1, LeavesQuietly DEF GiveUp, Leaves
<1>2. CASE GoTo("quarantine") \/ GoTo("authority")
  <2>1. AtWork /\ GoesOn
    BY <1>2 DEF Agreement, MemoryInv, Continues, AtWork, GoTo, GoesOn, ScanSteps
  <2>2. Prepared(rec)'
    BY <1>2 DEF GoTo, Prepared
  <2> QED BY <2>1, <2>2, GoesOnQuietly
<1>3. CASE GoTo("ack") /\ InRoom(cur, rec.result)
  <2>1. AtWork /\ GoesOn
    BY <1>3 DEF Agreement, MemoryInv, Continues, AtWork, GoTo, GoesOn, ScanSteps
  <2>2. Prepared(rec)'
    BY <1>3 DEF GoTo, Prepared, InRoom
  <2> QED BY <2>1, <2>2, GoesOnQuietly
<1> QED BY <1>1, <1>2, <1>3 DEF StillOpen, InRoom

LEMMA CheckAuthorityAgrees ==
  ASSUME Agreement, CheckAuthority, IInv' PROVE Agreement'
<1> USE DEF CheckAuthority
<1>0. AtWork /\ SoundRecord(cur, rec)
  BY DEF AtWork, Agreement, MemoryInv, Continues
<1>1. CASE Cancel /\ Return
  BY <1>1, LeavesQuietly DEF Cancel, Leaves
<1>2. CASE scanning /\ NextFile /\ UNCHANGED net
  BY <1>2, LeavesQuietly DEF Leaves
<1>3. CASE GoTo("quarantine") /\ UNCHANGED net
  <2>1. GoesOn /\ Prepared(rec)'
    BY <1>0, <1>3 DEF GoTo, GoesOn, ScanSteps, Prepared
  <2> QED BY <1>0, <1>3, <2>1, GoesOnQuietly
<1>4. CASE GoTo(IF scanning THEN "post" ELSE "workerReceipt") /\ UNCHANGED net
  <2>1. GoesOn
    BY <1>0, <1>4 DEF GoTo, GoesOn, ScanSteps
  <2>2. Prepared(rec)'
    BY <1>0, <1>4 DEF GoTo, Agreement, MemoryInv, UnderLease, Prepared
  <2> QED BY <1>0, <1>4, <2>1, <2>2, GoesOnQuietly
<1> QED BY <1>1, <1>2, <1>3, <1>4 DEF AuthorityLost, AuthorityUnknown

LEMMA QuarantineAgrees == ASSUME Agreement, Quarantine, IInv' PROVE Agreement'
<1>1. AtWork /\ SoundRecord(cur, rec)
  BY DEF AtWork, Agreement, MemoryInv, Continues, Quarantine
<1>2. GoesOn /\ Prepared(rec)'
  BY <1>1 DEF Quarantine, GoWith, GoesOn, ScanSteps, Prepared, Agreement, IInv,
     Working, AtWork, Records, SoundRecord
<1> QED BY <1>1, <1>2, GoesOnQuietly DEF Quarantine, Cancel

LEMMA SaveQuarantineAgrees ==
  ASSUME Agreement, SaveQuarantine, IInv' PROVE Agreement'
<1>1. rec.phase = "quarantined"
  BY DEF SaveQuarantine, Agreement, IInv, Marks
<1> QED BY <1>1, SavesAndLeaves DEF SaveQuarantine, GiveUp, Leaves, AtWork

\* A step that the scan never takes is one of a claim, with a record that says
\* no more than the worker's receipt.
LEMMA ClaimSteps ==
  ASSUME Agreement, AtWork, pc \notin ScanSteps
  PROVE  ~scanning /\ cur \in Tasks /\ rec \in Records /\ SoundRecord(cur, rec)
BY DEF Agreement, MemoryInv, Scanning, Continues, IInv, Working, AtWork

\* The failure a claim goes on to post is the default or the receipt's.
LEMMA FailsSoundly ==
  ASSUME Agreement, AtWork, pc \notin ScanSteps, NEW code \in Codes,
         FailWithCode(code), code \in {Interrupted, ReceiptFailure(cur)}
  PROVE  GoesOn /\ Prepared(rec)'
<1>1. ~scanning /\ rec \in Records /\ SoundRecord(cur, rec)
  BY ClaimSteps
<1>2. /\ rec' \in Records /\ rec'.result = rec.result
      /\ pc' = "saveFail" /\ UNCHANGED <<scanning, todo, cur, reply>>
  BY <1>1, FailedRecord
<1>3. /\ rec'.update = [kind |-> "failed", value |-> code, id |-> rec.lease]
      /\ rec'.lease = rec.lease
  BY <1>1 DEF FailWithCode, GoWith, Records
<1>4. SoundRecord(cur, rec')
  BY <1>1, <1>2, <1>3 DEF SoundRecord, SoundUpdate
<1> QED BY <1>1, <1>2, <1>3, <1>4 DEF GoesOn, Prepared

LEMMA WorkerReceiptAgrees ==
  ASSUME Agreement, WorkerReceipt, IInv' PROVE Agreement'
<1> USE DEF WorkerReceipt
<1>1. /\ AtWork /\ pc \notin ScanSteps /\ ~scanning
      /\ cur \in Tasks /\ rec \in Records /\ SoundRecord(cur, rec)
  BY ClaimSteps DEF AtWork, ScanSteps
<1>2. ReceiptFailure(cur) \in Codes \cup {None}
  BY <1>1 DEF ReceiptFailure, Agreement, IInv, Contents
<1>3. CASE /\ worker[cur].phase = "completed" /\ UNCHANGED net
           /\ GoWith("authority2", [rec EXCEPT !.result = worker[cur].out])
  <2>1. /\ rec'.result = worker[cur].out /\ rec'.update = rec.update
        /\ rec'.lease = rec.lease /\ worker[cur].out # None
    BY <1>1, <1>3, ConstantsAssumption DEF GoWith, Records, Agreement, IInv, Contents
  <2>2. GoesOn /\ Prepared(rec)'
    BY <1>1, <1>3, <2>1 DEF GoWith, GoesOn, SoundRecord, WorkerAccepts, Prepared
  <2> QED BY <1>1, <1>3, <2>2, GoesOnQuietly
<1>4. CASE Return /\ UNCHANGED net
  BY <1>4, LeavesQuietly DEF Leaves
<1>5. ASSUME NEW code \in Codes, code \in {Interrupted, ReceiptFailure(cur)},
             FailWithCode(code), Cancel
      PROVE  Agreement'
  BY <1>1, <1>5, FailsSoundly, GoesOnQuietly DEF Cancel
<1>6. CASE GoTo("admit") /\ UNCHANGED net
  <2>1. GoesOn /\ Prepared(rec)'
    BY <1>1, <1>6 DEF GoTo, GoesOn, Prepared
  <2> QED BY <1>1, <1>6, <2>1, GoesOnQuietly
<1> QED BY <1>2, <1>3, <1>4, <1>5, <1>6, ConstantsAssumption

LEMMA AdmitAgrees == ASSUME Agreement, Admit, IInv' PROVE Agreement'
<1> USE DEF Admit
<1>1. CASE GoTo("saveReserved")
  <2>1. AtWork /\ ~scanning /\ SoundRecord(cur, rec)
    BY ClaimSteps DEF AtWork, ScanSteps
  <2>2. GoesOn /\ Prepared(rec)'
    BY <1>1, <2>1 DEF GoTo, GoesOn, Prepared
  <2> QED BY <2>1, <2>2, GoesOnQuietly
<1>2. CASE Return
  BY <1>2, LeavesQuietly DEF Leaves
<1> QED BY <1>1, <1>2

LEMMA SaveReservedAgrees == ASSUME Agreement, SaveReserved, IInv' PROVE Agreement'
<1> USE DEF SaveReserved
<1>1. AtWork /\ ~scanning /\ rec \in Records /\ SoundRecord(cur, rec)
  BY ClaimSteps DEF AtWork, ScanSteps
<1>2. GoesOn /\ Prepared(rec)'
  BY <1>1 DEF GoWith, GoesOn, Prepared, Records, SoundRecord
<1>3. rec.phase = "reserved"
  BY DEF Agreement, IInv, Marks
<1> QED BY <1>1, <1>2, <1>3, SavesAndGoesOn

LEMMA SaveIntentAgrees == ASSUME Agreement, SaveIntent, IInv' PROVE Agreement'
<1> USE DEF SaveIntent
<1>1. AtWork /\ ~scanning /\ SoundRecord(cur, rec)
  BY ClaimSteps DEF AtWork, ScanSteps
<1>2. GoesOn /\ Prepared(rec)'
  BY <1>1 DEF GoTo, GoesOn, Prepared
<1>3. rec.phase = "submission-intent"
  BY DEF Agreement, IInv, Marks
<1> QED BY <1>1, <1>2, <1>3, SavesAndGoesOn

LEMMA SendAgrees == ASSUME Agreement, Send, IInv' PROVE Agreement'
<1> USE DEF Send
<1>1. AtWork /\ ~scanning /\ cur \in Tasks /\ SoundRecord(cur, rec)
  BY ClaimSteps DEF AtWork, ScanSteps
<1>2. sends[cur] = 0
  BY DEF Agreement, IInv, Marks
<1>3. /\ sends'[cur] = 1
      /\ \A t \in Tasks \ {cur} : sends'[t] = sends[t]
  BY <1>1, <1>2 DEF Agreement, IInv, TypeOK
<1>4. Turns'
  BY <1>1, <1>3 DEF Agreement, WorldInv, Turns, SendMessage
<1>5. Sound'
  BY DEF Agreement, WorldInv, Sound, SoundRoom, SoundRecord, SoundUpdate,
         WorkerAccepts, ReceiptFailure, SendMessage
<1>6. Released'
  BY DEF Agreement, WorldInv, Released, AcknowledgedAfterRoom, Stored, InRoom, SendMessage
<1>7. Leases'
  BY DEF Agreement, WorldInv, Leases, SendMessage
<1>8. MemoryInv'
  BY <1>1 DEF Agreement, MemoryInv, Scanning, AtWork, Stored, Continues, UnderLease,
     Prepared, SoundRecord, SoundUpdate, WorkerAccepts, ReceiptFailure, SendMessage, GoTo
<1> QED BY <1>4, <1>5, <1>6, <1>7, <1>8 DEF Agreement, WorldInv

LEMMA RepliedAgrees == ASSUME Agreement, Replied, IInv' PROVE Agreement'
<1> USE DEF Replied
<1>1. CASE pc' = "confirm" /\ UNCHANGED <<scanning, todo, cur, rec>>
  <2>1. AtWork /\ ~scanning /\ SoundRecord(cur, rec)
    BY ClaimSteps DEF AtWork, ScanSteps
  <2>2. GoesOn /\ Prepared(rec)'
    BY <1>1, <2>1 DEF GoesOn, Prepared
  <2> QED BY <2>1, <2>2, GoesOnQuietly
<1>2. CASE Return
  BY <1>2, LeavesQuietly DEF Leaves
<1> QED BY <1>1, <1>2

LEMMA RejectedAgrees == ASSUME Agreement, Rejected, IInv' PROVE Agreement'
<1>1. AtWork /\ ~scanning /\ SoundRecord(cur, rec)
  BY ClaimSteps DEF Rejected, AtWork, ScanSteps
<1>2. GoesOn /\ Prepared(rec)'
  BY <1>1 DEF Rejected, GoesOn, Prepared
<1> QED BY <1>1, <1>2, GoesOnQuietly DEF Rejected

\* Lost authority and a turn that cannot be told to have ended only mark the
\* record.
LEMMA MarkedInterrupted ==
  ASSUME Agreement, AtWork, pc \notin ScanSteps, IInv', Cancel,
         UNCHANGED <<disk, broker, worker, sends>>, NEW step \in {"saveLost", "saveInterrupted"},
         GoWith(step, [rec EXCEPT !.phase = "interrupted"])
  PROVE  Agreement'
<1>1. ~scanning /\ rec \in Records /\ SoundRecord(cur, rec)
  BY ClaimSteps
<1>2. GoesOn /\ Prepared(rec)'
  BY <1>1 DEF GoWith, GoesOn, Prepared, Records, SoundRecord
<1> QED BY <1>2, GoesOnQuietly DEF Cancel

LEMMA PollAuthorityAgrees == ASSUME Agreement, PollAuthority, IInv' PROVE Agreement'
BY MarkedInterrupted DEF PollAuthority, AtWork, ScanSteps

LEMMA SaveLostAgrees == ASSUME Agreement, SaveLost, IInv' PROVE Agreement'
<1>1. rec.phase = "interrupted"
  BY DEF SaveLost, Agreement, IInv, Marks
<1> QED BY <1>1, SavesAndLeaves DEF SaveLost, Leaves, AtWork

LEMMA SendFailsAgrees == ASSUME Agreement, SendFails, IInv' PROVE Agreement'
BY MarkedInterrupted DEF SendFails, Uncertain, AtWork, ScanSteps

LEMMA CheckFailureAgrees == ASSUME Agreement, CheckFailure, IInv' PROVE Agreement'
<1> USE DEF CheckFailure
<1>1. AtWork /\ pc \notin ScanSteps
  BY DEF AtWork, ScanSteps
<1>2. CASE FailureMatches /\ FailWithCode(reply) /\ UNCHANGED net
  <2>1. reply \in Codes /\ reply = ReceiptFailure(cur)
    BY <1>2 DEF FailureMatches, Agreement, IInv, AtStep
  <2>2. GoesOn /\ Prepared(rec)'
    BY <1>1, <1>2, <2>1, FailsSoundly
  <2> QED BY <1>1, <1>2, <2>2, GoesOnQuietly
<1>3. CASE Uncertain
  BY <1>1, <1>3, MarkedInterrupted DEF Uncertain
<1> QED BY <1>2, <1>3

LEMMA SaveInterruptedAgrees == ASSUME Agreement, SaveInterrupted, IInv' PROVE Agreement'
<1> USE DEF SaveInterrupted
<1>1. AtWork /\ pc \notin ScanSteps /\ ~scanning
  BY ClaimSteps DEF AtWork, ScanSteps
<1>2. GoesOn /\ Prepared(rec)'
  BY <1>1, FailsSoundly, ConstantsAssumption
<1>3. rec.phase = "interrupted"
  BY DEF Agreement, IInv, Marks
<1> QED BY <1>1, <1>2, <1>3, SavesAndGoesOn

LEMMA SaveFailAgrees == ASSUME Agreement, SaveFail, IInv' PROVE Agreement'
<1> USE DEF SaveFail
<1>1. AtWork /\ ~scanning /\ cur \in Tasks /\ rec \in Records /\ SoundRecord(cur, rec)
  BY ClaimSteps DEF AtWork, ScanSteps
<1>2. disk'[cur] = rec /\ rec # None
  BY <1>1, NoneIsAbsence DEF Save, Agreement, IInv, TypeOK
<1>3. GoesOn /\ Prepared(rec)'
  BY <1>1, <1>2 DEF GoTo, GoesOn, Prepared
<1>4. rec.phase = "interrupted"
  BY DEF Agreement, IInv, Marks
<1> QED BY <1>1, <1>3, <1>4, SavesAndGoesOn

\* An update that the broker is offered, whether it answers or not, is sound.
LEMMA OfferedUpdate ==
  ASSUME Agreement, pc \in {"post", "postFail"}
  PROVE  cur \in Tasks /\ rec \in Records /\ rec.update \in Updates /\ SoundUpdate(cur, rec.update)
<1>1. cur \in Tasks /\ rec \in Records /\ rec.update \in Updates
  BY DEF Agreement, IInv, Working, AtStep
<1> QED BY <1>1, NoneIsAbsence DEF Agreement, MemoryInv, AtWork, Continues, SoundRecord

LEMMA PostFailAgrees == ASSUME Agreement, PostFail, IInv' PROVE Agreement'
<1> USE DEF PostFail
<1>1. CASE broker' = Applied(cur, rec.lease, rec.update) /\ UNCHANGED net
  BY <1>1, OfferedUpdate, AppliedWorld, LeftMemory DEF Agreement, Leaves
<1>2. CASE net' = net \cup {Post(cur, rec.lease, rec.update)} /\ UNCHANGED broker
  BY <1>2, PostedWorld, LeftMemory DEF Agreement, Leaves
<1> QED BY <1>1, <1>2

LEMMA ConfirmAgrees == ASSUME Agreement, Confirm, IInv' PROVE Agreement'
<1> USE DEF Confirm
<1>1. AtWork /\ ~scanning /\ cur \in Tasks /\ rec \in Records /\ SoundRecord(cur, rec)
  BY ClaimSteps DEF AtWork, ScanSteps
<1>2. CASE ReceiptConfirms /\ GoWith("authority2", [rec EXCEPT !.result = reply])
  <2>1. reply # None
    BY ConstantsAssumption DEF Agreement, IInv, AtStep
  <2>2. rec'.result = reply /\ rec'.update = rec.update /\ rec'.lease = rec.lease
    BY <1>1, <1>2 DEF GoWith, Records
  <2>3. GoesOn /\ Prepared(rec)'
    BY <1>1, <1>2, <2>1, <2>2 DEF ReceiptConfirms, GoWith, GoesOn, SoundRecord,
       WorkerAccepts, Prepared
  <2> QED BY <1>1, <2>3, GoesOnQuietly
<1>3. CASE Return
  BY <1>3, LeavesQuietly DEF Leaves
<1> QED BY <1>2, <1>3

LEMMA CheckAuthorityAgainAgrees ==
  ASSUME Agreement, CheckAuthorityAgain, IInv' PROVE Agreement'
<1> USE DEF CheckAuthorityAgain
<1>1. AtWork /\ ~scanning /\ cur \in Tasks /\ rec \in Records /\ SoundRecord(cur, rec)
  BY ClaimSteps DEF AtWork, ScanSteps
<1>2. CASE GoWith("saveCompleted", CompletedRecord) /\ UNCHANGED net
  <2>1. rec.result \in Replies /\ rec.result # None
    BY ConstantsAssumption DEF Agreement, IInv, AtStep
  <2>2. /\ rec'.result = rec.result /\ rec'.lease = rec.lease
        /\ IF rec.update = None
           THEN rec'.update = [kind |-> "completed", value |-> rec.result, id |-> rec.lease]
           ELSE rec'.update = rec.update
    BY <1>1, <1>2 DEF GoWith, CompletedRecord, Records
  <2>3. SoundRecord(cur, rec')
    BY <1>1, <2>1, <2>2 DEF SoundRecord, SoundUpdate
  <2>4. GoesOn /\ Prepared(rec)'
    BY <1>1, <1>2, <2>2, <2>3 DEF GoWith, GoesOn, Prepared
  <2> QED BY <1>1, <1>2, <2>4, GoesOnQuietly
<1>3. CASE Cancel /\ Return
  BY <1>3, LeavesQuietly DEF Cancel, Leaves
<1> QED BY <1>2, <1>3

LEMMA SaveCompletedAgrees == ASSUME Agreement, SaveCompleted, IInv' PROVE Agreement'
<1> USE DEF SaveCompleted
<1>1. AtWork /\ ~scanning /\ cur \in Tasks /\ rec \in Records /\ SoundRecord(cur, rec)
  BY ClaimSteps DEF AtWork, ScanSteps
<1>2. disk'[cur] = rec /\ rec # None
  BY <1>1, NoneIsAbsence DEF Save, Agreement, IInv, TypeOK
<1>3. GoesOn /\ Prepared(rec)'
  BY <1>1, <1>2 DEF GoTo, GoesOn, Prepared
<1>4. rec.phase = "completed"
  BY DEF Agreement, IInv, Marks
<1> QED BY <1>1, <1>3, <1>4, SavesAndGoesOn

LEMMA PostUpdateAgrees == ASSUME Agreement, PostUpdate, IInv' PROVE Agreement'
<1> USE DEF PostUpdate
<1>1. cur \in Tasks /\ rec \in Records /\ rec.update \in Updates /\ SoundUpdate(cur, rec.update)
  BY OfferedUpdate
<1>2. CASE broker' = Applied(cur, rec.lease, rec.update) /\ UNCHANGED net /\ GiveUp
  BY <1>1, <1>2, AppliedWorld, LeftMemory DEF Agreement, GiveUp, Leaves
<1>3. CASE /\ broker' = Applied(cur, rec.lease, rec.update) /\ UNCHANGED net
           /\ Acknowledged /\ GoTo("ack")
  <2>1. Continues(rec) /\ UnderLease(rec) /\ Scanning /\ pc = "post"
    BY DEF Agreement, MemoryInv, AtWork
  <2>2. broker'[cur].lease = broker[cur].lease
    BY <1>1, <1>3 DEF Applied, Agreement, IInv, TypeOK, BrokerTasks
  <2>3. Scanning'
    BY <1>3, <2>1 DEF GoTo, Scanning, ScanSteps, Stored
  <2>4. Continues(rec)'
    BY <1>3, <2>1 DEF GoTo, Continues, Stored, SoundRecord, SoundUpdate, WorkerAccepts,
       ReceiptFailure
  <2>5. UnderLease(rec)'
    BY <1>3, <2>1, <2>2 DEF GoTo, UnderLease
  <2>6. Prepared(rec)'
    BY <1>3 DEF GoTo, Prepared, Acknowledged, InRoom
  <2>7. WorldInv'
    BY <1>1, <1>3, AppliedWorld DEF Agreement
  <2> QED BY <2>3, <2>4, <2>5, <2>6, <2>7 DEF Agreement, MemoryInv
<1>4. CASE net' = net \cup {Post(cur, rec.lease, rec.update)} /\ UNCHANGED broker /\ GiveUp
  BY <1>4, PostedWorld, LeftMemory DEF Agreement, GiveUp, Leaves
<1> QED BY <1>2, <1>3, <1>4

LEMMA AckWorkerAgrees == ASSUME Agreement, AckWorker, IInv' PROVE Agreement'
<1> USE DEF AckWorker
<1>1. /\ cur \in Tasks /\ rec \in Records /\ rec.result \in Replies
      /\ WorkerAccepts(cur, rec.result) /\ InRoom(cur, rec.result)
  <2>1. cur \in Tasks /\ rec \in Records /\ rec.result \in Replies
    BY DEF Agreement, IInv, Working, AtStep
  <2> QED BY <2>1, ConstantsAssumption DEF Agreement, MemoryInv, AtWork, Continues,
             SoundRecord, Prepared
<1>2. CASE /\ worker' = Told(cur, rec.result) /\ UNCHANGED net
           /\ GoWith("saveAck", [rec EXCEPT !.ack = rec.result, !.phase = "acknowledged"])
  <2>1. Continues(rec) /\ UnderLease(rec) /\ Scanning
    BY DEF Agreement, MemoryInv, AtWork
  <2>2. /\ rec'.result = rec.result /\ rec'.update = rec.update /\ rec'.lease = rec.lease
        /\ rec'.ack = rec.result
    BY <1>1, <1>2 DEF GoWith, Records
  <2>3. /\ worker'[cur].phase = worker[cur].phase /\ worker'[cur].out = worker[cur].out
        /\ worker'[cur].acked
    BY <1>1, <1>2 DEF Told, Agreement, IInv, TypeOK, Receipts
  <2>4. Scanning'
    BY <1>2, <2>1 DEF GoWith, Scanning, ScanSteps, Stored
  <2>5. Continues(rec)'
    BY <1>2, <2>1, <2>2, <2>3 DEF GoWith, Continues, Stored, SoundRecord, SoundUpdate,
       WorkerAccepts, ReceiptFailure
  <2>6. UnderLease(rec)'
    BY <1>2, <2>1, <2>2 DEF GoWith, UnderLease
  <2>7. Prepared(rec)'
    BY <1>1, <1>2, <2>2, <2>3 DEF GoWith, Prepared, InRoom
  <2>8. WorldInv'
    BY <1>1, <1>2, ToldWorld DEF Agreement
  <2> QED BY <2>4, <2>5, <2>6, <2>7, <2>8 DEF Agreement, MemoryInv
<1>3. CASE net' = net \cup {Ack(cur, rec.result)} /\ GiveUp /\ UNCHANGED worker
  BY <1>3, AckSentWorld, LeftMemory DEF Agreement, GiveUp, Leaves
<1> QED BY <1>2, <1>3

LEMMA SaveAckAgrees == ASSUME Agreement, SaveAck, IInv' PROVE Agreement'
BY SavesAndLeaves DEF SaveAck, Leaves, AtWork

\* The broker leases a task under a number it has not used for it before.
LEMMA LeaseIsNew ==
  ASSUME IInv, NEW t \in Tasks, NEW renew \in BOOLEAN, Lease(t, renew)
  PROVE  /\ broker[t].state = "open" /\ broker'[t].state = "open"
         /\ broker'[t].out = broker[t].out
         /\ broker'[t].lease = broker[t].lease + 1
         /\ \A s \in Tasks \ {t} : broker'[s] = broker[s]
BY DEF Lease, LeasedAgain, Claimable, IInv, TypeOK, BrokerTasks

LEMMA ClaimAgrees == ASSUME Agreement, Claim, IInv' PROVE Agreement'
<1>1. PICK t \in Tasks, renew \in BOOLEAN : Lease(t, renew) /\ (Claimed(t) \/ Return)
  BY DEF Claim
<1>2. /\ broker[t].state = "open" /\ broker'[t].state = "open"
      /\ broker'[t].out = broker[t].out
      /\ broker'[t].lease = broker[t].lease + 1
      /\ \A s \in Tasks \ {t} : broker'[s] = broker[s]
  BY <1>1, LeaseIsNew DEF Agreement
<1>3. UNCHANGED <<disk, worker, net, sends>> /\ pc = "claim" /\ ~scanning /\ todo = {}
  BY DEF Claim, Agreement, MemoryInv, Scanning
<1>4. WorldInv'
  <2>1. Turns' /\ Sound'
    BY <1>2, <1>3 DEF Agreement, WorldInv, Turns, Sound, SoundRoom, SoundRecord,
       SoundUpdate, WorkerAccepts, ReceiptFailure
  <2>2. Released'
    BY <1>2, <1>3 DEF Agreement, WorldInv, Released, AcknowledgedAfterRoom, Stored, InRoom,
       IInv, TypeOK, Requests
  <2>3. \A s \in Tasks : broker[s].lease \in Nat
    BY DEF Agreement, IInv, TypeOK, BrokerTasks
  <2>4. \A s \in Tasks : disk[s] # None => disk[s].lease \in Nat
    BY DEF Agreement, IInv, TypeOK, Records
  <2>5. \A m \in net : m.kind = "update" => m.task \in Tasks /\ m.lease \in Nat
    BY DEF Agreement, IInv, TypeOK, Requests
  <2>6. Leases'
    BY <1>2, <1>3, <2>3, <2>4, <2>5 DEF Agreement, WorldInv, Leases
  <2> QED BY <2>1, <2>2, <2>6 DEF WorldInv
<1>5. CASE Return
  BY <1>3, <1>4, <1>5, LeftMemory DEF Agreement, Leaves
<1>6. CASE /\ pc' = "receipt" /\ cur' = t /\ rec' = TakenUp(t, broker'[t])
           /\ UNCHANGED <<scanning, todo, reply>>
  <2>1. ~Stored(t, {"acknowledged"})
    BY <1>2 DEF Agreement, WorldInv, Released, AcknowledgedAfterRoom
  <2>2. /\ rec'.lease = broker'[t].lease
        /\ IF disk[t] = None THEN rec'.result = None /\ rec'.update = None
           ELSE rec'.result = disk[t].result /\ rec'.update = disk[t].update
    BY <1>6 DEF TakenUp, FreshRecord, Agreement, IInv, TypeOK, Records
  <2>3. disk[t] # None => disk[t].lease < rec'.lease
    BY <1>2, <2>2 DEF Agreement, WorldInv, Leases, IInv, TypeOK, Records, BrokerTasks
  <2>4. \A m \in net : m.kind = "update" /\ m.task = t => m.lease < rec'.lease
    BY <1>2, <2>2 DEF Agreement, WorldInv, Leases, IInv, TypeOK, Requests, BrokerTasks
  <2>5. Scanning'
    BY <1>3, <1>6 DEF Scanning
  <2>6. Continues(rec)'
    BY <1>3, <1>6, <2>1, <2>2, <2>3 DEF Continues, Stored, SoundRecord, SoundUpdate,
       WorkerAccepts, ReceiptFailure, Agreement, WorldInv, Sound
  <2>7. UnderLease(rec)'
    BY <1>3, <1>6, <2>2, <2>4 DEF UnderLease
  <2>8. Prepared(rec)'
    BY <1>6 DEF Prepared
  <2> QED BY <1>4, <2>5, <2>6, <2>7, <2>8 DEF Agreement, MemoryInv
<1> QED BY <1>1, <1>5, <1>6 DEF Claimed

-----------------------------------------------------------------------------
(* The steps of the worker and of the broker                                *)

\* A turn that starts or ends leaves the memory of the mediator true.
LEMMA KeptAgrees ==
  ASSUME Agreement, ReceiptsKept, Turns', net' \subseteq net, IInv',
         UNCHANGED <<disk, memory, broker, sends>>
  PROVE  Agreement'
<1>1. \A t \in Tasks, r \in Records : SoundRecord(t, r) => SoundRecord(t, r)'
  <2>1. SUFFICES ASSUME NEW t \in Tasks, NEW r \in Records, SoundRecord(t, r)
                 PROVE  SoundRecord(t, r)'
    OBVIOUS
  <2>2. r.update # None => r.update.value # None
    BY ConstantsAssumption DEF Records, Updates
  <2> QED BY <2>1, <2>2, KeptSound DEF SoundRecord
<1>2. MemoryInv'
  BY <1>1, UndisturbedMemory DEF Agreement, InRoom, ReceiptsKept
<1> QED BY <1>2, KeptWorld DEF Agreement

LEMMA WorkerStartAgrees ==
  ASSUME Agreement, NEW t \in Tasks, WorkerStart(t), IInv' PROVE Agreement'
<1> USE DEF WorkerStart, Unsaid
<1>1. sends[t] = 1
  BY DEF Agreement, WorldInv, Turns
<1>2. \A s \in Tasks \ {t} : worker'[s] = worker[s]
  BY DEF Agreement, IInv, TypeOK
<1>3. /\ worker'[t].out = worker[t].out /\ worker'[t].acked = worker[t].acked
      /\ worker'[t].phase = IF worker[t].phase = "none" THEN "running" ELSE worker[t].phase
  BY DEF Agreement, IInv, TypeOK, Receipts
<1>4. Turns'
  BY <1>1, <1>2, <1>3 DEF Agreement, WorldInv, Turns
<1>5. ReceiptsKept
  BY <1>2, <1>3 DEF ReceiptsKept
<1> QED BY <1>4, <1>5, KeptAgrees

LEMMA WorkerEndsAgrees ==
  ASSUME Agreement, NEW t \in Tasks, WorkerEnds(t), IInv' PROVE Agreement'
<1> USE DEF WorkerEnds, Unsaid
<1>1. \A s \in Tasks \ {t} : worker'[s] = worker[s]
  BY DEF Agreement, IInv, TypeOK
<1>2. /\ worker'[t].acked = worker[t].acked
      /\ worker'[t].phase \in {"completed", "failed", "interrupted"}
  BY DEF Agreement, IInv, TypeOK, Receipts
<1>3. Turns'
  BY <1>1, <1>2 DEF Agreement, WorldInv, Turns
<1>4. ReceiptsKept
  BY <1>1, <1>2 DEF ReceiptsKept
<1> QED BY <1>3, <1>4, KeptAgrees

LEMMA WorkerCancelsAgrees ==
  ASSUME Agreement, NEW t \in Tasks, WorkerCancels(t), IInv' PROVE Agreement'
<1> USE DEF WorkerCancels, Unsaid
<1>1. \A s \in Tasks \ {t} : worker'[s] = worker[s]
  BY DEF Agreement, IInv, TypeOK
<1>2. /\ worker'[t].acked = worker[t].acked
      /\ IF worker[t].phase = "running" THEN worker'[t].phase = "interrupted"
         ELSE worker'[t] = worker[t]
  BY DEF Agreement, IInv, TypeOK, Receipts
<1>3. Turns'
  BY <1>1, <1>2 DEF Agreement, WorldInv, Turns
<1>4. ReceiptsKept
  BY <1>1, <1>2 DEF ReceiptsKept
<1> QED BY <1>3, <1>4, KeptAgrees

LEMMA WorkerAckedAgrees ==
  ASSUME Agreement, NEW t \in Tasks, WorkerAcked(t), IInv' PROVE Agreement'
<1> USE DEF WorkerAcked, Unsaid
<1>1. PICK a \in Replies : /\ Ack(t, a) \in net /\ net' = net \ {Ack(t, a)}
                           /\ worker' = Told(t, a)
  OBVIOUS
<1>2. InRoom(t, a)
  BY <1>1 DEF Agreement, WorldInv, Released, Ack
<1>3. WorldInv'
  BY <1>1, <1>2, ToldWorld DEF Agreement
<1>4. \A s \in Tasks : /\ worker'[s].phase = worker[s].phase
                       /\ worker'[s].out = worker[s].out
                       /\ worker[s].acked => worker'[s].acked
  BY <1>1 DEF Told, Agreement, IInv, TypeOK, Receipts
<1>5. \A s \in Tasks, r \in Records : SoundRecord(s, r) => SoundRecord(s, r)'
  BY <1>4 DEF SoundRecord, SoundUpdate, WorkerAccepts, ReceiptFailure
<1>6. MemoryInv'
  BY <1>1, <1>4, <1>5, UndisturbedMemory DEF Agreement, InRoom
<1> QED BY <1>3, <1>6 DEF Agreement

LEMMA BrokerUpdatedAgrees ==
  ASSUME Agreement, NEW t \in Tasks, BrokerUpdated(t), IInv' PROVE Agreement'
<1> USE DEF BrokerUpdated, Unsaid
<1>1. PICK m \in net : /\ m.kind = "update" /\ m.task = t
                       /\ broker' = Applied(t, m.lease, m.update)
                       /\ net' = net \ {m}
  OBVIOUS
<1>2. m.update \in Updates /\ SoundUpdate(t, m.update)
  BY <1>1 DEF Agreement, IInv, TypeOK, Requests, WorldInv, Sound
<1>3. WorldInv'
  BY <1>1, <1>2, AppliedWorld DEF Agreement, memory
<1>4. \A s \in Tasks : /\ broker'[s].lease = broker[s].lease
                       /\ \A v : InRoom(s, v) => InRoom(s, v)'
  BY <1>1 DEF Applied, Authorized, InRoom, Agreement, IInv, TypeOK, BrokerTasks
<1>5. \A s \in Tasks, r \in Records : SoundRecord(s, r) => SoundRecord(s, r)'
  BY DEF SoundRecord, SoundUpdate, WorkerAccepts, ReceiptFailure
<1>6. MemoryInv'
  BY <1>1, <1>4, <1>5, UndisturbedMemory DEF Agreement
<1> QED BY <1>3, <1>6 DEF Agreement

\* A deadline, a revocation, the end of a lease or the broker's own failure.
LEMMA BrokerChangesAgrees ==
  ASSUME Agreement, NEW t \in Tasks, NEW b, BrokerChanges(t, b), IInv',
         b.lease = broker[t].lease, b.out = broker[t].out, b.state \in {"open", "failed"}
  PROVE  Agreement'
<1> USE DEF BrokerChanges, Unsaid
<1>1. /\ broker'[t] = b /\ broker[t].state = "open" /\ b.out = None
      /\ \A s \in Tasks \ {t} : broker'[s] = broker[s]
  BY DEF Agreement, IInv, TypeOK, WorldInv, Turns
<1>2. Turns' /\ Leases'
  BY <1>1 DEF Agreement, WorldInv, Turns, Leases, IInv, TypeOK, Requests
<1>3. Sound'
  <2>1. \A s \in Tasks : SoundRoom(s)'
    BY <1>1 DEF Agreement, WorldInv, Sound, SoundRoom, WorkerAccepts, ReceiptFailure
  <2> QED BY <2>1 DEF Agreement, WorldInv, Sound, SoundRecord, SoundUpdate,
             WorkerAccepts, ReceiptFailure
<1>4. Released'
  <2>1. ~worker[t].acked /\ ~Stored(t, {"acknowledged"})
    BY <1>1 DEF Agreement, WorldInv, Released, AcknowledgedAfterRoom
  <2>2. \A m \in net : m.kind = "ack" => m.task \in Tasks \ {t}
    BY <1>1 DEF Agreement, WorldInv, Released, InRoom, IInv, TypeOK, Requests
  <2> QED BY <1>1, <2>1, <2>2 DEF Agreement, WorldInv, Released, AcknowledgedAfterRoom,
             Stored, InRoom
<1>5. MemoryInv'
  <2>1. \A s \in Tasks : /\ broker'[s].lease = broker[s].lease
                         /\ \A v : InRoom(s, v) => InRoom(s, v)'
    BY <1>1 DEF InRoom
  <2>2. \A s \in Tasks, r \in Records : SoundRecord(s, r) => SoundRecord(s, r)'
    BY DEF SoundRecord, SoundUpdate, WorkerAccepts, ReceiptFailure
  <2> QED BY <2>1, <2>2, UndisturbedMemory DEF Agreement
<1> QED BY <1>2, <1>3, <1>4, <1>5 DEF Agreement, WorldInv

LEMMA BrokerAgrees ==
  ASSUME Agreement, NEW t \in Tasks, Expire(t) \/ Revoke(t) \/ LeaseEnds(t) \/ BrokerFails(t),
         IInv'
  PROVE  Agreement'
<1>1. broker[t] \in BrokerTasks /\ broker[t].state = "open"
  BY DEF Agreement, IInv, TypeOK, Expire, Revoke, LeaseEnds, BrokerFails, BrokerChanges
<1>2. CASE Expire(t)
  BY <1>1, <1>2, BrokerChangesAgrees DEF Expire, BrokerTasks
<1>3. CASE Revoke(t)
  BY <1>1, <1>3, BrokerChangesAgrees DEF Revoke, BrokerTasks
<1>4. CASE LeaseEnds(t)
  BY <1>1, <1>4, BrokerChangesAgrees DEF LeaseEnds, BrokerTasks
<1>5. CASE BrokerFails(t)
  BY <1>1, <1>5, BrokerChangesAgrees DEF BrokerFails, BrokerTasks
<1> QED BY <1>2, <1>3, <1>4, <1>5

LEMMA UnchangedAgrees ==
  ASSUME Agreement, IInv', CalmDown \/ UNCHANGED vars PROVE Agreement'
<1>1. UNCHANGED <<disk, memory, broker, worker, net, sends>>
  BY DEF CalmDown, vars
<1>2. WorldInv'
  BY <1>1, QuietWorld DEF Agreement
<1>3. \A t \in Tasks, r \in Records : SoundRecord(t, r) => SoundRecord(t, r)'
  BY <1>1 DEF SoundRecord, SoundUpdate, WorkerAccepts, ReceiptFailure
<1>4. MemoryInv'
  BY <1>1, <1>3, UndisturbedMemory DEF Agreement, InRoom
<1> QED BY <1>2, <1>4 DEF Agreement

-----------------------------------------------------------------------------
(* The agreement holds in every reachable state                             *)

LEMMA InitAgrees == Init => Agreement
<1> SUFFICES ASSUME Init PROVE Agreement
  OBVIOUS
<1>1. \A t \in Tasks : /\ disk[t] = None /\ broker[t].state = "open" /\ broker[t].out = None
                       /\ worker[t].phase = "none" /\ worker[t].out = None
                       /\ ~worker[t].acked
  BY DEF Init
<1>2. net = {} /\ pc = "idle" /\ ~scanning /\ todo = {}
  BY DEF Init
<1>3. WorldInv
  BY <1>1, <1>2 DEF WorldInv, Turns, Sound, SoundRoom, Released, AcknowledgedAfterRoom,
     Stored, Leases
<1>4. MemoryInv
  BY <1>2 DEF MemoryInv, Scanning, AtWork
<1> QED BY <1>3, <1>4, InitIInv DEF Agreement

LEMMA NextAgrees == ASSUME Agreement, [Next]_vars PROVE Agreement'
<1>0. IInv'
  BY NextIInv DEF Agreement
<1>1. CASE Scan \/ Claiming \/ Crash
  BY <1>0, <1>1, RunOnceAgrees, LoadNextAgrees, ScanDoneAgrees, NoTaskAgrees,
     ClaimAgrees DEF Scan, Claiming
<1>2. CASE Reconcile \/ Submit
  BY <1>0, <1>2, ReconcileBrokerAgrees, CheckAuthorityAgrees, QuarantineAgrees,
     SaveQuarantineAgrees, WorkerReceiptAgrees, AdmitAgrees, SaveReservedAgrees,
     SaveIntentAgrees, SendAgrees DEF Reconcile, Submit
<1>3. CASE Turn \/ Fail
  BY <1>0, <1>3, RepliedAgrees, RejectedAgrees, PollAuthorityAgrees, SaveLostAgrees,
     SendFailsAgrees, CheckFailureAgrees, SaveInterruptedAgrees, SaveFailAgrees,
     PostFailAgrees DEF Turn, Fail
<1>4. CASE Finish
  BY <1>0, <1>4, ConfirmAgrees, CheckAuthorityAgainAgrees, SaveCompletedAgrees,
     PostUpdateAgrees, AckWorkerAgrees, SaveAckAgrees DEF Finish
<1>5. ASSUME NEW t \in Tasks, Worker(t) PROVE Agreement'
  BY <1>0, <1>5, WorkerStartAgrees, WorkerEndsAgrees, WorkerCancelsAgrees,
     WorkerAckedAgrees DEF Worker
<1>6. ASSUME NEW t \in Tasks, Broker(t) PROVE Agreement'
  BY <1>0, <1>6, BrokerUpdatedAgrees, BrokerAgrees DEF Broker
<1>7. CASE CalmDown \/ UNCHANGED vars
  BY <1>0, <1>7, UnchangedAgrees
<1> QED BY <1>1, <1>2, <1>3, <1>4, <1>5, <1>6, <1>7 DEF Next, Mediator

\* What is stored, held, told and on its way agrees in every reachable state.
THEOREM Agrees == Spec => []Agreement
<1>1. Agreement /\ [Next]_vars => Agreement'
  BY NextAgrees
<1> QED BY InitAgrees, <1>1, PTL DEF Spec

\* The reply the room holds is the one in the worker's receipt, for whatever
\* response drifted from it (reconcile_worker, line 744).
THEOREM RoomHolds == Spec => []RoomHoldsWorkersReply
<1>1. Agreement => RoomHoldsWorkersReply
  BY DEF Agreement, WorldInv, Sound, SoundRoom, RoomHoldsWorkersReply
<1> QED BY Agrees, <1>1, PTL

\* The worker may forget a receipt, and a record is acknowledged, only once the
\* room holds the reply (accept_ack and the replay in recover_pending).
THEOREM AcknowledgedLast == Spec => []AcknowledgedAfterRoom
<1>1. Agreement => AcknowledgedAfterRoom
  BY DEF Agreement, WorldInv, Released
<1> QED BY Agrees, <1>1, PTL

\* A failure code other than the default is one the worker's terminal receipt
\* carries (receipt_failure), whatever an RPC error said.
THEOREM FailureIsConfirmed == Spec => []FailureConfirmed
<1>1. Agreement => FailureConfirmed
  BY DEF Agreement, WorldInv, Sound, SoundRoom, FailureConfirmed
<1> QED BY Agrees, <1>1, PTL

\* An update the broker would still apply is the one in the stored record: no
\* crash makes the mediator forget what it posted.
THEOREM StoredFirst == Spec => []UpdateStoredFirst
<1>1. Agreement => UpdateStoredFirst
  BY DEF Agreement, WorldInv, Leases, UpdateStoredFirst, Authorized
<1> QED BY Agrees, <1>1, PTL

-----------------------------------------------------------------------------
(* What no step may do to a stored record                                   *)

\* The disk changes by saves of the record at hand only, and each phase is
\* written by the steps meant to write it.
LEMMA DiskStep ==
  ASSUME Agreement, [Next]_vars, disk' # disk
  PROVE  /\ AtWork /\ Save(rec) /\ UNCHANGED <<broker, worker, sends>>
         /\ rec.phase = "reserved" => pc = "saveReserved"
         /\ rec.phase = "acknowledged" <=> pc = "saveAck"
<1>1. CASE SaveQuarantine \/ SaveReserved \/ SaveIntent \/ SaveLost \/ SaveInterrupted
           \/ SaveFail \/ SaveCompleted \/ SaveAck
  <2>1. /\ Save(rec) /\ UNCHANGED <<broker, worker, sends>>
        /\ pc \in {"saveQuarantine", "saveReserved", "saveIntent", "saveLost",
                   "saveInterrupted", "saveFail", "saveCompleted", "saveAck"}
    BY <1>1 DEF SaveQuarantine, SaveReserved, SaveIntent, SaveLost, SaveInterrupted,
       SaveFail, SaveCompleted, SaveAck
  <2> QED BY <2>1 DEF AtWork, Agreement, IInv, Marks
<1>2. CASE Scan \/ Claiming \/ Crash \/ CalmDown \/ UNCHANGED vars
  BY <1>2 DEF Scan, RunOnce, LoadNext, ScanDone, Claiming, NoTask, Claim, ClaimFails,
     Crash, CalmDown, vars
<1>3. CASE ReconcileBroker \/ CheckAuthority \/ Quarantine \/ WorkerReceipt \/ Admit \/ Send
  BY <1>3 DEF ReconcileBroker, CheckAuthority, Quarantine, WorkerReceipt, Admit, Send
<1>4. CASE Replied \/ Rejected \/ PollAuthority \/ SendFails \/ CheckFailure \/ PostFail
  BY <1>4 DEF Replied, Rejected, PollAuthority, SendFails, CheckFailure, PostFail
<1>5. CASE Confirm \/ CheckAuthorityAgain \/ PostUpdate \/ AckWorker
  BY <1>5 DEF Confirm, CheckAuthorityAgain, PostUpdate, AckWorker
<1>6. ASSUME NEW t \in Tasks, Worker(t) \/ Broker(t) PROVE FALSE
  BY <1>6 DEF Worker, WorkerStart, WorkerEnds, WorkerCancels, WorkerAcked, Broker,
     BrokerUpdated, Expire, Revoke, LeaseEnds, BrokerFails, BrokerChanges, Unsaid
<1> QED BY <1>1, <1>2, <1>3, <1>4, <1>5, <1>6 DEF Next, Mediator, Reconcile, Submit,
           Turn, Fail, Finish

\* A stored record never looks unsubmitted again, keeps its result, and is final
\* once acknowledged.
THEOREM NeverRegress == Spec => RecordsNeverRegress
<1>1. ASSUME Agreement, [Next]_vars, disk' # disk, NEW t \in Tasks
      PROVE  /\ Stored(t, Phases \ {"reserved"}) => disk'[t].phase # "reserved"
             /\ disk[t] # None /\ disk[t].result # None => disk'[t].result = disk[t].result
             /\ Stored(t, {"acknowledged"}) => disk'[t] = disk[t]
  <2>1. /\ AtWork /\ Save(rec) /\ Continues(rec)
        /\ rec.phase = "reserved" => pc = "saveReserved"
    BY <1>1, DiskStep DEF Agreement, MemoryInv
  <2>2. CASE t = cur
    <3>1. disk'[t] = rec
      BY <1>1, <2>1, <2>2 DEF Save, Agreement, IInv, TypeOK
    <3>2. Stored(t, Phases \ {"reserved"}) => rec.phase # "reserved"
      BY <1>1, <2>1, <2>2 DEF Agreement, IInv, Marks, Loaded, Stored
    <3>3. disk[t] # None /\ disk[t].result # None => rec.result = disk[t].result
      BY <1>1, <2>1, <2>2 DEF Continues, SoundRecord, WorkerAccepts, Agreement, WorldInv, Sound
    <3> QED BY <2>1, <2>2, <3>1, <3>2, <3>3 DEF Continues
  <2>3. CASE t # cur
    <3>1. disk'[t] = disk[t]
      BY <1>1, <2>1, <2>3 DEF Save, Agreement, IInv, TypeOK
    <3> QED BY <3>1 DEF Stored
  <2> QED BY <2>2, <2>3
<1>2. Agreement /\ [Next]_vars =>
        [\A t \in Tasks :
           /\ Stored(t, Phases \ {"reserved"}) => disk'[t].phase # "reserved"
           /\ disk[t] # None /\ disk[t].result # None => disk'[t].result = disk[t].result
           /\ Stored(t, {"acknowledged"}) => disk'[t] = disk[t]]_disk
  BY <1>1
<1> QED BY Agrees, <1>2, PTL DEF Spec, RecordsNeverRegress

\* A quarantined record is only ever replaced under another lease: the scan
\* leaves it alone (recover_pending, line 568).
THEOREM QuarantineStays == Spec => QuarantineLasts
<1>1. ASSUME Agreement, [Next]_vars, disk' # disk, NEW t \in Tasks,
             Stored(t, {"quarantined"}), disk'[t] # disk[t]
      PROVE  disk'[t].lease # disk[t].lease
  <2>1. AtWork /\ Save(rec) /\ Continues(rec)
    BY <1>1, DiskStep DEF Agreement, MemoryInv
  <2>2. t = cur /\ disk'[t] = rec
    BY <1>1, <2>1 DEF Save, Agreement, IInv, TypeOK
  <2>3. disk[t].lease < rec.lease /\ disk[t].lease \in Nat /\ rec.lease \in Nat
    BY <1>1, <2>1, <2>2 DEF Continues, Stored, Agreement, IInv, TypeOK, Working, AtWork, Records
  <2> QED BY <2>2, <2>3
<1>2. Agreement /\ [Next]_vars =>
        [\A t \in Tasks : Stored(t, {"quarantined"}) /\ disk'[t] # disk[t]
                            => disk'[t].lease # disk[t].lease]_disk
  BY <1>1
<1> QED BY Agrees, <1>2, PTL DEF Spec, QuarantineLasts

-----------------------------------------------------------------------------
(* The refinement                                                           *)

\* A step that changes nothing of what ConversationOutcome shows.
SameReceipts ==
    \A t \in Tasks : worker'[t].out = worker[t].out /\ worker'[t].acked = worker[t].acked
SameRoom ==
    \A t \in Tasks : broker'[t].state = broker[t].state /\ broker'[t].out = broker[t].out
SameEnds ==
    \A t \in Tasks : Stored(t, {"acknowledged"})' = Stored(t, {"acknowledged"})

LEMMA HiddenStep ==
  ASSUME UNCHANGED sends, SameReceipts, SameRoom, SameEnds
  PROVE  UNCHANGED Outcome!vars
BY DEF SameReceipts, SameRoom, SameEnds, Outcome!vars

\* A save that acknowledges settles the task; no other save does.
LEMMA SaveRefines ==
  ASSUME Agreement, AtWork, Save(rec), UNCHANGED <<broker, worker, sends>>,
         rec.phase = "acknowledged" <=> pc = "saveAck"
  PROVE  [Outcome!Next]_(Outcome!vars)
<1>1. /\ cur \in Tasks /\ rec # None
      /\ ~Stored(cur, {"acknowledged"}) /\ Prepared(rec)
  BY NoneIsAbsence DEF Agreement, IInv, Working, AtWork, MemoryInv, Continues
<1>2. PICK t \in Tasks : t = cur
  BY <1>1
<1>3. disk'[t] = rec /\ \A s \in Tasks \ {t} : disk'[s] = disk[s]
  BY <1>2 DEF Save, Agreement, IInv, TypeOK
<1>4. /\ Stored(t, {"acknowledged"})' <=> pc = "saveAck"
      /\ \A s \in Tasks \ {t} : Stored(s, {"acknowledged"})' <=> Stored(s, {"acknowledged"})
  BY <1>1, <1>3 DEF Stored
<1>5. CASE pc = "saveAck"
  <2>1. worker[t].acked /\ ~Stored(t, {"acknowledged"}) /\ Stored(t, {"acknowledged"})'
    BY <1>1, <1>2, <1>4, <1>5 DEF Prepared
  <2>2. [s \in Tasks |-> Stored(s, {"acknowledged"})']
          = [[s \in Tasks |-> Stored(s, {"acknowledged"})] EXCEPT ![t] = TRUE]
    BY <1>4, <2>1 DEF Stored
  <2>3. Outcome!Settle(t)
    BY <2>1, <2>2 DEF Outcome!Settle
  <2> QED BY <2>3 DEF Outcome!Next
<1>6. CASE pc # "saveAck"
  <2>1. ~Stored(t, {"acknowledged"}) /\ ~Stored(t, {"acknowledged"})'
    BY <1>1, <1>2, <1>4, <1>6
  <2>2. SameEnds
    BY <1>4, <2>1 DEF SameEnds, Stored
  <2> QED BY <2>2, HiddenStep DEF SameReceipts, SameRoom
<1> QED BY <1>5, <1>6

\* An update the broker applies completes or fails the task.
LEMMA AppliedRefines ==
  ASSUME Agreement, NEW t \in Tasks, NEW l, NEW u \in Updates, SoundUpdate(t, u),
         broker' = Applied(t, l, u), UNCHANGED <<disk, worker, sends>>
  PROVE  [Outcome!Next]_(Outcome!vars)
<1>1. CASE broker' = broker
  BY <1>1, HiddenStep DEF SameReceipts, SameRoom, SameEnds, Stored
<1>2. CASE broker' # broker
  <2>1. /\ broker[t].state = "open" /\ broker[t].out = None
        /\ broker' = [broker EXCEPT ![t].state = u.kind, ![t].out = u.value]
    BY <1>2 DEF Applied, Authorized, Agreement, WorldInv, Turns
  <2>2. /\ broker'[t].state = u.kind /\ broker'[t].out = u.value
        /\ \A s \in Tasks \ {t} : broker'[s] = broker[s]
    BY <2>1 DEF Agreement, IInv, TypeOK, BrokerTasks
  <2> DEFINE held == [s \in Tasks |-> [state |-> broker[s].state, out |-> broker[s].out]]
  <2>3. /\ held[t] = Outcome!Open
        /\ held' = [held EXCEPT ![t] = [state |-> u.kind, out |-> u.value]]
    BY <2>1, <2>2 DEF Outcome!Open
  <2>4. UNCHANGED <<[s \in Tasks |-> worker[s].out], [s \in Tasks |-> worker[s].acked],
                    [s \in Tasks |-> Stored(s, {"acknowledged"})]>>
    BY DEF Stored
  <2>5. CASE u.kind = "completed"
    <3>1. u.value = worker[t].out /\ u.value \in Replies
      BY <2>5 DEF SoundUpdate, WorkerAccepts, Updates
    <3>2. Outcome!Complete(t)
      BY <2>3, <2>4, <2>5, <3>1 DEF Outcome!Complete
    <3> QED BY <3>2 DEF Outcome!Next
  <2>6. CASE u.kind = "failed"
    <3>1. u.value \in Codes /\ u.value \in {Interrupted, worker[t].out}
      BY <2>6, ConstantsAssumption DEF SoundUpdate, ReceiptFailure, Updates
    <3>2. Outcome!Fail(t)
      BY <2>3, <2>4, <2>6, <3>1 DEF Outcome!Fail
    <3> QED BY <3>2 DEF Outcome!Next
  <2>7. u.kind \in {"completed", "failed"}
    BY DEF Updates
  <2> QED BY <2>5, <2>6, <2>7
<1> QED BY <1>1, <1>2

\* A worker that is told lets go of its receipt, if it has not already.
LEMMA ToldRefines ==
  ASSUME Agreement, NEW t \in Tasks, NEW a, InRoom(t, a), worker' = Told(t, a),
         UNCHANGED <<disk, broker, sends>>
  PROVE  [Outcome!Next]_(Outcome!vars)
<1>1. SameRoom /\ SameEnds
  BY DEF SameRoom, SameEnds, Stored
<1>2. /\ \A s \in Tasks : worker'[s].out = worker[s].out
      /\ \A s \in Tasks \ {t} : worker'[s] = worker[s]
      /\ worker'[t].acked = worker[t].acked \/ worker'[t].acked = TRUE
  BY DEF Told, Agreement, IInv, TypeOK, Receipts
<1>3. CASE worker'[t].acked = worker[t].acked
  BY <1>1, <1>2, <1>3, HiddenStep DEF SameReceipts
<1>4. CASE worker'[t].acked # worker[t].acked
  <2>1. worker'[t].acked = TRUE /\ worker[t].acked = FALSE
    BY <1>2, <1>4 DEF Agreement, IInv, TypeOK, Receipts
  <2>2. [s \in Tasks |-> worker'[s].acked]
          = [[s \in Tasks |-> worker[s].acked] EXCEPT ![t] = TRUE]
    BY <1>2, <2>1
  <2>3. Outcome!Release(t)
    BY <1>1, <1>2, <2>1, <2>2 DEF Outcome!Release, InRoom, SameEnds
  <2> QED BY <2>3 DEF Outcome!Next
<1> QED BY <1>3, <1>4

\* A turn that ends produces what its receipt then says, or nothing.
LEMMA EndedRefines ==
  ASSUME Agreement, NEW t \in Tasks, NEW v \in Replies \cup Codes \cup {None},
         worker[t].phase = "running", worker'[t].out = v, worker'[t].acked = worker[t].acked,
         \A s \in Tasks \ {t} : worker'[s] = worker[s],
         UNCHANGED <<disk, broker, sends>>
  PROVE  [Outcome!Next]_(Outcome!vars)
<1>1. SameRoom /\ SameEnds
  BY DEF SameRoom, SameEnds, Stored
<1>2. worker[t].out = None /\ sends[t] = 1
  BY DEF Agreement, WorldInv, Turns
<1>3. CASE v = None
  BY <1>1, <1>2, <1>3, HiddenStep DEF SameReceipts
<1>4. CASE v # None
  <2>1. [s \in Tasks |-> worker'[s].out] = [[s \in Tasks |-> worker[s].out] EXCEPT ![t] = v]
    OBVIOUS
  <2>2. \A s \in Tasks : worker'[s].acked = worker[s].acked
    OBVIOUS
  <2>3. Outcome!Produce(t)
    BY <1>1, <1>2, <1>4, <2>1, <2>2 DEF Outcome!Produce, SameEnds
  <2> QED BY <2>3 DEF Outcome!Next
<1> QED BY <1>3, <1>4

LEMMA MediatorRefines ==
  ASSUME Agreement, Mediator, disk' = disk PROVE [Outcome!Next]_(Outcome!vars)
<1>1. SameEnds
  BY DEF SameEnds, Stored
<1>2. CASE UNCHANGED <<broker, worker, sends>>
  BY <1>1, <1>2, HiddenStep DEF SameReceipts, SameRoom
<1>3. CASE Send
  <2>1. cur \in Tasks /\ sends[cur] = 0 /\ sends' = [sends EXCEPT ![cur] = 1]
    BY <1>3 DEF Send, Agreement, IInv, TypeOK, Working, Marks
  <2>2. Outcome!Ask(cur)
    BY <1>1, <1>3, <2>1 DEF Send, SameEnds, Outcome!Ask
  <2> QED BY <2>1, <2>2 DEF Outcome!Next
<1>4. CASE PostFail \/ PostUpdate
  <2>1. CASE UNCHANGED broker
    BY <1>2, <1>4, <2>1 DEF PostFail, PostUpdate
  <2>2. CASE broker' = Applied(cur, rec.lease, rec.update)
    BY <1>4, <2>2, OfferedUpdate, AppliedRefines DEF PostFail, PostUpdate
  <2> QED BY <1>4, <2>1, <2>2 DEF PostFail, PostUpdate
<1>5. CASE AckWorker
  <2>1. cur \in Tasks /\ InRoom(cur, rec.result)
    BY <1>5 DEF AckWorker, Agreement, IInv, Working, MemoryInv, AtWork, Prepared
  <2>2. CASE worker' = Told(cur, rec.result)
    BY <1>5, <2>1, <2>2, ToldRefines DEF AckWorker
  <2>3. CASE UNCHANGED worker
    BY <1>2, <1>5, <2>3 DEF AckWorker
  <2> QED BY <1>5, <2>2, <2>3 DEF AckWorker
<1>6. CASE Claim
  <2>1. PICK t \in Tasks, renew \in BOOLEAN : Lease(t, renew)
    BY <1>6 DEF Claim
  <2>2. SameRoom
    BY <2>1, LeaseIsNew DEF SameRoom, Agreement
  <2> QED BY <1>1, <1>6, <2>2, HiddenStep DEF Claim, SameReceipts
<1>7. CASE Scan \/ NoTask \/ ClaimFails \/ Reconcile \/ WorkerReceipt \/ Admit
           \/ SaveReserved \/ SaveIntent
  BY <1>2, <1>7 DEF Scan, RunOnce, LoadNext, ScanDone, NoTask, ClaimFails, Reconcile,
     ReconcileBroker, CheckAuthority, Quarantine, SaveQuarantine, WorkerReceipt, Admit,
     SaveReserved, SaveIntent
<1>8. CASE Turn \/ SaveFail \/ Confirm \/ CheckAuthorityAgain \/ SaveCompleted \/ SaveAck
  BY <1>2, <1>8 DEF Turn, Replied, Rejected, PollAuthority, SaveLost, SendFails,
     CheckFailure, SaveInterrupted, Uncertain, SaveFail, Confirm, CheckAuthorityAgain,
     SaveCompleted, SaveAck
<1> QED BY <1>3, <1>4, <1>5, <1>6, <1>7, <1>8 DEF Mediator, Claiming, Submit, Fail, Finish

LEMMA WorkerRefines ==
  ASSUME Agreement, NEW t \in Tasks, Worker(t) PROVE [Outcome!Next]_(Outcome!vars)
<1>1. UNCHANGED <<disk, broker, sends>>
  BY DEF Worker, WorkerStart, WorkerEnds, WorkerCancels, WorkerAcked, Unsaid
<1>2. SameRoom /\ SameEnds
  BY <1>1 DEF SameRoom, SameEnds, Stored
<1>3. CASE WorkerStart(t)
  <2>1. SameReceipts
    BY <1>3 DEF WorkerStart, SameReceipts, Agreement, IInv, TypeOK, Receipts
  <2> QED BY <1>1, <1>2, <2>1, HiddenStep
<1>4. CASE WorkerEnds(t)
  <2>1. /\ worker[t].phase = "running" /\ worker'[t].acked = worker[t].acked
        /\ worker'[t].out \in Replies \cup Codes \cup {None}
        /\ \A s \in Tasks \ {t} : worker'[s] = worker[s]
    BY <1>4 DEF WorkerEnds, Agreement, IInv, TypeOK, Receipts
  <2> QED BY <1>1, <2>1, EndedRefines
<1>5. CASE WorkerCancels(t)
  <2>1. CASE worker[t].phase = "running"
    <3>1. /\ worker'[t].acked = worker[t].acked /\ worker'[t].out = Interrupted
          /\ \A s \in Tasks \ {t} : worker'[s] = worker[s]
      BY <1>5, <2>1 DEF WorkerCancels, Agreement, IInv, TypeOK, Receipts
    <3> QED BY <1>1, <2>1, <3>1, EndedRefines, ConstantsAssumption
  <2>2. CASE worker[t].phase # "running"
    BY <1>1, <1>2, <1>5, <2>2, HiddenStep DEF WorkerCancels, SameReceipts
  <2> QED BY <2>1, <2>2
<1>6. CASE WorkerAcked(t)
  <2>1. PICK a \in Replies : Ack(t, a) \in net /\ worker' = Told(t, a)
    BY <1>6 DEF WorkerAcked
  <2>2. InRoom(t, a)
    BY <2>1 DEF Agreement, WorldInv, Released, Ack
  <2> QED BY <1>1, <2>1, <2>2, ToldRefines
<1> QED BY <1>3, <1>4, <1>5, <1>6 DEF Worker

LEMMA BrokerRefines ==
  ASSUME Agreement, NEW t \in Tasks, Broker(t) PROVE [Outcome!Next]_(Outcome!vars)
<1>1. UNCHANGED <<disk, worker, sends>>
  BY DEF Broker, BrokerUpdated, Expire, Revoke, LeaseEnds, BrokerFails, BrokerChanges, Unsaid
<1>2. SameReceipts /\ SameEnds
  BY <1>1 DEF SameReceipts, SameEnds, Stored
<1>3. CASE BrokerUpdated(t)
  <2>1. PICK m \in net : m.kind = "update" /\ m.task = t /\ broker' = Applied(t, m.lease, m.update)
    BY <1>3 DEF BrokerUpdated
  <2>2. m.update \in Updates /\ SoundUpdate(t, m.update)
    BY <2>1 DEF Agreement, IInv, TypeOK, Requests, WorldInv, Sound
  <2> QED BY <1>1, <2>1, <2>2, AppliedRefines
<1>4. CASE Expire(t) \/ Revoke(t) \/ LeaseEnds(t)
  <2>1. SameRoom
    BY <1>4 DEF Expire, Revoke, LeaseEnds, BrokerChanges, SameRoom, Agreement, IInv,
       TypeOK, BrokerTasks
  <2> QED BY <1>1, <1>2, <2>1, HiddenStep
<1>5. CASE BrokerFails(t)
  <2>1. /\ broker[t].state = "open" /\ broker[t].out = None
        /\ broker'[t].state = "failed" /\ broker'[t].out = None
        /\ \A s \in Tasks \ {t} : broker'[s] = broker[s]
    BY <1>5 DEF BrokerFails, BrokerChanges, Agreement, IInv, TypeOK, BrokerTasks,
       WorldInv, Turns
  <2> DEFINE held == [s \in Tasks |-> [state |-> broker[s].state, out |-> broker[s].out]]
  <2>2. /\ held[t] = Outcome!Open
        /\ held' = [held EXCEPT ![t] = [state |-> "failed", out |-> None]]
    BY <2>1 DEF Outcome!Open
  <2>3. Outcome!Fail(t)
    BY <1>1, <1>2, <2>2 DEF Outcome!Fail, SameEnds
  <2> QED BY <2>3 DEF Outcome!Next
<1> QED BY <1>3, <1>4, <1>5 DEF Broker

LEMMA StepRefines == Agreement /\ [Next]_vars => [Outcome!Next]_(Outcome!vars)
<1> SUFFICES ASSUME Agreement, [Next]_vars PROVE [Outcome!Next]_(Outcome!vars)
  OBVIOUS
<1>1. CASE disk' # disk
  BY <1>1, DiskStep, SaveRefines
<1>2. CASE disk' = disk
  <2>1. CASE Crash \/ CalmDown \/ UNCHANGED vars
    BY <1>2, <2>1, HiddenStep DEF Crash, CalmDown, vars, SameReceipts, SameRoom, SameEnds, Stored
  <2> QED BY <1>2, <2>1, MediatorRefines, WorkerRefines, BrokerRefines DEF Next
<1> QED BY <1>1, <1>2

\* The mediator, with its crashes and lost or late requests, does with a task
\* only what ConversationOutcome allows: one turn, one outcome that the turn
\* accounts for, released and settled in this order.
THEOREM Implements == Spec => ImplementsOutcome
<1>1. Init => Outcome!Init
  <2>1. ASSUME Init, NEW t \in Tasks
        PROVE  /\ worker[t].out = None /\ worker[t].acked = FALSE
               /\ [state |-> broker[t].state, out |-> broker[t].out] = Outcome!Open
               /\ Stored(t, {"acknowledged"}) = FALSE
    BY <2>1 DEF Init, Outcome!Open, Stored
  <2> QED BY <2>1 DEF Init, Outcome!Init
<1> QED BY <1>1, StepRefines, Agrees, PTL DEF Spec, ImplementsOutcome, Outcome!Spec
=============================================================================
