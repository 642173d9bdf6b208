-------------------- MODULE ConversationDispatcherProofs --------------------
(***************************************************************************)
(* Proofs about the mediator for any tasks, replies, codes and bounds.     *)
(***************************************************************************)
EXTENDS ConversationDispatcher, TLAPS

\* A step that works on one task has its record in memory.
Working == pc \notin {"idle", "scan", "claim"} => cur \in Tasks /\ rec \in Records

\* What a completed record, receipt or task holds.
Filled(r) == r.phase = "completed" => r.result \in Replies /\ r.update \in Updates
Contents ==
    /\ \A t \in Tasks : disk[t] # None => Filled(disk[t])
    /\ \A t \in Tasks :
         /\ worker[t].phase = "completed" => worker[t].out \in Replies
         /\ worker[t].phase \in {"failed", "interrupted"} => worker[t].out \in Codes \cup {None}
         /\ broker[t].state = "completed" => broker[t].out \in Replies
    /\ todo \subseteq {t \in Tasks : disk[t] # None}

\* What the record in memory holds at the steps that rely on it.
AtStep ==
    /\ pc \in {"receipt", "authority", "workerReceipt"} => Filled(rec)
    /\ pc = "authority" /\ scanning => rec.phase = "completed"
    /\ pc = "checkFailure" => reply \in Codes
    /\ pc = "confirm" => reply \in Replies
    /\ pc \in {"authority2", "ack", "saveCompleted", "post"} => rec.result \in Replies
    /\ pc \in {"saveFail", "postFail", "saveCompleted", "post"} => rec.update \in Updates

\* The record in memory has the stored phase until the intent is stored, and
\* no later save makes a record look unsubmitted again.
Loaded ==
    IF disk[cur] = None THEN rec.phase = "reserved" ELSE rec.phase = disk[cur].phase
Marks ==
    /\ pc \in {"receipt", "authority", "workerReceipt", "admit", "saveReserved"} => Loaded
    /\ pc \in {"admit", "saveReserved"} => rec.phase = "reserved"
    /\ pc = "saveIntent" => rec.phase = "submission-intent" /\ sends[cur] = 0
    /\ pc = "send" => /\ disk[cur] # None /\ disk[cur].phase = "submission-intent"
                      /\ sends[cur] = 0
    /\ pc = "saveQuarantine" => rec.phase = "quarantined"
    /\ pc \in {"saveLost", "saveInterrupted", "saveFail"} => rec.phase = "interrupted"
    /\ pc = "saveCompleted" => rec.phase = "completed"
    /\ pc = "saveAck" => rec.phase = "acknowledged"

\* A turn asked for is marked on disk.
Sent ==
    \A t \in Tasks :
        /\ sends[t] \in {0, 1}
        /\ sends[t] = 1 => disk[t] # None /\ disk[t].phase # "reserved"

IInv == TypeOK /\ Working /\ Contents /\ AtStep /\ Marks /\ Sent

-----------------------------------------------------------------------------
(* The values a step builds are of the types declared for them *)

\* A request to cancel the current task can be added to those on their way.
LEMMA CancelTyped ==
  ASSUME TypeOK, cur \in Tasks
  PROVE  net \cup {CancelTask(cur)} \subseteq Requests
BY DEF TypeOK, CancelTask, Requests

\* So can the post of a stored update and the acknowledgement of a result.
LEMMA PostTyped ==
  ASSUME TypeOK, cur \in Tasks, rec \in Records, rec.update \in Updates
  PROVE  net \cup {Post(cur, rec.lease, rec.update)} \subseteq Requests
BY DEF TypeOK, Post, Requests, Records

LEMMA AckTyped ==
  ASSUME TypeOK, cur \in Tasks, rec.result \in Replies
  PROVE  net \cup {Ack(cur, rec.result)} \subseteq Requests
BY DEF TypeOK, Ack, Requests

\* Changing one task's entry keeps the functions of the two servers typed.
LEMMA BrokerTyped ==
  ASSUME TypeOK, NEW t \in Tasks, NEW b \in BrokerTasks
  PROVE  [broker EXCEPT ![t] = b] \in [Tasks -> BrokerTasks]
BY DEF TypeOK

LEMMA WorkerTyped ==
  ASSUME TypeOK, NEW t \in Tasks, NEW w \in Receipts
  PROVE  [worker EXCEPT ![t] = w] \in [Tasks -> Receipts]
BY DEF TypeOK

\* The broker applies an update by setting a state and what it holds.
LEMMA AppliedTyped ==
  ASSUME TypeOK, NEW t \in Tasks, NEW l, NEW u \in Updates
  PROVE  Applied(t, l, u) \in [Tasks -> BrokerTasks]
<1>1. u.kind \in {"completed", "failed"} /\ u.value \in Replies \cup Codes
  BY DEF Updates
<1>2. CASE Authorized(t, l, broker[t].epoch)
  <2>1. broker[t] \in BrokerTasks
    BY DEF TypeOK
  <2>2. [broker[t] EXCEPT !.state = u.kind, !.out = u.value] \in BrokerTasks
    BY <1>1, <2>1 DEF BrokerTasks
  <2>3. Applied(t, l, u)
          = [broker EXCEPT ![t] = [broker[t] EXCEPT !.state = u.kind, !.out = u.value]]
    BY <1>2, <2>1 DEF Applied, TypeOK
  <2> QED BY <2>2, <2>3, BrokerTyped
<1>3. CASE ~Authorized(t, l, broker[t].epoch)
  BY <1>3 DEF Applied, TypeOK
<1> QED BY <1>2, <1>3

\* fail_with_code leaves a typed record that holds a failed update.
LEMMA FailedRecord ==
  ASSUME rec \in Records, NEW code \in Codes, FailWithCode(code)
  PROVE  /\ rec' \in Records /\ rec'.update \in Updates
         /\ rec'.phase = "interrupted" /\ rec'.result = rec.result
         /\ pc' = "saveFail" /\ UNCHANGED <<scanning, todo, cur, reply>>
<1>1. [kind |-> "failed", value |-> code, id |-> rec.lease] \in Updates
  BY DEF Updates, Records
<1> QED BY <1>1 DEF FailWithCode, GoWith, Records, Phases

\* The completed record holds a result and an update.
LEMMA CompletedTyped ==
  ASSUME rec \in Records, rec.result \in Replies
  PROVE  /\ CompletedRecord \in Records
         /\ CompletedRecord.phase = "completed"
         /\ CompletedRecord.result \in Replies
         /\ CompletedRecord.update \in Updates
<1>1. [kind |-> "completed", value |-> rec.result, id |-> rec.lease] \in Updates
  BY DEF Updates, Records
<1>2. rec.update = None \/ rec.update \in Updates
  BY DEF Records
<1> QED BY <1>1, <1>2 DEF CompletedRecord, Records, Phases

\* What the broker holds for a completed task stays a reply.
LEMMA AppliedContents ==
  ASSUME TypeOK, Contents, NEW t \in Tasks, NEW l, NEW u \in Updates
  PROVE  \A x \in Tasks : Applied(t, l, u)[x].state = "completed"
                            => Applied(t, l, u)[x].out \in Replies
<1>1. u.kind = "completed" => u.value \in Replies
  BY DEF Updates
<1>2. CASE Authorized(t, l, broker[t].epoch)
  BY <1>1, <1>2 DEF Applied, TypeOK, BrokerTasks, Contents
<1>3. CASE ~Authorized(t, l, broker[t].epoch)
  BY <1>3 DEF Applied, Contents
<1> QED BY <1>2, <1>3

-----------------------------------------------------------------------------
(* Each step preserves the invariant *)

LEMMA RunOnceStep ==
  ASSUME IInv, RunOnce
  PROVE  IInv'
<1> USE DEF IInv, RunOnce
<1>1. TypeOK'
  BY DEF TypeOK, Steps
<1>2. Working'
  BY DEF Working
<1>3. Contents'
  BY DEF Contents, Pending
<1>4. AtStep'
  BY DEF AtStep
<1>5. Marks'
  BY DEF Marks
<1>6. Sent'
  BY DEF Sent
<1> QED BY <1>1, <1>2, <1>3, <1>4, <1>5, <1>6

LEMMA LoadNextStep ==
  ASSUME IInv, LoadNext
  PROVE  IInv'
<1> USE DEF IInv, LoadNext
<1>1. TypeOK'
  BY DEF TypeOK, Steps
<1>2. Working'
  BY DEF Working, AtStep, Contents, TypeOK, Records, Phases
<1>3. Contents'
  BY DEF Contents
<1>4. AtStep'
  BY DEF AtStep, Filled, Contents
<1>5. Marks'
  BY DEF Marks, Loaded, Contents
<1>6. Sent'
  BY DEF Sent
<1> QED BY <1>1, <1>2, <1>3, <1>4, <1>5, <1>6

LEMMA ScanDoneStep ==
  ASSUME IInv, ScanDone
  PROVE  IInv'
<1> USE DEF IInv, ScanDone
<1>1. TypeOK'
  BY DEF TypeOK, Steps
<1>2. Working'
  BY DEF Working
<1>3. Contents'
  BY DEF Contents
<1>4. AtStep'
  BY DEF AtStep
<1>5. Marks'
  BY DEF Marks
<1>6. Sent'
  BY DEF Sent
<1> QED BY <1>1, <1>2, <1>3, <1>4, <1>5, <1>6

LEMMA NoTaskStep ==
  ASSUME IInv, NoTask
  PROVE  IInv'
<1> USE DEF IInv, NoTask, Return
<1>1. TypeOK'
  BY DEF TypeOK, Steps
<1>2. Working'
  BY DEF Working
<1>3. Contents'
  BY DEF Contents
<1>4. AtStep'
  BY DEF AtStep
<1>5. Marks'
  BY DEF Marks
<1>6. Sent'
  BY DEF Sent
<1> QED BY <1>1, <1>2, <1>3, <1>4, <1>5, <1>6

LEMMA ClaimStep ==
  ASSUME IInv, Claim
  PROVE  IInv'
<1> USE DEF IInv, Claim
<1>1a. PICK t \in Tasks, renew \in BOOLEAN :
         Lease(t, renew) /\ (Claimed(t) \/ (~calm /\ Return))
  OBVIOUS
<1>1b. /\ broker' \in [Tasks -> BrokerTasks]
       /\ \A x \in Tasks : broker'[x].state = broker[x].state /\ broker'[x].out = broker[x].out
       /\ broker'[t].lease \in 1..MaxLeases
  <2>1. broker[t] \in BrokerTasks /\ broker[t].lease < MaxLeases
    BY <1>1a DEF Lease, Claimable, TypeOK
  <2>2. broker[t].lease + 1 \in 1..MaxLeases
    BY <2>1, ConstantsAssumption DEF BrokerTasks
  <2>3. renew => broker[t].epoch + 1 \in 1..MaxEpochs
    BY <2>1, <1>1a, ConstantsAssumption DEF Lease, BrokerTasks
  <2>4. broker'[t] = LeasedAgain(broker[t], renew)
    BY <1>1a DEF Lease, TypeOK
  <2>5. /\ broker'[t].state = broker[t].state /\ broker'[t].out = broker[t].out
        /\ broker'[t].lease \in 1..MaxLeases
    BY <2>1, <2>2, <2>4 DEF BrokerTasks, LeasedAgain
  <2>6. broker'[t] \in BrokerTasks
    <3>1. broker[t].lease + 1 \in 0..MaxLeases
      BY <2>2, ConstantsAssumption
    <3>2. CASE renew
      BY <2>1, <2>3, <2>4, <3>1, <3>2 DEF BrokerTasks, LeasedAgain
    <3>3. CASE ~renew
      BY <2>1, <2>4, <3>1, <3>3 DEF BrokerTasks, LeasedAgain
    <3> QED BY <3>2, <3>3
  <2>7. broker' = [broker EXCEPT ![t] = broker'[t]]
    BY <1>1a DEF Lease, TypeOK
  <2>8. broker' \in [Tasks -> BrokerTasks]
    BY <2>6, <2>7, BrokerTyped
  <2>9. \A x \in Tasks \ {t} : broker'[x] = broker[x]
    BY <2>7 DEF TypeOK
  <2> QED BY <2>5, <2>8, <2>9
<1>0. /\ pc' \in {"idle", "receipt"}
      /\ pc' = "idle" => Return
      /\ pc' = "receipt" => /\ cur' \in Tasks /\ rec' \in Records /\ Filled(rec')
                            /\ IF disk[cur'] = None THEN rec'.phase = "reserved"
                               ELSE rec'.phase = disk[cur'].phase
                            /\ UNCHANGED <<scanning, todo, reply>>
  <2>1. broker'[t] \in BrokerTasks
    BY <1>1b
  <2>2. FreshRecord(broker'[t]) \in Records
    BY <1>1b, <2>1 DEF FreshRecord, Records, Phases, BrokerTasks
  <2>3. ASSUME disk[t] # None
        PROVE  [disk[t] EXCEPT !.lease = broker'[t].lease] \in Records
    BY <2>3, <1>1b DEF TypeOK, Records
  <2>4. CASE Return
    BY <2>4 DEF Return
  <2>5. CASE /\ pc' = "receipt" /\ cur' = t /\ rec' = TakenUp(t, broker'[t])
             /\ UNCHANGED <<scanning, todo, reply>>
    <3>1. CASE disk[t] = None
      BY <3>1, <2>2, <2>5 DEF TakenUp, FreshRecord, Filled
    <3>2. CASE disk[t] # None
      BY <3>2, <2>3, <2>5 DEF TakenUp, Filled, Contents, TypeOK, Records
    <3> QED BY <3>1, <3>2
  <2> QED BY <1>1a, <2>4, <2>5 DEF Claimed
<1>1. TypeOK'
  BY <1>0, <1>1b DEF TypeOK, Steps, Return
<1>2. Working'
  BY <1>0 DEF Working, Return
<1>3. Contents'
  BY <1>0, <1>1b DEF Contents, Return
<1>4. AtStep'
  BY <1>0 DEF AtStep, Return, Filled
<1>5. Marks'
  BY <1>0 DEF Marks, Return, Loaded
<1>6. Sent'
  BY <1>0 DEF Sent
<1> QED BY <1>1, <1>2, <1>3, <1>4, <1>5, <1>6

LEMMA ClaimFailsStep ==
  ASSUME IInv, ClaimFails
  PROVE  IInv'
<1> USE DEF IInv, ClaimFails, Return
<1>1. TypeOK'
  BY DEF TypeOK, Steps
<1>2. Working'
  BY DEF Working
<1>3. Contents'
  BY DEF Contents
<1>4. AtStep'
  BY DEF AtStep
<1>5. Marks'
  BY DEF Marks
<1>6. Sent'
  BY DEF Sent
<1> QED BY <1>1, <1>2, <1>3, <1>4, <1>5, <1>6

LEMMA ReconcileBrokerStep ==
  ASSUME IInv, ReconcileBroker
  PROVE  IInv'
<1> USE DEF IInv, ReconcileBroker, StillOpen, GoTo, GiveUp, NextFile, Return
<1>1. TypeOK'
  BY DEF TypeOK, Steps
<1>2. Working'
  BY DEF Working
<1>3. Contents'
  BY DEF Contents
<1>4. AtStep'
  BY DEF AtStep, Filled, Working, Contents, TypeOK
<1>5. Marks'
  BY DEF Marks, Loaded
<1>6. Sent'
  BY DEF Sent
<1> QED BY <1>1, <1>2, <1>3, <1>4, <1>5, <1>6

LEMMA CheckAuthorityStep ==
  ASSUME IInv, CheckAuthority
  PROVE  IInv'
<1> USE DEF IInv, CheckAuthority, AuthorityUnknown, AuthorityLost, GoTo, Cancel, NextFile, Return
<1>1. TypeOK'
  <2>1. net' \subseteq Requests
    BY CancelTyped DEF Working, TypeOK
  <2> QED BY <2>1 DEF TypeOK, Steps
<1>2. Working'
  BY DEF Working
<1>3. Contents'
  BY DEF Contents
<1>4. AtStep'
  BY DEF AtStep, Filled
<1>5. Marks'
  BY DEF Marks, Loaded
<1>6. Sent'
  BY DEF Sent
<1> QED BY <1>1, <1>2, <1>3, <1>4, <1>5, <1>6

LEMMA QuarantineStep ==
  ASSUME IInv, Quarantine
  PROVE  IInv'
<1> USE DEF IInv, Quarantine, Cancel, GoWith
<1>1. TypeOK'
  <2>1. net' \subseteq Requests
    BY CancelTyped DEF Working
  <2>2. rec' \in Records
    BY DEF Working, Records, Phases
  <2> QED BY <2>1, <2>2 DEF TypeOK, Steps
<1>2. Working'
  BY DEF Working, Records, Phases
<1>3. Contents'
  BY DEF Contents
<1>4. AtStep'
  BY DEF AtStep
<1>5. Marks'
  BY DEF Marks
<1>6. Sent'
  BY DEF Sent
<1> QED BY <1>1, <1>2, <1>3, <1>4, <1>5, <1>6

LEMMA SaveQuarantineStep ==
  ASSUME IInv, SaveQuarantine
  PROVE  IInv'
<1> USE DEF IInv, SaveQuarantine, Save, GiveUp, NextFile, Return
<1>1. TypeOK'
  BY DEF TypeOK, Steps
<1>2. Working'
  BY DEF Working
<1>3. Contents'
  BY NoneIsAbsence DEF Contents, Filled, Working, Marks, TypeOK
<1>4. AtStep'
  BY DEF AtStep
<1>5. Marks'
  BY NoneIsAbsence DEF Marks
<1>6. Sent'
  BY NoneIsAbsence DEF Sent, Marks, Loaded, Working, TypeOK
<1> QED BY <1>1, <1>2, <1>3, <1>4, <1>5, <1>6

LEMMA WorkerReceiptStep ==
  ASSUME IInv, WorkerReceipt
  PROVE  IInv'
<1> USE DEF IInv, WorkerReceipt
<1>0. /\ net' \subseteq Requests
      /\ pc' \in {"idle", "admit", "authority2", "saveFail"}
      /\ pc' = "idle" => Return
      /\ pc' # "idle" => rec' \in Records /\ UNCHANGED <<scanning, todo, cur, reply>>
      /\ pc' = "admit" => rec.phase = "reserved" /\ UNCHANGED rec
      /\ pc' = "authority2" => rec'.result \in Replies
      /\ pc' = "saveFail" => rec'.update \in Updates
      /\ pc' = "saveFail" => rec'.phase = "interrupted"
  <2>1. rec \in Records /\ cur \in Tasks
    BY DEF Working
  <2>2. CASE /\ worker[cur].phase = "completed" /\ UNCHANGED net
             /\ GoWith("authority2", [rec EXCEPT !.result = worker[cur].out])
    BY <2>1, <2>2 DEF GoWith, Contents, TypeOK, Records
  <2>3. CASE Return /\ UNCHANGED net
    BY <2>3 DEF Return, TypeOK
  <2>4. CASE Cancel /\ \E code \in Codes : FailWithCode(code)
    BY <2>1, <2>4, FailedRecord, CancelTyped DEF Cancel
  <2>5. CASE NeverSubmitted /\ GoTo("admit") /\ UNCHANGED net
    BY <2>1, <2>5 DEF NeverSubmitted, GoTo, TypeOK
  <2>6. ReceiptFailure(cur) \in Codes \cup {None}
    BY <2>1 DEF ReceiptFailure, Contents
  <2> QED BY <2>2, <2>3, <2>4, <2>5, <2>6, ConstantsAssumption
<1>1. TypeOK'
  BY <1>0 DEF TypeOK, Steps, Return
<1>2. Working'
  BY <1>0 DEF Working, Return
<1>3. Contents'
  BY <1>0 DEF Contents, Return
<1>4. AtStep'
  BY <1>0 DEF AtStep, Return
<1>5. Marks'
  BY <1>0 DEF Marks, Return, Loaded
<1>6. Sent'
  BY <1>0 DEF Sent
<1> QED BY <1>1, <1>2, <1>3, <1>4, <1>5, <1>6

LEMMA AdmitStep ==
  ASSUME IInv, Admit
  PROVE  IInv'
<1> USE DEF IInv, Admit, GoTo, Return
<1>1. TypeOK'
  BY DEF TypeOK, Steps
<1>2. Working'
  BY DEF Working
<1>3. Contents'
  BY DEF Contents
<1>4. AtStep'
  BY DEF AtStep
<1>5. Marks'
  BY DEF Marks, Loaded
<1>6. Sent'
  BY DEF Sent
<1> QED BY <1>1, <1>2, <1>3, <1>4, <1>5, <1>6

LEMMA SaveReservedStep ==
  ASSUME IInv, SaveReserved
  PROVE  IInv'
<1> USE DEF IInv, SaveReserved, Save, GoWith
<1>1. TypeOK'
  BY DEF TypeOK, Steps, Working, Records, Phases
<1>2. Working'
  BY DEF Working, Records, Phases
<1>3. Contents'
  BY NoneIsAbsence DEF Contents, Filled, Working, Marks, TypeOK
<1>4. AtStep'
  BY DEF AtStep
<1>5. Marks'
  BY NoneIsAbsence DEF Marks, Loaded, Working, TypeOK, Sent
<1>6. Sent'
  BY NoneIsAbsence DEF Sent, Marks, Loaded
<1> QED BY <1>1, <1>2, <1>3, <1>4, <1>5, <1>6

LEMMA SaveIntentStep ==
  ASSUME IInv, SaveIntent
  PROVE  IInv'
<1> USE DEF IInv, SaveIntent, Save, GoTo
<1>1. TypeOK'
  BY DEF TypeOK, Steps
<1>2. Working'
  BY DEF Working
<1>3. Contents'
  BY NoneIsAbsence DEF Contents, Filled, Working, Marks, TypeOK
<1>4. AtStep'
  BY DEF AtStep
<1>5. Marks'
  BY NoneIsAbsence DEF Marks, Loaded, Working, TypeOK
<1>6. Sent'
  BY NoneIsAbsence DEF Sent, Marks, Loaded
<1> QED BY <1>1, <1>2, <1>3, <1>4, <1>5, <1>6

LEMMA SendStep ==
  ASSUME IInv, Send
  PROVE  IInv'
<1> USE DEF IInv, Send, GoTo
<1>1. TypeOK'
  <2>1. net' \subseteq Requests
    BY DEF Working, TypeOK, SendMessage, Requests
  <2>2. sends' \in [Tasks -> Nat]
    <3>1. sends[cur] + 1 \in Nat
      BY DEF TypeOK, Working
    <3> QED BY <3>1 DEF TypeOK
  <2> QED BY <2>1, <2>2 DEF TypeOK, Steps
<1>2. Working'
  BY DEF Working
<1>3. Contents'
  BY DEF Contents
<1>4. AtStep'
  BY DEF AtStep
<1>5. Marks'
  BY DEF Marks
<1>6. Sent'
  BY DEF Sent, Marks, Loaded
<1> QED BY <1>1, <1>2, <1>3, <1>4, <1>5, <1>6

LEMMA RepliedStep ==
  ASSUME IInv, Replied
  PROVE  IInv'
<1> USE DEF IInv, Replied, Return
<1>1. TypeOK'
  BY DEF TypeOK, Steps
<1>2. Working'
  BY DEF Working
<1>3. Contents'
  BY DEF Contents
<1>4. AtStep'
  BY DEF AtStep
<1>5. Marks'
  BY DEF Marks
<1>6. Sent'
  BY DEF Sent
<1> QED BY <1>1, <1>2, <1>3, <1>4, <1>5, <1>6

LEMMA RejectedStep ==
  ASSUME IInv, Rejected
  PROVE  IInv'
<1> USE DEF IInv, Rejected
<1>1. TypeOK'
  BY DEF TypeOK, Steps
<1>2. Working'
  BY DEF Working
<1>3. Contents'
  BY DEF Contents
<1>4. AtStep'
  BY DEF AtStep
<1>5. Marks'
  BY DEF Marks
<1>6. Sent'
  BY DEF Sent
<1> QED BY <1>1, <1>2, <1>3, <1>4, <1>5, <1>6

LEMMA PollAuthorityStep ==
  ASSUME IInv, PollAuthority
  PROVE  IInv'
<1> USE DEF IInv, PollAuthority, Cancel, GoWith
<1>1. TypeOK'
  <2>1. net' \subseteq Requests
    BY CancelTyped DEF Working
  <2>2. rec' \in Records
    BY DEF Working, Records, Phases
  <2> QED BY <2>1, <2>2 DEF TypeOK, Steps
<1>2. Working'
  BY DEF Working, Records, Phases
<1>3. Contents'
  BY DEF Contents
<1>4. AtStep'
  BY DEF AtStep
<1>5. Marks'
  BY DEF Marks
<1>6. Sent'
  BY DEF Sent
<1> QED BY <1>1, <1>2, <1>3, <1>4, <1>5, <1>6

LEMMA SaveLostStep ==
  ASSUME IInv, SaveLost
  PROVE  IInv'
<1> USE DEF IInv, SaveLost, Save, Return
<1>1. TypeOK'
  BY DEF TypeOK, Steps
<1>2. Working'
  BY DEF Working
<1>3. Contents'
  BY NoneIsAbsence DEF Contents, Filled, Working, Marks, TypeOK
<1>4. AtStep'
  BY DEF AtStep
<1>5. Marks'
  BY NoneIsAbsence DEF Marks
<1>6. Sent'
  BY NoneIsAbsence DEF Sent, Marks, Loaded, Working, TypeOK
<1> QED BY <1>1, <1>2, <1>3, <1>4, <1>5, <1>6

LEMMA SendFailsStep ==
  ASSUME IInv, SendFails
  PROVE  IInv'
<1> USE DEF IInv, SendFails, Uncertain, Cancel, GoWith
<1>1. TypeOK'
  <2>1. net' \subseteq Requests
    BY CancelTyped DEF Working
  <2>2. rec' \in Records
    BY DEF Working, Records, Phases
  <2> QED BY <2>1, <2>2 DEF TypeOK, Steps
<1>2. Working'
  BY DEF Working, Records, Phases
<1>3. Contents'
  BY DEF Contents
<1>4. AtStep'
  BY DEF AtStep
<1>5. Marks'
  BY DEF Marks
<1>6. Sent'
  BY DEF Sent
<1> QED BY <1>1, <1>2, <1>3, <1>4, <1>5, <1>6

LEMMA CheckFailureStep ==
  ASSUME IInv, CheckFailure
  PROVE  IInv'
<1> USE DEF IInv, CheckFailure
<1>0. /\ rec' \in Records /\ rec'.phase = "interrupted"
      /\ pc' \in {"saveFail", "saveInterrupted"}
      /\ pc' = "saveFail" => rec'.update \in Updates
      /\ net' \subseteq Requests
      /\ UNCHANGED <<scanning, todo, cur, reply>>
  <2>1. rec \in Records /\ cur \in Tasks /\ reply \in Codes
    BY DEF Working, AtStep
  <2>2. CASE FailWithCode(reply) /\ UNCHANGED net
    BY <2>1, <2>2, FailedRecord DEF TypeOK
  <2>3. CASE Uncertain
    BY <2>1, <2>3, CancelTyped DEF Uncertain, Cancel, GoWith, Records, Phases
  <2> QED BY <2>2, <2>3
<1>1. TypeOK'
  BY <1>0 DEF TypeOK, Steps
<1>2. Working'
  BY <1>0 DEF Working
<1>3. Contents'
  BY <1>0 DEF Contents
<1>4. AtStep'
  BY <1>0 DEF AtStep
<1>5. Marks'
  BY <1>0 DEF Marks
<1>6. Sent'
  BY <1>0 DEF Sent
<1> QED BY <1>1, <1>2, <1>3, <1>4, <1>5, <1>6

LEMMA SaveInterruptedStep ==
  ASSUME IInv, SaveInterrupted
  PROVE  IInv'
<1> USE DEF IInv, SaveInterrupted, Save
<1>0. /\ rec \in Records /\ rec.phase = "interrupted" /\ cur \in Tasks
      /\ rec' \in Records /\ rec'.update \in Updates
      /\ rec'.phase = "interrupted" /\ pc' = "saveFail"
      /\ UNCHANGED <<scanning, todo, cur, reply>>
  <2>1. rec \in Records /\ cur \in Tasks
    BY DEF Working
  <2>2. rec.phase = "interrupted"
    BY DEF Marks
  <2> QED BY <2>1, <2>2, FailedRecord, ConstantsAssumption
<1>1. TypeOK'
  BY <1>0 DEF TypeOK, Steps, Records
<1>2. Working'
  BY <1>0 DEF Working
<1>3. Contents'
  BY <1>0, NoneIsAbsence DEF Contents, Filled, TypeOK
<1>4. AtStep'
  BY <1>0 DEF AtStep
<1>5. Marks'
  BY <1>0 DEF Marks
<1>6. Sent'
  BY <1>0, NoneIsAbsence DEF Sent, TypeOK
<1> QED BY <1>1, <1>2, <1>3, <1>4, <1>5, <1>6

LEMMA SaveFailStep ==
  ASSUME IInv, SaveFail
  PROVE  IInv'
<1> USE DEF IInv, SaveFail, Save, GoTo
<1>1. TypeOK'
  BY DEF TypeOK, Steps
<1>2. Working'
  BY DEF Working
<1>3. Contents'
  BY NoneIsAbsence DEF Contents, Filled, Working, Marks, TypeOK
<1>4. AtStep'
  BY DEF AtStep
<1>5. Marks'
  BY NoneIsAbsence DEF Marks
<1>6. Sent'
  BY NoneIsAbsence DEF Sent, Marks, Loaded, Working, TypeOK
<1> QED BY <1>1, <1>2, <1>3, <1>4, <1>5, <1>6

LEMMA PostFailStep ==
  ASSUME IInv, PostFail
  PROVE  IInv'
<1> USE DEF IInv, PostFail, Return
<1>0. /\ broker' \in [Tasks -> BrokerTasks]
      /\ net' \subseteq Requests
      /\ \A t \in Tasks : broker'[t].state = "completed" => broker'[t].out \in Replies
  <2>1. rec \in Records /\ cur \in Tasks /\ rec.update \in Updates
    BY DEF Working, AtStep
  <2>2. CASE broker' = Applied(cur, rec.lease, rec.update) /\ UNCHANGED net
    BY <2>1, <2>2, AppliedTyped, AppliedContents DEF TypeOK
  <2>3. CASE /\ net' = net \cup {Post(cur, rec.lease, rec.update)}
             /\ UNCHANGED broker
    BY <2>1, <2>3, PostTyped DEF TypeOK, Contents
  <2> QED BY <2>2, <2>3
<1>1. TypeOK'
  BY <1>0 DEF TypeOK, Steps
<1>2. Working'
  BY DEF Working
<1>3. Contents'
  BY <1>0 DEF Contents
<1>4. AtStep'
  BY DEF AtStep
<1>5. Marks'
  BY DEF Marks
<1>6. Sent'
  BY DEF Sent
<1> QED BY <1>1, <1>2, <1>3, <1>4, <1>5, <1>6

LEMMA ConfirmStep ==
  ASSUME IInv, Confirm
  PROVE  IInv'
<1> USE DEF IInv, Confirm, ReceiptConfirms, GoWith, Return
<1>1. TypeOK'
  BY DEF TypeOK, Steps, Working, AtStep, Contents, Records, Phases, Requests, Receipts, BrokerTasks
<1>2. Working'
  BY DEF Working, AtStep, Contents, TypeOK, Records, Phases
<1>3. Contents'
  BY DEF Contents
<1>4. AtStep'
  BY DEF AtStep, Filled, Working, Records, Phases, TypeOK, Contents
<1>5. Marks'
  BY DEF Marks
<1>6. Sent'
  BY DEF Sent
<1> QED BY <1>1, <1>2, <1>3, <1>4, <1>5, <1>6

LEMMA CheckAuthorityAgainStep ==
  ASSUME IInv, CheckAuthorityAgain
  PROVE  IInv'
<1> USE DEF IInv, CheckAuthorityAgain
<1>0. /\ net' \subseteq Requests
      /\ pc' \in {"idle", "saveCompleted"}
      /\ pc' = "idle" => Return
      /\ pc' = "saveCompleted" =>
           /\ UNCHANGED <<scanning, todo, cur, reply>>
           /\ rec' \in Records /\ rec'.phase = "completed"
           /\ rec'.result \in Replies /\ rec'.update \in Updates
  <2>1. rec \in Records /\ cur \in Tasks /\ rec.result \in Replies
    BY DEF Working, AtStep
  <2>2. CASE GoWith("saveCompleted", CompletedRecord) /\ UNCHANGED net
    BY <2>1, <2>2, CompletedTyped DEF GoWith, TypeOK
  <2>3. CASE Cancel /\ Return
    BY <2>1, <2>3, CancelTyped DEF Cancel, Return
  <2> QED BY <2>2, <2>3
<1>1. TypeOK'
  BY <1>0 DEF TypeOK, Steps, Return
<1>2. Working'
  BY <1>0 DEF Working, Return
<1>3. Contents'
  BY <1>0 DEF Contents, Return
<1>4. AtStep'
  BY <1>0 DEF AtStep, Return
<1>5. Marks'
  BY <1>0 DEF Marks, Return
<1>6. Sent'
  BY <1>0 DEF Sent
<1> QED BY <1>1, <1>2, <1>3, <1>4, <1>5, <1>6

LEMMA SaveCompletedStep ==
  ASSUME IInv, SaveCompleted
  PROVE  IInv'
<1> USE DEF IInv, SaveCompleted, Save, GoTo
<1>1. TypeOK'
  BY DEF TypeOK, Steps
<1>2. Working'
  BY DEF Working
<1>3. Contents'
  BY NoneIsAbsence DEF Contents, Filled, Working, AtStep, Marks, TypeOK
<1>4. AtStep'
  BY DEF AtStep
<1>5. Marks'
  BY NoneIsAbsence DEF Marks
<1>6. Sent'
  BY NoneIsAbsence DEF Sent, Marks, Loaded, Working, TypeOK
<1> QED BY <1>1, <1>2, <1>3, <1>4, <1>5, <1>6

LEMMA PostUpdateStep ==
  ASSUME IInv, PostUpdate
  PROVE  IInv'
<1> USE DEF IInv, PostUpdate, Acknowledged, GoTo, GiveUp, NextFile, Return
<1>0. /\ broker' \in [Tasks -> BrokerTasks]
      /\ net' \subseteq Requests
      /\ \A t \in Tasks : broker'[t].state = "completed" => broker'[t].out \in Replies
  <2>1. rec \in Records /\ cur \in Tasks /\ rec.update \in Updates
    BY DEF Working, AtStep
  <2>2. CASE broker' = Applied(cur, rec.lease, rec.update) /\ UNCHANGED net
    BY <2>1, <2>2, AppliedTyped, AppliedContents DEF TypeOK
  <2>3. CASE /\ net' = net \cup {Post(cur, rec.lease, rec.update)}
             /\ UNCHANGED broker
    BY <2>1, <2>3, PostTyped DEF TypeOK, Contents
  <2> QED BY <2>2, <2>3
<1>1. TypeOK'
  BY <1>0 DEF TypeOK, Steps
<1>2. Working'
  BY DEF Working
<1>3. Contents'
  BY <1>0 DEF Contents
<1>4. AtStep'
  BY DEF AtStep
<1>5. Marks'
  BY DEF Marks
<1>6. Sent'
  BY DEF Sent
<1> QED BY <1>1, <1>2, <1>3, <1>4, <1>5, <1>6

LEMMA AckWorkerStep ==
  ASSUME IInv, AckWorker
  PROVE  IInv'
<1> USE DEF IInv, AckWorker
<1>0. /\ worker' \in [Tasks -> Receipts] /\ net' \subseteq Requests
      /\ \A t \in Tasks : worker'[t].phase = worker[t].phase /\ worker'[t].out = worker[t].out
      /\ pc' \in {"idle", "scan", "saveAck"}
      /\ pc' = "saveAck" => /\ rec' \in Records /\ rec'.phase = "acknowledged"
                            /\ UNCHANGED <<scanning, todo, cur, reply>>
      /\ pc' # "saveAck" => GiveUp
  <2>1. rec \in Records /\ cur \in Tasks /\ rec.result \in Replies
    BY DEF Working, AtStep
  <2>2. CASE /\ worker' = Told(cur, rec.result) /\ UNCHANGED net
             /\ GoWith("saveAck", [rec EXCEPT !.ack = rec.result, !.phase = "acknowledged"])
    <3>1. rec' \in Records
      BY <2>1, <2>2 DEF GoWith, Records, Phases
    <3>2. worker' \in [Tasks -> Receipts]
      BY <2>1, <2>2 DEF Told, TypeOK, Receipts
    <3> QED BY <2>1, <2>2, <3>1, <3>2 DEF Told, GoWith, TypeOK, Receipts, Records
  <2>3. CASE GiveUp /\ UNCHANGED worker /\ net' = net \cup {Ack(cur, rec.result)}
    BY <2>1, <2>3, AckTyped DEF GiveUp, NextFile, Return, TypeOK
  <2> QED BY <2>2, <2>3
<1>1. TypeOK'
  BY <1>0 DEF TypeOK, Steps, GiveUp, NextFile, Return
<1>2. Working'
  BY <1>0 DEF Working, GiveUp, NextFile, Return
<1>3. Contents'
  BY <1>0 DEF Contents, GiveUp, NextFile, Return
<1>4. AtStep'
  BY <1>0 DEF AtStep, GiveUp, NextFile, Return
<1>5. Marks'
  BY <1>0 DEF Marks, GiveUp, NextFile, Return
<1>6. Sent'
  BY <1>0 DEF Sent
<1> QED BY <1>1, <1>2, <1>3, <1>4, <1>5, <1>6

LEMMA SaveAckStep ==
  ASSUME IInv, SaveAck
  PROVE  IInv'
<1> USE DEF IInv, SaveAck, Save, Return
<1>1. TypeOK'
  BY DEF TypeOK, Steps
<1>2. Working'
  BY DEF Working
<1>3. Contents'
  BY NoneIsAbsence DEF Contents, Filled, Working, Marks, TypeOK
<1>4. AtStep'
  BY DEF AtStep
<1>5. Marks'
  BY NoneIsAbsence DEF Marks
<1>6. Sent'
  BY NoneIsAbsence DEF Sent, Marks, Loaded, Working, TypeOK
<1> QED BY <1>1, <1>2, <1>3, <1>4, <1>5, <1>6

LEMMA CrashStep ==
  ASSUME IInv, Crash
  PROVE  IInv'
<1> USE DEF IInv, Crash, Return
<1>1. TypeOK'
  BY DEF TypeOK, Steps
<1>2. Working'
  BY DEF Working
<1>3. Contents'
  BY DEF Contents
<1>4. AtStep'
  BY DEF AtStep
<1>5. Marks'
  BY DEF Marks
<1>6. Sent'
  BY DEF Sent
<1> QED BY <1>1, <1>2, <1>3, <1>4, <1>5, <1>6

LEMMA CalmDownStep ==
  ASSUME IInv, CalmDown
  PROVE  IInv'
<1> USE DEF IInv, CalmDown, memory
<1>1. TypeOK'
  BY DEF TypeOK, Steps
<1>2. Working'
  BY DEF Working
<1>3. Contents'
  BY DEF Contents
<1>4. AtStep'
  BY DEF AtStep
<1>5. Marks'
  BY DEF Marks, Loaded
<1>6. Sent'
  BY DEF Sent
<1> QED BY <1>1, <1>2, <1>3, <1>4, <1>5, <1>6

LEMMA WorkerStartStep ==
  ASSUME IInv, NEW t \in Tasks, WorkerStart(t)
  PROVE  IInv'
<1> USE DEF IInv, WorkerStart, Unsaid, memory
<1>1. TypeOK'
  <2>1. worker' \in [Tasks -> Receipts]
    BY DEF TypeOK, Receipts
  <2>2. net' \subseteq Requests
    BY DEF TypeOK
  <2> QED BY <2>1, <2>2 DEF TypeOK
<1>2. Working'
  BY DEF Working
<1>3. Contents'
  BY DEF Contents
<1>4. AtStep'
  BY DEF AtStep
<1>5. Marks'
  BY DEF Marks, Loaded
<1>6. Sent'
  BY DEF Sent
<1> QED BY <1>1, <1>2, <1>3, <1>4, <1>5, <1>6

LEMMA WorkerEndsStep ==
  ASSUME IInv, NEW t \in Tasks, WorkerEnds(t)
  PROVE  IInv'
<1> USE DEF IInv, WorkerEnds, Unsaid, memory
<1>1. TypeOK'
  <2>1. worker' \in [Tasks -> Receipts]
    BY DEF TypeOK, Receipts
  <2>2. net' \subseteq Requests
    BY DEF TypeOK
  <2> QED BY <2>1, <2>2 DEF TypeOK
<1>2. Working'
  BY DEF Working
<1>3. Contents'
  <2>1. \A x \in Tasks \ {t} : worker'[x] = worker[x]
    BY DEF TypeOK
  <2>2. /\ worker'[t].phase = "completed" => worker'[t].out \in Replies
        /\ worker'[t].phase \in {"failed", "interrupted"} => worker'[t].out \in Codes \cup {None}
    BY ConstantsAssumption DEF TypeOK, Receipts, Contents
  <2> QED BY <2>1, <2>2 DEF Contents
<1>4. AtStep'
  BY DEF AtStep
<1>5. Marks'
  BY DEF Marks, Loaded
<1>6. Sent'
  BY DEF Sent
<1> QED BY <1>1, <1>2, <1>3, <1>4, <1>5, <1>6

LEMMA WorkerCancelsStep ==
  ASSUME IInv, NEW t \in Tasks, WorkerCancels(t)
  PROVE  IInv'
<1> USE DEF IInv, WorkerCancels, Unsaid, memory
<1>1. TypeOK'
  <2>1. worker' \in [Tasks -> Receipts]
    BY ConstantsAssumption DEF TypeOK, Receipts
  <2>2. net' \subseteq Requests
    BY DEF TypeOK
  <2> QED BY <2>1, <2>2 DEF TypeOK
<1>2. Working'
  BY DEF Working
<1>3. Contents'
  <2>1. \A x \in Tasks \ {t} : worker'[x] = worker[x]
    BY DEF TypeOK
  <2>2. /\ worker'[t].phase = "completed" => worker'[t].out \in Replies
        /\ worker'[t].phase \in {"failed", "interrupted"} => worker'[t].out \in Codes \cup {None}
    BY ConstantsAssumption DEF TypeOK, Receipts, Contents
  <2> QED BY <2>1, <2>2 DEF Contents
<1>4. AtStep'
  BY DEF AtStep
<1>5. Marks'
  BY DEF Marks, Loaded
<1>6. Sent'
  BY DEF Sent
<1> QED BY <1>1, <1>2, <1>3, <1>4, <1>5, <1>6

LEMMA WorkerAckedStep ==
  ASSUME IInv, NEW t \in Tasks, WorkerAcked(t)
  PROVE  IInv'
<1> USE DEF IInv, WorkerAcked, Told, Unsaid, memory
<1>1. TypeOK'
  <2>1. PICK a \in Replies :
          /\ net' = net \ {Ack(t, a)}
          /\ worker' = IF WorkerAccepts(t, a)
                       THEN [worker EXCEPT ![t].acked = TRUE] ELSE worker
    OBVIOUS
  <2>2. [worker[t] EXCEPT !.acked = TRUE] \in Receipts
    BY DEF TypeOK, Receipts
  <2>3. worker' \in [Tasks -> Receipts]
    BY <2>1, <2>2, WorkerTyped DEF TypeOK
  <2> QED BY <2>1, <2>3 DEF TypeOK
<1>2. Working'
  BY DEF Working
<1>3. Contents'
  BY DEF Contents
<1>4. AtStep'
  BY DEF AtStep
<1>5. Marks'
  BY DEF Marks, Loaded
<1>6. Sent'
  BY DEF Sent
<1> QED BY <1>1, <1>2, <1>3, <1>4, <1>5, <1>6

LEMMA BrokerUpdatedStep ==
  ASSUME IInv, NEW t \in Tasks, BrokerUpdated(t)
  PROVE  IInv'
<1> USE DEF IInv, BrokerUpdated, Unsaid, memory
<1>0. /\ broker' \in [Tasks -> BrokerTasks] /\ net' \subseteq Requests
      /\ \A x \in Tasks : broker'[x].state = "completed" => broker'[x].out \in Replies
  <2>1. PICK m \in net : m.kind = "update" /\ broker' = Applied(t, m.lease, m.update)
    OBVIOUS
  <2>2. m.update \in Updates
    BY <2>1 DEF TypeOK, Requests
  <2> QED BY <2>1, <2>2, AppliedTyped, AppliedContents DEF TypeOK
<1>1. TypeOK'
  BY <1>0 DEF TypeOK
<1>2. Working'
  BY DEF Working
<1>3. Contents'
  BY <1>0 DEF Contents
<1>4. AtStep'
  BY DEF AtStep
<1>5. Marks'
  BY DEF Marks, Loaded
<1>6. Sent'
  BY DEF Sent
<1> QED BY <1>1, <1>2, <1>3, <1>4, <1>5, <1>6

LEMMA ExpireStep ==
  ASSUME IInv, NEW t \in Tasks, Expire(t)
  PROVE  IInv'
<1> USE DEF IInv, Expire, Unsaid, memory, BrokerChanges
<1>1. TypeOK'
  <2>1. [broker[t] EXCEPT !.expired = TRUE] \in BrokerTasks
    BY DEF TypeOK, BrokerTasks
  <2> QED BY <2>1, BrokerTyped DEF TypeOK
<1>2. Working'
  BY DEF Working
<1>3. Contents'
  BY DEF Contents
<1>4. AtStep'
  BY DEF AtStep
<1>5. Marks'
  BY DEF Marks, Loaded
<1>6. Sent'
  BY DEF Sent
<1> QED BY <1>1, <1>2, <1>3, <1>4, <1>5, <1>6

LEMMA RevokeStep ==
  ASSUME IInv, NEW t \in Tasks, Revoke(t)
  PROVE  IInv'
<1> USE DEF IInv, Revoke, Unsaid, memory, BrokerChanges
<1>1. TypeOK'
  <2>1. [broker[t] EXCEPT !.revoked = TRUE] \in BrokerTasks
    BY DEF TypeOK, BrokerTasks
  <2> QED BY <2>1, BrokerTyped DEF TypeOK
<1>2. Working'
  BY DEF Working
<1>3. Contents'
  BY DEF Contents
<1>4. AtStep'
  BY DEF AtStep
<1>5. Marks'
  BY DEF Marks, Loaded
<1>6. Sent'
  BY DEF Sent
<1> QED BY <1>1, <1>2, <1>3, <1>4, <1>5, <1>6

LEMMA LeaseEndsStep ==
  ASSUME IInv, NEW t \in Tasks, LeaseEnds(t)
  PROVE  IInv'
<1> USE DEF IInv, LeaseEnds, Unsaid, memory, BrokerChanges
<1>1. TypeOK'
  <2>1. [broker[t] EXCEPT !.leased = FALSE] \in BrokerTasks
    BY DEF TypeOK, BrokerTasks
  <2> QED BY <2>1, BrokerTyped DEF TypeOK
<1>2. Working'
  BY DEF Working
<1>3. Contents'
  BY DEF Contents
<1>4. AtStep'
  BY DEF AtStep
<1>5. Marks'
  BY DEF Marks, Loaded
<1>6. Sent'
  BY DEF Sent
<1> QED BY <1>1, <1>2, <1>3, <1>4, <1>5, <1>6

LEMMA BrokerFailsStep ==
  ASSUME IInv, NEW t \in Tasks, BrokerFails(t)
  PROVE  IInv'
<1> USE DEF IInv, BrokerFails, Unsaid, memory, BrokerChanges
<1>1. TypeOK'
  <2>1. [broker[t] EXCEPT !.state = "failed"] \in BrokerTasks
    BY DEF TypeOK, BrokerTasks
  <2> QED BY <2>1, BrokerTyped DEF TypeOK
<1>2. Working'
  BY DEF Working
<1>3. Contents'
  BY DEF Contents
<1>4. AtStep'
  BY DEF AtStep
<1>5. Marks'
  BY DEF Marks, Loaded
<1>6. Sent'
  BY DEF Sent, Marks, Loaded, Working, TypeOK
<1> QED BY <1>1, <1>2, <1>3, <1>4, <1>5, <1>6

-----------------------------------------------------------------------------
(* The invariant holds in every reachable state *)

LEMMA InitIInv == Init => IInv
<1> SUFFICES ASSUME Init PROVE IInv
  OBVIOUS
<1>1. TypeOK
  <2>1. broker \in [Tasks -> BrokerTasks]
    BY ConstantsAssumption DEF Init, BrokerTasks
  <2>2. worker \in [Tasks -> Receipts]
    BY DEF Init, Receipts
  <2>3. sends \in [Tasks -> Nat] /\ disk \in [Tasks -> Records \cup {None}]
    BY DEF Init
  <2> QED BY <2>1, <2>2, <2>3 DEF Init, TypeOK, Steps
<1>2. Working /\ AtStep /\ Marks
  BY DEF Init, Working, AtStep, Marks
<1>3. Contents /\ Sent
  BY DEF Init, Contents, Sent
<1> QED BY <1>1, <1>2, <1>3 DEF IInv

LEMMA StutterIInv == ASSUME IInv, UNCHANGED vars PROVE IInv'
<1> USE DEF IInv, vars, memory
<1>1. TypeOK'
  BY DEF TypeOK
<1>2. Working' /\ AtStep'
  BY DEF Working, AtStep, Filled
<1>3. Contents' /\ Sent'
  BY DEF Contents, Filled, Sent
<1>4. Marks'
  BY DEF Marks, Loaded
<1> QED BY <1>1, <1>2, <1>3, <1>4

\* One case per action of the mediator, of the worker and of the broker.
LEMMA NextIInv == ASSUME IInv, [Next]_vars PROVE IInv'
<1>1. CASE Scan \/ Claiming
  BY <1>1, RunOnceStep, LoadNextStep, ScanDoneStep, NoTaskStep, ClaimStep,
     ClaimFailsStep DEF Scan, Claiming
<1>2. CASE Reconcile \/ Submit
  BY <1>2, ReconcileBrokerStep, CheckAuthorityStep, QuarantineStep,
     SaveQuarantineStep, WorkerReceiptStep, AdmitStep, SaveReservedStep,
     SaveIntentStep, SendStep DEF Reconcile, Submit
<1>3. CASE Turn \/ Fail
  BY <1>3, RepliedStep, RejectedStep, PollAuthorityStep, SaveLostStep,
     SendFailsStep, CheckFailureStep, SaveInterruptedStep, SaveFailStep,
     PostFailStep DEF Turn, Fail
<1>4. CASE Finish
  BY <1>4, ConfirmStep, CheckAuthorityAgainStep, SaveCompletedStep,
     PostUpdateStep, AckWorkerStep, SaveAckStep DEF Finish
<1>5. CASE Crash \/ CalmDown
  BY <1>5, CrashStep, CalmDownStep
<1>6. ASSUME NEW t \in Tasks, Worker(t) PROVE IInv'
  BY <1>6, WorkerStartStep, WorkerEndsStep, WorkerCancelsStep, WorkerAckedStep
     DEF Worker
<1>7. ASSUME NEW t \in Tasks, Broker(t) PROVE IInv'
  BY <1>7, BrokerUpdatedStep, ExpireStep, RevokeStep, LeaseEndsStep,
     BrokerFailsStep DEF Broker
<1>8. CASE UNCHANGED vars
  BY <1>8, StutterIInv
<1> QED BY <1>1, <1>2, <1>3, <1>4, <1>5, <1>6, <1>7, <1>8 DEF Next, Mediator

\* The strengthened invariant of the mediator, for any constants.
THEOREM Invariance == Spec => []IInv
<1>1. IInv /\ [Next]_vars => IInv'
  BY NextIInv
<1> QED BY InitIInv, <1>1, PTL DEF Spec

\* Every variable keeps its type: no step reads a record, a result or an
\* update that is not there.
THEOREM TypeCorrect == Spec => []TypeOK
<1>1. IInv => TypeOK
  BY DEF IInv
<1> QED BY Invariance, <1>1, PTL

\* At most one provider turn is asked for per task (run_once, the guard on
\* the reserved phase and the intent stored before the SendMessage request).
THEOREM AtMostOneTurn == Spec => []SendOnce
<1>1. IInv => SendOnce
  BY DEF IInv, Sent, SendOnce
<1> QED BY Invariance, <1>1, PTL
=============================================================================
