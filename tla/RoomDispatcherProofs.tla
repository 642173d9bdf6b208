------------------------ MODULE RoomDispatcherProofs ------------------------
(***************************************************************************)
(* Proofs about the room dispatcher for any tasks and any bound of leases. *)
(***************************************************************************)
EXTENDS RoomDispatcher, TLAPS

\* The room has the progress event n, and all those before n.
Shown(t, n) == \E u \in room[t] : UpdateId(u) = <<n, "progressed">>
ShownBelow(t, n) == \A k \in 0..2 : k < n => Shown(t, k)

\* What the room must have before it may be offered u.
Ready(t, u) ==
    /\ u.kind = "progressed" => ShownBelow(t, u.ordinal)
    /\ u.kind = "succeeded" => ShownBelow(t, 3)

\* The types of what run_once does not keep itself.
WorldTypes ==
    /\ room \in [Tasks -> SUBSET Updates] /\ broker \in [Tasks -> Leases]
    /\ net \subseteq Posts /\ calm \in BOOLEAN

\* Only the failure of a packet that was not verified may lack the time of
\* the invocation.
DatedUpdate(u) == u.kind \notin Codes => u.at = 0

Working == pc \in {"fetch", "select", "submit"}

\* A call that works has a task under its latest lease.
Holding ==
    /\ Working => task \in Tasks /\ lease \in 1..MaxLeases /\ lease = broker[task].lease
    /\ pc = "submit" => update \in Updates
    /\ pc \notin {"select", "submit"} => NoInvocation

\* The channel holds the next event or none.
Channel ==
    /\ \/ chan = {} /\ sent = received
       \/ chan = {received} /\ sent = received + 1
    /\ ended => sent = 4
    /\ terminal <=> received = 4

\* The room is ready for all that this call has submitted.
Kept ==
    /\ pc = "select" => ShownBelow(task, received)
    /\ pc = "submit" =>
         /\ Ready(task, update) /\ DatedUpdate(update)
         /\ update.kind = "progressed" => received = update.ordinal + 1

\* So it is for late updates, and no lease of theirs is yet to come.
InFlight ==
    \A m \in net : /\ Ready(m.task, m.update) /\ DatedUpdate(m.update)
                   /\ m.lease <= broker[m.task].lease

Ordered ==
    \A t \in Tasks : \A u \in room[t] : Ready(t, u) /\ DatedUpdate(u)

\* The failure that the room has, or may get, of a task at work is the one
\* being submitted.
OneFailure ==
    Working =>
      /\ \A m \in net : m.task = task /\ m.lease = lease /\ m.update.kind \in Codes
                          => pc = "submit" /\ update = m.update
      /\ \A v \in room[task] : v.kind \in Codes => pc = "submit" /\ update = v

IInv == /\ TypeOK /\ Holding /\ Channel /\ Kept /\ InFlight /\ Ordered
        /\ OneFailure

-----------------------------------------------------------------------------
(* Updates, and a room that has taken one more *)

\* The updates a call builds are updates.
LEMMA UpdatesTyped ==
  /\ \A n \in 0..2 : Progress(n) \in Updates
  /\ Success \in Updates
  /\ \A code \in Codes, n \in 0..4, at \in 0..MaxLeases : Failure(code, n, at) \in Updates
BY DispatcherConstants DEF Progress, Success, Failure, InvokedAt, Updates, Codes

\* What the kinds of updates tell of their fields.
LEMMA UpdateFields ==
  ASSUME NEW u \in Updates
  PROVE  /\ u.kind \in {"progressed", "succeeded"} \cup Codes
         /\ u.ordinal \in 0..4 /\ u.at \in 0..MaxLeases
         /\ u.kind = "progressed" => u.ordinal \in 0..2
         /\ u.kind = "succeeded" => u.ordinal = 3
         /\ u = [kind |-> u.kind, ordinal |-> u.ordinal, at |-> u.at]
BY DEF Updates, Codes

\* A room never loses an update.
LEMMA RoomGrows ==
  ASSUME TypeOK, NEW t \in Tasks, NEW l, NEW u \in Updates, room' = Applied(t, l, u)
  PROVE  /\ room' \in [Tasks -> SUBSET Updates]
         /\ \A s \in Tasks : room[s] \subseteq room'[s]
         /\ \A s \in Tasks : \A v \in room'[s] : v \in room[s] \/ (s = t /\ v = u)
BY DEF TypeOK, Applied

\* So what it was ready for it stays ready for.
LEMMA StillReady ==
  ASSUME TypeOK, \A s \in Tasks : room[s] \subseteq room'[s]
  PROVE  /\ \A s \in Tasks : \A n : Shown(s, n) => Shown(s, n)'
         /\ \A s \in Tasks : \A n : ShownBelow(s, n) => ShownBelow(s, n)'
         /\ \A s \in Tasks : \A v : Ready(s, v) => Ready(s, v)'
<1>1. \A s \in Tasks : \A n : Shown(s, n) => Shown(s, n)'
  BY DEF Shown, UpdateId
<1>2. \A s \in Tasks : \A n : ShownBelow(s, n) => ShownBelow(s, n)'
  BY <1>1 DEF ShownBelow
<1>3. \A s \in Tasks : \A v : Ready(s, v) => Ready(s, v)'
  BY <1>2 DEF Ready
<1> QED BY <1>1, <1>2, <1>3

\* A room that takes an update it is ready for stays ordered.
LEMMA StaysOrdered ==
  ASSUME TypeOK, Ordered, NEW t \in Tasks, NEW l, NEW u \in Updates,
         Ready(t, u), DatedUpdate(u), room' = Applied(t, l, u)
  PROVE  Ordered'
<1>1. \A s \in Tasks : \A v \in room'[s] : v \in room[s] \/ (s = t /\ v = u)
  BY RoomGrows
<1>2. \A s \in Tasks : \A v : Ready(s, v) => Ready(s, v)'
  BY RoomGrows, StillReady
<1>3. SUFFICES ASSUME NEW s \in Tasks, NEW v \in room'[s]
               PROVE  Ready(s, v)' /\ DatedUpdate(v)'
  BY DEF Ordered
<1>4. Ready(s, v) /\ DatedUpdate(v)
  BY <1>1 DEF Ordered
<1> QED BY <1>2, <1>4 DEF DatedUpdate

\* The late updates keep their place when leases only grow.
LEMMA StaysInFlight ==
  ASSUME TypeOK, WorldTypes', InFlight, \A s \in Tasks : room[s] \subseteq room'[s],
         \A s \in Tasks : broker[s].lease <= broker'[s].lease,
         net' \subseteq net
  PROVE  InFlight'
<1>1. \A s \in Tasks : \A v : Ready(s, v) => Ready(s, v)'
  BY StillReady
<1>2. SUFFICES ASSUME NEW m \in net'
               PROVE  /\ Ready(m.task, m.update)' /\ DatedUpdate(m.update)'
                      /\ m.lease <= broker'[m.task].lease
  BY DEF InFlight
<1>3. m.task \in Tasks /\ m.lease \in Nat
  BY DEF WorldTypes, Posts
<1>4. broker[m.task].lease \in Nat /\ broker'[m.task].lease \in Nat
  BY <1>3 DEF TypeOK, WorldTypes, Leases
<1> QED BY <1>1, <1>3, <1>4 DEF InFlight, DatedUpdate

-----------------------------------------------------------------------------
(* The steps *)

\* Leases, deadlines and the network do not care for what run_once does.
LEMMA WorldKept ==
  ASSUME IInv, UNCHANGED world
  PROVE  WorldTypes' /\ InFlight' /\ Ordered'
<1>1. WorldTypes'
  BY DEF IInv, TypeOK, WorldTypes, world
<1>2. InFlight'
  BY DEF IInv, InFlight, Ready, ShownBelow, Shown, DatedUpdate, world
<1>3. Ordered'
  BY DEF IInv, Ordered, Ready, ShownBelow, Shown, DatedUpdate, world
<1> QED BY <1>1, <1>2, <1>3

\* A call that is over leaves nothing behind.
LEMMA LeftIInv ==
  ASSUME IInv, NEW step \in {"idle", "ended"}, Leave(step),
         WorldTypes', InFlight', Ordered'
  PROVE  IInv'
<1>1. TypeOK'
  <2>1. ended' \in BOOLEAN /\ terminal' \in BOOLEAN
    BY Zenon DEF Leave
  <2>2. sent' \in 0..4 /\ received' \in 0..4 /\ lease' \in 0..MaxLeases
    BY DispatcherConstants DEF Leave
  <2>3. /\ pc' \in {"idle", "fetch", "select", "submit", "ended"}
        /\ task' \in Tasks \cup {None} /\ update' \in Updates \cup {None}
        /\ chan' \subseteq 0..3
    BY Zenon DEF Leave
  <2> QED BY <2>1, <2>2, <2>3 DEF TypeOK, WorldTypes
<1>2. Holding' /\ Kept' /\ OneFailure' /\ Channel'
  BY DEF Leave, Holding, Kept, OneFailure, Channel, Working, NoInvocation
<1> QED BY <1>1, <1>2 DEF IInv

\* A failure is submitted from any other point of the call.
LEMMA FailedIInv ==
  ASSUME IInv, Working, pc = "submit" => update.kind \notin Codes,
         NEW code \in Codes, NEW n \in 0..4, NEW at \in 0..MaxLeases,
         Fail(code, n, at), UNCHANGED <<broker, net>>,
         \A v \in room'[task] : v \in room[task] \/ (pc = "submit" /\ v = update),
         WorldTypes', InFlight', Ordered'
  PROVE  IInv'
<1>1. /\ pc' = "submit" /\ update' = Failure(code, n, at) /\ update' \in Updates
      /\ update'.kind \in Codes
      /\ UNCHANGED <<task, lease, sent, chan, ended, received, terminal>>
  BY UpdatesTyped DEF Fail, Submit, Failure, invocation
<1>2. TypeOK'
  BY <1>1 DEF IInv, TypeOK, WorldTypes
<1>3. Holding' /\ Channel'
  BY <1>1 DEF IInv, Holding, Channel, Working
<1>4. Kept'
  BY <1>1 DEF Kept, Ready, DatedUpdate, Codes
<1>5. OneFailure'
  <2>1. \A m \in net : ~(m.task = task /\ m.lease = lease /\ m.update.kind \in Codes)
    BY DEF IInv, OneFailure
  <2>2. \A v \in room[task] : v.kind \notin Codes
    BY DEF IInv, OneFailure
  <2> QED BY <1>1, <2>1, <2>2 DEF OneFailure
<1> QED BY <1>2, <1>3, <1>4, <1>5 DEF IInv

\* What the room broker holds for a task under a new lease.
LEMMA ClaimIInv == ASSUME IInv, Claim PROVE IInv'
<1>1. PICK t \in Tasks :
        /\ Claimable(t)
        /\ broker' = [broker EXCEPT ![t] =
                         [lease |-> @.lease + 1, over |-> FALSE, revoked |-> FALSE]]
        /\ \/ /\ pc' = "fetch" /\ task' = t /\ lease' = broker'[t].lease
              /\ UNCHANGED <<invocation, update>>
           \/ ~calm /\ \E step \in {"idle", "ended"} : Leave(step)
  BY DEF Claim
<1>2. pc = "idle" /\ UNCHANGED <<room, net, calm>>
  BY DEF Claim
<1>3. /\ broker[t] \in Leases
      /\ broker'[t].lease = broker[t].lease + 1
      /\ broker'[t].lease \in 1..MaxLeases
      /\ broker' \in [Tasks -> Leases]
      /\ \A s \in Tasks : s # t => broker'[s] = broker[s]
  <2>1. broker[t] \in Leases /\ broker[t].lease < MaxLeases
    BY <1>1 DEF IInv, TypeOK, Claimable
  <2>2. broker[t].lease + 1 \in 1..MaxLeases
    BY <2>1, DispatcherConstants DEF Leases
  <2>3. broker'[t] = [lease |-> broker[t].lease + 1, over |-> FALSE, revoked |-> FALSE]
    BY <1>1 DEF IInv, TypeOK
  <2>4. broker'[t] \in Leases /\ broker'[t].lease = broker[t].lease + 1
    BY <2>1, <2>2, <2>3 DEF Leases
  <2>5. \A s \in Tasks : s # t => broker'[s] = broker[s]
    BY <1>1 DEF IInv, TypeOK
  <2>6. broker' \in [Tasks -> Leases]
    BY <1>1, <2>4, <2>5 DEF IInv, TypeOK
  <2> QED BY <2>1, <2>2, <2>4, <2>5, <2>6
<1>4. \A s \in Tasks : broker[s].lease <= broker'[s].lease
  BY <1>3 DEF IInv, TypeOK, Leases
<1>5. WorldTypes'
  BY <1>2, <1>3 DEF IInv, TypeOK, WorldTypes
<1>6. InFlight'
  <2>1. \A s \in Tasks : room[s] \subseteq room'[s]
    BY <1>2
  <2> QED BY <1>2, <1>4, <1>5, <2>1, StaysInFlight DEF IInv
<1>7. Ordered'
  BY <1>2 DEF IInv, Ordered, Ready, ShownBelow, Shown, DatedUpdate
<1>8. CASE \E step \in {"idle", "ended"} : Leave(step)
  BY <1>5, <1>6, <1>7, <1>8, LeftIInv
<1>9. CASE pc' = "fetch" /\ task' = t /\ lease' = broker'[t].lease
           /\ UNCHANGED <<invocation, update>>
  <2>5. TypeOK'
    BY <1>3, <1>5, <1>9 DEF IInv, TypeOK, WorldTypes, invocation
  <2>1. Holding' /\ Channel' /\ Kept'
    BY <1>2, <1>3, <1>9 DEF IInv, Holding, Channel, Kept, Working, NoInvocation, invocation
  <2>2. \A m \in net' : m.task = t => m.lease # lease'
    BY <1>2, <1>3, <1>9 DEF IInv, InFlight, TypeOK, Posts, Leases
  <2>3. \A v \in room'[t] : v.kind \notin Codes
    BY <1>1, <1>2 DEF Claimable, Settled, Codes
  <2>4. OneFailure'
    BY <1>9, <2>2, <2>3 DEF OneFailure
  <2> QED BY <1>6, <1>7, <2>1, <2>4, <2>5 DEF IInv
<1> QED BY <1>1, <1>8, <1>9

\* The context packet: verified, or reported as a failure at ordinal 0.
LEMMA FetchIInv == ASSUME IInv, Fetch PROVE IInv'
<1>1. pc = "fetch" /\ UNCHANGED world /\ Working
  BY DEF Fetch, Working
<1>2. CASE pc' = "select" /\ UNCHANGED <<task, lease, invocation, update>>
  <2>1. TypeOK'
    BY <1>1, <1>2 DEF IInv, TypeOK, invocation, world
  <2>2. Holding' /\ Channel'
    BY <1>1, <1>2 DEF IInv, Holding, Channel, Working, invocation, world
  <2>3. Kept'
    BY <1>1, <1>2 DEF IInv, Holding, NoInvocation, Kept, ShownBelow, invocation
  <2>4. OneFailure'
    BY <1>1, <1>2 DEF IInv, OneFailure, Working, world
  <2> QED BY <1>1, <2>1, <2>2, <2>3, <2>4, WorldKept DEF IInv
<1>3. ASSUME NEW code \in Codes, NEW at \in {InvokedAt, IssuedAt}, Fail(code, 0, at)
      PROVE  IInv'
  <2>1. at \in 0..MaxLeases
    BY <1>1, DispatcherConstants DEF IInv, TypeOK, InvokedAt, IssuedAt
  <2>2. UNCHANGED <<room, broker, net>>
    BY <1>1 DEF world
  <2> QED BY <1>1, <1>3, <2>1, <2>2, WorldKept, FailedIInv
<1> QED BY <1>2, <1>3 DEF Fetch

\* The adapter fills the empty channel with the next event.
LEMMA AdapterIInv == ASSUME IInv, Adapter PROVE IInv'
<1>1. pc = "select" /\ UNCHANGED <<pc, task, lease, received, terminal, update>> /\ UNCHANGED world
  BY DEF Adapter, AdapterSends, AdapterEnds
<1>2. TypeOK' /\ Channel'
  <2>1. CASE AdapterSends
    BY <1>1, <2>1 DEF AdapterSends, IInv, TypeOK, Channel, world
  <2>2. CASE AdapterEnds
    BY <1>1, <2>2 DEF AdapterEnds, IInv, TypeOK, Channel, world
  <2> QED BY <2>1, <2>2 DEF Adapter
<1>3. Holding'
  BY <1>1 DEF IInv, Holding, Working, world
<1>4. Kept'
  BY <1>1 DEF IInv, Kept, ShownBelow, Shown, world
<1>5. OneFailure'
  BY <1>1 DEF IInv, OneFailure, Working, world
<1> QED BY <1>1, <1>2, <1>3, <1>4, <1>5, WorldKept DEF IInv

\* The invocation ends with an error, or its time is over.
LEMMA InvocationFailsIInv == ASSUME IInv, InvocationFails PROVE IInv'
<1>1. /\ Working /\ pc = "select" /\ UNCHANGED world /\ UNCHANGED <<room, broker, net>>
      /\ Fail("execution_failed", received, InvokedAt)
  BY DEF InvocationFails, Working, world
<1>2. received \in 0..4 /\ InvokedAt \in 0..MaxLeases /\ "execution_failed" \in Codes
  BY DispatcherConstants DEF IInv, TypeOK, InvokedAt, Codes
<1> QED BY <1>1, <1>2, WorldKept, FailedIInv

\* One event is taken from the channel, and submitted or kept.
LEMMA ReceiveIInv == ASSUME IInv, Receive PROVE IInv'
<1>1. Working /\ pc = "select" /\ UNCHANGED world /\ UNCHANGED <<room, broker, net>>
  BY DEF Receive, Working, world
<1>2. received \in 0..4 /\ InvokedAt \in 0..MaxLeases /\ "execution_failed" \in Codes
  BY DispatcherConstants DEF IInv, TypeOK, InvokedAt, Codes
<1>3. PICK n \in chan :
        \/ Fail("execution_failed", received, InvokedAt)
        \/ /\ Admitted(n) /\ n < 3 /\ Submit(Progress(n))
           /\ chan' = {} /\ received' = received + 1
           /\ UNCHANGED <<sent, ended, terminal>>
        \/ /\ Admitted(n) /\ n = 3
           /\ chan' = {} /\ received' = 4 /\ terminal' = TRUE
           /\ UNCHANGED <<pc, task, lease, sent, ended, update>>
  BY DEF Receive
<1>4. n \in 0..3 /\ sent = received + 1 /\ n = received
  BY DEF IInv, TypeOK, Channel
<1>5. CASE Fail("execution_failed", received, InvokedAt)
  BY <1>1, <1>2, <1>5, WorldKept, FailedIInv
<1>6. CASE /\ Admitted(n) /\ n < 3 /\ Submit(Progress(n))
           /\ chan' = {} /\ received' = received + 1
           /\ UNCHANGED <<sent, ended, terminal>>
  <2>1. /\ pc' = "submit" /\ update' = Progress(n) /\ Progress(n) \in Updates
        /\ UNCHANGED <<task, lease>>
    BY <1>4, <1>6, UpdatesTyped DEF Submit
  <2>2. TypeOK' /\ Channel'
    BY <1>1, <1>4, <1>6, <2>1 DEF IInv, TypeOK, Channel, world
  <2>3. Holding'
    BY <1>1, <2>1 DEF IInv, Holding, Working, world
  <2>4. Kept'
    BY <1>1, <1>4, <1>6, <2>1
       DEF IInv, Kept, Ready, DatedUpdate, Progress, InvokedAt, ShownBelow, Shown, world
  <2>5. OneFailure'
    BY <1>1, <2>1 DEF IInv, OneFailure, Working, world
  <2> QED BY <1>1, <2>2, <2>3, <2>4, <2>5, WorldKept DEF IInv
<1>7. CASE /\ Admitted(n) /\ n = 3
           /\ chan' = {} /\ received' = 4 /\ terminal' = TRUE
           /\ UNCHANGED <<pc, task, lease, sent, ended, update>>
  <2>1. TypeOK'
    BY <1>1, <1>7 DEF IInv, TypeOK, world
  <2>2. Channel'
    <3>1. n = 3 /\ sent' = sent
      BY <1>7, Zenon
    <3>2. sent' = 4
      <4>1. received = 3
        BY <1>4, <3>1, Zenon
      <4>2. sent = 4
        BY <1>4, <4>1
      <4> QED BY <3>1, <4>2, Zenon
    <3>3. chan' = {} /\ received' = 4 /\ terminal'
      BY <1>7, Zenon
    <3> QED BY <3>2, <3>3 DEF Channel
  <2>3. Holding'
    BY <1>1, <1>7 DEF IInv, Holding, Working, world
  <2>4. Kept'
    BY <1>1, <1>4, <1>7 DEF IInv, Kept, ShownBelow, Shown, world
  <2>5. OneFailure'
    BY <1>1, <1>7 DEF IInv, OneFailure, Working, world
  <2> QED BY <1>1, <2>1, <2>2, <2>3, <2>4, <2>5, WorldKept DEF IInv
<1> QED BY <1>3, <1>5, <1>6, <1>7

\* The stream is over: its result is submitted.
LEMMA DrainedIInv == ASSUME IInv, Drained PROVE IInv'
<1>1. Working /\ pc = "select" /\ UNCHANGED world /\ UNCHANGED <<room, broker, net>>
  BY DEF Drained, Working, world
<1>2. received \in 0..4 /\ InvokedAt \in 0..MaxLeases /\ "execution_failed" \in Codes
  BY DispatcherConstants DEF IInv, TypeOK, InvokedAt, Codes
<1>3. CASE Fail("execution_failed", received, InvokedAt)
  BY <1>1, <1>2, <1>3, WorldKept, FailedIInv
<1>4. CASE received = 4 /\ Submit(Success) /\ UNCHANGED invocation
  <2>1. /\ pc' = "submit" /\ update' = Success /\ Success \in Updates
        /\ UNCHANGED <<task, lease, sent, chan, ended, received, terminal>>
    BY <1>4, UpdatesTyped DEF Submit, invocation
  <2>2. TypeOK' /\ Channel'
    BY <1>1, <2>1 DEF IInv, TypeOK, Channel, world
  <2>3. Holding'
    BY <1>1, <2>1 DEF IInv, Holding, Working, world
  <2>4. Kept'
    BY <1>1, <1>4, <2>1
       DEF IInv, Kept, Ready, DatedUpdate, Success, InvokedAt, ShownBelow, Shown, world
  <2>5. OneFailure'
    BY <1>1, <2>1 DEF IInv, OneFailure, Working, world
  <2> QED BY <1>1, <2>2, <2>3, <2>4, <2>5, WorldKept DEF IInv
<1> QED BY <1>3, <1>4 DEF Drained
-----------------------------------------------------------------------------
(* Steps that submit *)

\* What an update is worth once a call submits it.
LEMMA Submitted ==
  ASSUME IInv, pc = "submit"
  PROVE  /\ Working /\ task \in Tasks /\ lease \in 1..MaxLeases
         /\ lease = broker[task].lease
         /\ update \in Updates /\ Ready(task, update) /\ DatedUpdate(update)
BY DEF IInv, Holding, Kept, Working

\* The room takes an update it is ready for: what the broker holds is kept.
LEMMA TakenKeepsWorld ==
  ASSUME IInv, NEW t \in Tasks, NEW l, NEW u \in Updates, Ready(t, u), DatedUpdate(u),
         room' = Applied(t, l, u), net' \subseteq net, UNCHANGED <<broker, calm>>
  PROVE  /\ WorldTypes' /\ InFlight' /\ Ordered'
         /\ \A s \in Tasks : room[s] \subseteq room'[s]
<1>1. /\ room' \in [Tasks -> SUBSET Updates]
      /\ \A s \in Tasks : room[s] \subseteq room'[s]
  BY RoomGrows DEF IInv
<1>2. WorldTypes'
  BY <1>1 DEF IInv, TypeOK, WorldTypes
<1>3. \A s \in Tasks : broker[s].lease <= broker'[s].lease
  BY DEF IInv, TypeOK, Leases
<1> QED BY <1>1, <1>2, <1>3, StaysInFlight, StaysOrdered DEF IInv

\* An accepted progress event: the call waits for the next.
LEMMA AnsweredIInv == ASSUME IInv, SubmitAnswered PROVE IInv'
<1>1. /\ pc = "submit" /\ room' = Applied(task, lease, update)
      /\ UNCHANGED <<broker, net, calm>> /\ Takes(task, lease, update) /\ Accepted
  BY DEF SubmitAnswered
<1>2. /\ WorldTypes' /\ InFlight' /\ Ordered'
      /\ \A s \in Tasks : room[s] \subseteq room'[s]
  BY <1>1, Submitted, TakenKeepsWorld
<1>3. CASE update.kind # "progressed"
  BY <1>1, <1>2, <1>3, LeftIInv DEF Accepted, Return
<1>4. CASE update.kind = "progressed"
  <2>1. pc' = "select" /\ update' = None /\ UNCHANGED <<task, lease, invocation>>
    BY <1>1, <1>4 DEF Accepted
  <2>2. TypeOK'
    BY <1>2, <2>1 DEF IInv, TypeOK, WorldTypes, invocation
  <2>3. Holding' /\ Channel'
    BY <1>1, <2>1 DEF IInv, Holding, Channel, Working, invocation
  <2>4. PICK n \in 0..2 : n = update.ordinal
    BY <1>4, Submitted, <1>1, UpdateFields
  <2>5. received = n + 1 /\ ShownBelow(task, n)
    BY <1>1, <1>4, <2>4, Submitted DEF IInv, Kept, Ready
  <2>6. update \in room'[task]
    BY <1>1, Submitted DEF Applied, IInv, TypeOK
  <2>7. Shown(task, n)'
    BY <1>4, <2>1, <2>4, <2>6 DEF Shown, UpdateId
  <2>8. Kept'
    <3>1. ShownBelow(task, n)'
      BY <1>1, <1>2, <2>1, <2>5, Submitted, StillReady DEF IInv
    <3>2. received' = n + 1
      BY <2>1, <2>5 DEF invocation
    <3>3. ShownBelow(task, received)'
      BY <2>4, <2>7, <3>1, <3>2 DEF ShownBelow
    <3> QED BY <2>1, <3>3 DEF Kept
  <2>9. OneFailure'
    <3>1. \A v \in room'[task] : v \in room[task] \/ v = update
      BY <1>1, Submitted, RoomGrows DEF IInv
    <3> QED BY <1>1, <1>4, <2>1, <3>1, Submitted DEF IInv, OneFailure, Codes
  <2> QED BY <1>2, <2>2, <2>3, <2>8, <2>9 DEF IInv
<1> QED BY <1>3, <1>4

\* A rejection becomes a failure, or ends the process.
LEMMA RejectedIInv ==
  ASSUME IInv, pc = "submit", Rejected, UNCHANGED <<broker, net>>,
         \A v \in room'[task] : v \in room[task] \/ v = update,
         WorldTypes', InFlight', Ordered'
  PROVE  IInv'
<1>1. CASE update.kind \in Codes
  BY <1>1, LeftIInv DEF Rejected
<1>2. CASE update.kind \notin Codes
  <2>1. Fail("execution_failed", received, InvokedAt)
    BY <1>2 DEF Rejected
  <2>2. received \in 0..4 /\ InvokedAt \in 0..MaxLeases /\ "execution_failed" \in Codes
    BY DispatcherConstants DEF IInv, TypeOK, InvokedAt, Codes
  <2> QED BY <1>2, <2>1, <2>2, Submitted, FailedIInv
<1> QED BY <1>1, <1>2

\* The steps of submit.
LEMMA SubmittingIInv == ASSUME IInv, Submitting PROVE IInv'
<1>1. CASE SubmitExpired
  BY <1>1, WorldKept, LeftIInv DEF SubmitExpired, Return
<1>2. CASE SubmitAnswered
  BY <1>2, AnsweredIInv
<1>3. CASE SubmitRefused
  <2>1. pc = "submit" /\ Rejected /\ UNCHANGED world /\ UNCHANGED <<room, broker, net>>
    BY <1>3 DEF SubmitRefused, world
  <2> QED BY <2>1, WorldKept, RejectedIInv
<1>4. CASE SubmitGarbled
  <2>1. /\ pc = "submit" /\ room' = Applied(task, lease, update) /\ Rejected
        /\ UNCHANGED <<broker, net, calm>>
    BY <1>4 DEF SubmitGarbled
  <2>2. WorldTypes' /\ InFlight' /\ Ordered'
    BY <2>1, Submitted, TakenKeepsWorld
  <2>3. \A v \in room'[task] : v \in room[task] \/ v = update
    BY <2>1, Submitted, RoomGrows DEF IInv
  <2> QED BY <2>1, <2>2, <2>3, RejectedIInv
<1>5. CASE SubmitUnanswered
  <2>1. /\ pc = "submit" /\ net' = net \cup {Post}
        /\ UNCHANGED <<room, broker, calm>>
        /\ UNCHANGED <<pc, task, lease, sent, chan, ended, received, terminal, update>>
    BY <1>5 DEF SubmitUnanswered, memory, invocation
  <2>2. /\ Post \in Posts /\ Post.task = task /\ Post.lease = lease
        /\ Post.update = update
    BY <2>1, Submitted DEF Post, Posts
  <2>3. TypeOK'
    BY <2>1, <2>2 DEF IInv, TypeOK
  <2>4. Holding' /\ Channel' /\ Kept'
    BY <2>1 DEF IInv, Holding, Channel, Kept, Working, Ready, ShownBelow, Shown,
                DatedUpdate, NoInvocation
  <2>5. InFlight'
    <3>1. /\ Ready(Post.task, Post.update) /\ DatedUpdate(Post.update)
          /\ Post.lease <= broker[Post.task].lease
      BY <2>1, <2>2, Submitted
    <3> QED BY <2>1, <3>1 DEF IInv, InFlight, Ready, ShownBelow, Shown, DatedUpdate
  <2>6. Ordered'
    BY <2>1 DEF IInv, Ordered, Ready, ShownBelow, Shown, DatedUpdate
  <2>7. OneFailure'
    BY <2>1, <2>2 DEF IInv, OneFailure, Working
  <2> QED BY <2>3, <2>4, <2>5, <2>6, <2>7 DEF IInv
<1> QED BY <1>1, <1>2, <1>3, <1>4, <1>5 DEF Submitting

-----------------------------------------------------------------------------
(* Steps of the world *)

\* A late update may come at any time.
LEMMA LateIInv == ASSUME IInv, LateUpdate PROVE IInv'
<1>1. PICK m \in net : /\ room' = Applied(m.task, m.lease, m.update)
                       /\ net' = net \ {m}
  BY DEF LateUpdate
<1>2. /\ UNCHANGED <<broker, calm>>
      /\ UNCHANGED <<pc, task, lease, sent, chan, ended, received, terminal, update>>
  BY DEF LateUpdate, memory, invocation
<1>3. /\ m.task \in Tasks /\ m.update \in Updates
      /\ Ready(m.task, m.update) /\ DatedUpdate(m.update)
  BY DEF IInv, TypeOK, Posts, InFlight
<1>4. /\ WorldTypes' /\ InFlight' /\ Ordered'
      /\ \A s \in Tasks : room[s] \subseteq room'[s]
  BY <1>1, <1>2, <1>3, TakenKeepsWorld
<1>5. TypeOK' /\ Holding' /\ Channel'
  BY <1>2, <1>4 DEF IInv, TypeOK, WorldTypes, Holding, Channel, Working, NoInvocation
<1>6. Kept'
  <2>1. /\ pc = "select" => ShownBelow(task, received)'
        /\ pc = "submit" => Ready(task, update)'
    BY <1>2, <1>4, StillReady DEF IInv, Kept, Holding, Working
  <2> QED BY <1>2, <2>1 DEF IInv, Kept, DatedUpdate
<1>7. OneFailure'
  <2>1. SUFFICES ASSUME Working, NEW v \in room'[task], v.kind \in Codes,
                        v \notin room[task]
                 PROVE  pc = "submit" /\ update = v
    BY <1>1, <1>2 DEF IInv, OneFailure, Working
  <2>2. task \in Tasks /\ lease = broker[task].lease
    BY <2>1 DEF IInv, Holding
  <2>3. m.task = task /\ v = m.update
    BY <1>1, <1>3, <2>1, <2>2, RoomGrows DEF IInv
  <2>4. Takes(m.task, m.lease, m.update) /\ m.update \notin room[m.task]
    BY <1>1, <2>1, <2>2, <2>3 DEF Applied
  <2>5. m.lease = lease
    BY <2>2, <2>3, <2>4 DEF Takes, LeaseHolds
  <2> QED BY <2>1, <2>3, <2>5 DEF IInv, OneFailure
<1> QED BY <1>4, <1>5, <1>6, <1>7 DEF IInv

\* Time passes, a lease is revoked, the network recovers.
LEMMA WorldIInv ==
  ASSUME IInv, CalmDown \/ \E t \in Tasks : Expire(t) \/ Revoke(t)
  PROVE  IInv'
<1>1. /\ UNCHANGED <<room, net>>
      /\ UNCHANGED <<pc, task, lease, sent, chan, ended, received, terminal, update>>
  BY DEF CalmDown, Expire, Revoke, memory, invocation
<1>2. WorldTypes' /\ \A s \in Tasks : broker'[s].lease = broker[s].lease
  <2>1. CASE CalmDown
    BY <2>1 DEF CalmDown, IInv, TypeOK, WorldTypes
  <2>2. ASSUME NEW t \in Tasks, Expire(t) \/ Revoke(t)
        PROVE  WorldTypes' /\ \A s \in Tasks : broker'[s].lease = broker[s].lease
    <3>1. /\ UNCHANGED <<room, net, calm>>
          /\ \/ broker' = [broker EXCEPT ![t].over = TRUE]
             \/ broker' = [broker EXCEPT ![t].revoked = TRUE]
      BY <2>2 DEF Expire, Revoke
    <3>2. broker \in [Tasks -> Leases] /\ broker[t] \in Leases
      BY DEF IInv, TypeOK
    <3>3. /\ [broker[t] EXCEPT !.over = TRUE] \in Leases
          /\ [broker[t] EXCEPT !.revoked = TRUE] \in Leases
          /\ [broker[t] EXCEPT !.over = TRUE].lease = broker[t].lease
          /\ [broker[t] EXCEPT !.revoked = TRUE].lease = broker[t].lease
      BY <3>2 DEF Leases
    <3>4. broker' \in [Tasks -> Leases] /\ \A s \in Tasks : broker'[s].lease = broker[s].lease
      BY <3>1, <3>2, <3>3
    <3> QED BY <3>1, <3>4 DEF IInv, TypeOK, WorldTypes
  <2> QED BY <2>1, <2>2
<1>3. TypeOK'
  BY <1>1, <1>2 DEF IInv, TypeOK, WorldTypes
<1>4. Holding' /\ Channel'
  BY <1>1, <1>2 DEF IInv, Holding, Channel, Working, NoInvocation
<1>5. Kept' /\ Ordered'
  BY <1>1 DEF IInv, Kept, Ordered, Ready, ShownBelow, Shown, DatedUpdate
<1>6. InFlight'
  <2>1. \A m \in net : m.task \in Tasks
    BY DEF IInv, TypeOK, Posts
  <2> QED BY <1>1, <1>2, <2>1 DEF IInv, InFlight, Ready, ShownBelow, Shown, DatedUpdate
<1>7. OneFailure'
  BY <1>1 DEF IInv, OneFailure, Working
<1> QED BY <1>3, <1>4, <1>5, <1>6, <1>7 DEF IInv

-----------------------------------------------------------------------------
(* The inductive invariant *)

\* It holds at the start.
LEMMA InitIInv == Init => IInv
<1> SUFFICES ASSUME Init PROVE IInv
  OBVIOUS
<1>1. TypeOK
  <2>1. broker \in [Tasks -> Leases]
    BY DispatcherConstants DEF Init, Leases
  <2>2. sent \in 0..4 /\ received \in 0..4 /\ lease \in 0..MaxLeases
    BY DispatcherConstants DEF Init, NoInvocation
  <2>3. /\ pc \in {"idle", "fetch", "select", "submit", "ended"}
        /\ task \in Tasks \cup {None} /\ update \in Updates \cup {None}
        /\ chan \subseteq 0..3 /\ net \subseteq Posts
        /\ ended \in BOOLEAN /\ terminal \in BOOLEAN /\ calm \in BOOLEAN
        /\ room \in [Tasks -> SUBSET Updates]
    BY Zenon DEF Init, NoInvocation
  <2> QED BY <2>1, <2>2, <2>3 DEF TypeOK
<1>2. Holding /\ Channel /\ Kept /\ InFlight /\ Ordered /\ OneFailure
  BY DEF Init, Holding, Channel, Kept, InFlight, Ordered, OneFailure, Working, NoInvocation
<1> QED BY <1>1, <1>2 DEF IInv

\* And every step keeps it.
LEMMA NextIInv == IInv /\ [Next]_vars => IInv'
<1> SUFFICES ASSUME IInv, [Next]_vars PROVE IInv'
  OBVIOUS
<1>1. CASE UNCHANGED vars
  BY <1>1 DEF vars, memory, invocation, world, IInv, TypeOK, Holding, Channel, Kept,
     InFlight, Ordered, OneFailure, Working, NoInvocation, Ready, ShownBelow, Shown,
     DatedUpdate
<1>2. CASE NoTask
  BY <1>1, <1>2 DEF NoTask
<1>3. CASE Claim
  BY <1>3, ClaimIInv
<1>4. CASE ClaimRejected \/ Crash \/ Restart
  BY <1>4, WorldKept, LeftIInv DEF ClaimRejected, Crash, Restart, Return
<1>5. CASE Fetch
  BY <1>5, FetchIInv
<1>6. CASE Select
  BY <1>6, InvocationFailsIInv, ReceiveIInv, DrainedIInv DEF Select
<1>7. CASE Submitting
  BY <1>7, SubmittingIInv
<1>8. CASE Adapter
  BY <1>8, AdapterIInv
<1>9. CASE LateUpdate
  BY <1>9, LateIInv
<1>10. CASE CalmDown \/ \E t \in Tasks : Expire(t) \/ Revoke(t)
  BY <1>10, WorldIInv
<1> QED BY <1>1, <1>2, <1>3, <1>4, <1>5, <1>6, <1>7, <1>8, <1>9, <1>10
        DEF Next, Dispatcher
-----------------------------------------------------------------------------
(* Theorems *)

\* Whatever is lost, late or asked again, every reachable state of the
\* dispatcher (dispatcher.rs run_once and submit) satisfies the inductive
\* invariant: the room is ready for each update that is or will be offered.
THEOREM Invariance == Spec => []IInv
<1>1. Init => IInv
  BY InitIInv
<1>2. IInv /\ [Next]_vars => IInv'
  BY NextIInv
<1> QED BY <1>1, <1>2, PTL DEF Spec

\* The variables of run_once, of its channel and of the room keep their types.
THEOREM TypeCorrect == Spec => []TypeOK
<1>1. IInv => TypeOK
  BY DEF IInv
<1> QED BY <1>1, Invariance, PTL

\* run_once waits for the next event only when the room has accepted all the
\* progress it took from the channel.
THEOREM KeepsUp == Spec => []RoomKeepsUp
<1>1. IInv => RoomKeepsUp
  BY DEF IInv, RoomKeepsUp, Kept, ShownBelow, Shown, UpdateId, Progress
<1> QED BY <1>1, Invariance, PTL

\* A stream whose invocation ended well is never reported as incomplete.
THEOREM LosesNoEvent == Spec => []NoEventLost
<1>1. IInv => NoEventLost
  BY DEF IInv, NoEventLost, Channel
<1> QED BY <1>1, Invariance, PTL

\* What the room knows by the id of an update being submitted is that very
\* update, under any lease: submit never conflicts with its own past.
THEOREM NeverConflicts == Spec => []ReplaysNeverConflict
<1>1. IInv => ReplaysNeverConflict
  <2>1. SUFFICES ASSUME IInv, pc = "submit", NEW v \in room[task],
                        UpdateId(v) = UpdateId(update)
                 PROVE  v = update
    BY DEF ReplaysNeverConflict
  <2>2. v \in Updates /\ v.ordinal = update.ordinal /\ v.kind = update.kind
    BY <2>1, Submitted DEF IInv, TypeOK, UpdateId
  <2>3. CASE v.kind \in Codes
    BY <2>1, <2>3 DEF IInv, OneFailure, Working
  <2>4. CASE v.kind \notin Codes
    <3>1. v.at = 0 /\ update.at = 0
      BY <2>1, <2>2, <2>4, Submitted DEF IInv, Ordered, DatedUpdate
    <3> QED BY <2>1, <2>2, <3>1, UpdateFields, Submitted
  <2> QED BY <2>3, <2>4
<1> QED BY <1>1, Invariance, PTL

-----------------------------------------------------------------------------
(* The refinement *)

\* What the room shows of its tasks, and how they ended.
ShownIn(t) == {n \in 0..2 : \E u \in room[t] : UpdateId(u) = <<n, "progressed">>}
EndOf(t) == IF \E u \in room[t] : u.kind = "succeeded" THEN "succeeded"
            ELSE IF Settled(t) THEN "failed" ELSE "open"

\* A room that takes an update it is ready for makes a step of the stream.
LEMMA TakenRefines ==
  ASSUME TypeOK, Ordered, NEW t \in Tasks, NEW l, NEW u \in Updates, Ready(t, u),
         room' = Applied(t, l, u)
  PROVE  [Stream!Next]_(Stream!stream)
<1>1. CASE room' = room
  BY <1>1 DEF Stream!stream, UpdateId, Settled
<1>2. CASE room' # room
  <2>1. /\ room' = [room EXCEPT ![t] = @ \cup {u}] /\ Takes(t, l, u) /\ u \notin room[t]
    BY <1>2 DEF Applied, TypeOK
  <2>2. ~Settled(t) /\ \A v \in room[t] : UpdateId(v) # UpdateId(u)
    BY <2>1 DEF Takes
  <2>3. /\ room'[t] = room[t] \cup {u}
        /\ \A s \in Tasks : s # t => room'[s] = room[s]
    BY <2>1 DEF TypeOK
  <2>4. EndOf(t) = "open"
    BY <2>2 DEF EndOf, Settled
  <2>5. \A s \in Tasks : s # t => ShownIn(s)' = ShownIn(s) /\ EndOf(s)' = EndOf(s)
    BY <2>3 DEF ShownIn, EndOf, Settled, UpdateId
  <2>6. CASE u.kind = "progressed"
    <3>1. PICK n \in 0..2 : n = u.ordinal
      BY <2>6, UpdateFields
    <3>2. ShownBelow(t, n) /\ ~Shown(t, n)
      BY <2>2, <2>6, <3>1 DEF Ready, Shown, UpdateId
    <3>3. \A k \in 0..2 : Shown(t, k) => ShownBelow(t, k)
      BY DEF Shown, UpdateId, Ordered, Ready
    <3>4. \A k \in 0..2 : Shown(t, k) <=> k < n
      BY <3>2, <3>3 DEF ShownBelow
    <3>5. \A k \in 0..2 : Shown(t, k)' <=> Shown(t, k) \/ k = n
      BY <2>3, <2>6, <3>1 DEF Shown, UpdateId
    <3>6. ShownIn(t) = 0 .. (n - 1) /\ ShownIn(t)' = 0 .. n
      BY <3>4, <3>5 DEF ShownIn, Shown
    <3>7. EndOf(t)' = EndOf(t)
      BY <2>2, <2>3, <2>6 DEF EndOf, Settled
    <3>8. Stream!Progressed(t)
      <4>1. [s \in Tasks |-> ShownIn(s)]'
              = [[s \in Tasks |-> ShownIn(s)] EXCEPT ![t] = 0 .. n]
        BY <2>5, <3>6
      <4>2. [s \in Tasks |-> EndOf(s)]' = [s \in Tasks |-> EndOf(s)]
        BY <2>5, <3>7
      <4> QED BY <2>4, <3>6, <4>1, <4>2 DEF Stream!Progressed, ShownIn, EndOf
    <3> QED BY <3>8 DEF Stream!Next
  <2>7. CASE u.kind # "progressed"
    <3>1. ShownIn(t)' = ShownIn(t)
      BY <2>3, <2>7 DEF ShownIn, UpdateId
    <3>2. [s \in Tasks |-> ShownIn(s)]' = [s \in Tasks |-> ShownIn(s)]
      BY <2>5, <3>1
    <3>3. CASE u.kind = "succeeded"
      <4>1. EndOf(t)' = "succeeded"
        BY <2>3, <3>3 DEF EndOf
      <4>2. ShownIn(t) = 0 .. 2
        BY <3>3 DEF Ready, ShownBelow, Shown, ShownIn
      <4>3. [s \in Tasks |-> EndOf(s)]'
              = [[s \in Tasks |-> EndOf(s)] EXCEPT ![t] = "succeeded"]
        BY <2>5, <4>1
      <4>4. Stream!Succeeded(t)
        BY <2>4, <3>2, <4>2, <4>3 DEF Stream!Succeeded, ShownIn, EndOf
      <4> QED BY <4>4 DEF Stream!Next
    <3>4. CASE u.kind # "succeeded"
      <4>1. EndOf(t)' = "failed"
        BY <2>2, <2>3, <2>7, <3>4 DEF EndOf, Settled
      <4>2. [s \in Tasks |-> EndOf(s)]'
              = [[s \in Tasks |-> EndOf(s)] EXCEPT ![t] = "failed"]
        BY <2>5, <4>1
      <4>3. Stream!Failed(t)
        BY <2>4, <3>2, <4>2 DEF Stream!Failed, ShownIn, EndOf
      <4> QED BY <4>3 DEF Stream!Next
    <3> QED BY <3>3, <3>4
  <2> QED BY <2>6, <2>7
<1> QED BY <1>1, <1>2

\* Other steps do not show.
LEMMA StepRefines == IInv /\ [Next]_vars => [Stream!Next]_(Stream!stream)
<1> SUFFICES ASSUME IInv, [Next]_vars PROVE [Stream!Next]_(Stream!stream)
  OBVIOUS
<1>1. CASE room' = room
  BY <1>1 DEF Stream!stream, UpdateId, Settled
<1>2. CASE SubmitAnswered \/ SubmitGarbled
  <2>1. pc = "submit" /\ room' = Applied(task, lease, update)
    BY <1>2 DEF SubmitAnswered, SubmitGarbled
  <2> QED BY <2>1, Submitted, TakenRefines DEF IInv
<1>3. CASE LateUpdate
  <2>1. PICK m \in net : room' = Applied(m.task, m.lease, m.update)
    BY <1>3 DEF LateUpdate
  <2>2. m.task \in Tasks /\ m.update \in Updates /\ Ready(m.task, m.update)
    BY DEF IInv, TypeOK, Posts, InFlight
  <2> QED BY <2>1, <2>2, TakenRefines DEF IInv
<1>4. ASSUME Next, ~(SubmitAnswered \/ SubmitGarbled \/ LateUpdate)
      PROVE  room' = room
  <2>1. CASE Dispatcher
    BY <1>4, <2>1 DEF Dispatcher, NoTask, Claim, ClaimRejected, Fetch, Select,
       InvocationFails, Receive, Drained, Submitting, SubmitExpired, SubmitRefused,
       SubmitUnanswered, vars, world
  <2>2. CASE Adapter \/ Crash \/ Restart
    BY <2>2 DEF Adapter, AdapterSends, AdapterEnds, Crash, Restart, world
  <2>3. CASE CalmDown \/ \E t \in Tasks : Expire(t) \/ Revoke(t)
    BY <2>3 DEF CalmDown, Expire, Revoke
  <2> QED BY <1>4, <2>1, <2>2, <2>3 DEF Next
<1> QED BY <1>1, <1>2, <1>3, <1>4 DEF vars, world

\* The room shows of each task three progress events in order and then one
\* end, although submit repeats, loses and duplicates its requests.
THEOREM Implements == Spec => ImplementsStream
<1>1. Init => Stream!Init
  BY DEF Init, Stream!Init, Settled
<1>2. IInv /\ [Next]_vars => [Stream!Next]_(Stream!stream)
  BY StepRefines
<1> QED BY <1>1, <1>2, Invariance, PTL DEF Spec, ImplementsStream, Stream!Spec
=============================================================================
