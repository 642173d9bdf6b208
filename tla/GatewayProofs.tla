---------------------------- MODULE GatewayProofs ----------------------------
(***************************************************************************)
(* Proofs about the gateway process, for any environments, policies,       *)
(* packets, catalog pages and replies.                                     *)
(***************************************************************************)
EXTENDS Gateway, TLAPS

\* A process that is past its start runs in an environment it accepted, and opens
\* the mediator's state and the bridge if Codex is on.
EnvAccepted ==
    /\ pc # "down" => Accepts(env)
    /\ pc \in {"state", "bind"} => ~CodexOff(env)

\* What the room was shown was admitted by the policy it was shown under.
ShownAdmitted ==
    room.shown # None => PageAdmitted(room.shown.page, room.shown.by)

\* The task of a call was leased, and the reply at hand was checked by this
\* process.
CallChecked ==
    /\ room.state # "none" => room.packet # None
    /\ room.lease > 0 => room.state # "none"
    /\ call \in {"turn", "asked"} => room.lease > 0
    /\ call \in {"post", "ack"} => record # None /\ record.reply # None
    /\ call = "post" => SettingsAdmitted(Settings(record.reply), Policy)

IInv == TypeOK /\ EnvAccepted /\ ShownAdmitted /\ CallChecked

-----------------------------------------------------------------------------

\* How stored records and room tasks are changed.
LEMMA InterruptedRecord ==
  ASSUME NEW r \in Records, NEW n \in 1..MaxLeases
  PROVE  [r EXCEPT !.phase = "interrupted", !.failing = TRUE, !.lease = n] \in Records
BY GatewayConstants DEF Records, Phases

LEMMA CompletedRecord ==
  ASSUME NEW r \in Records, NEW n \in 1..MaxLeases, NEW w \in Replies
  PROVE  [r EXCEPT !.phase = "completed", !.reply = w, !.lease = n] \in Records
BY GatewayConstants DEF Records, Phases

LEMMA QuarantinedRecord ==
  ASSUME NEW r \in Records
  PROVE  [r EXCEPT !.phase = "quarantined"] \in Records
BY DEF Records, Phases

LEMMA NewRecord ==
  ASSUME NEW p \in Packets, NEW n \in 1..MaxLeases
  PROVE  [phase |-> "submission-intent", packet |-> p, reply |-> None,
          failing |-> FALSE, lease |-> n] \in Records
BY DEF Records, Phases

LEMMA RoomFields ==
  ASSUME NEW r \in RoomTasks
  PROVE  /\ r.packet \in Packets \cup {None}
         /\ r.lease \in 0..MaxLeases
         /\ r.lease > 0 => r.lease \in 1..MaxLeases
BY GatewayConstants DEF RoomTasks

LEMMA RoomSteps ==
  ASSUME NEW r \in RoomTasks, NEW s \in {"none", "open", "leased", "completed", "failed"}
  PROVE  /\ [r EXCEPT !.state = s] \in RoomTasks
         /\ \A w \in Replies : [r EXCEPT !.state = s, !.reply = w] \in RoomTasks
         /\ r.lease < MaxLeases => [r EXCEPT !.state = s, !.lease = @ + 1] \in RoomTasks
         /\ \A p \in Packets :
              [r EXCEPT !.state = s, !.packet = p, !.shown = None] \in RoomTasks
         /\ \A c \in [by : Policies, page : Pages] : [r EXCEPT !.shown = c] \in RoomTasks
<1>1. MaxLeases \in Nat
  BY GatewayConstants
<1>2. r.lease < MaxLeases => [r EXCEPT !.state = s, !.lease = @ + 1] \in RoomTasks
  <2>1. r.lease < MaxLeases => r.lease + 1 \in 0..MaxLeases
    BY <1>1, RoomFields
  <2>2. QED
    BY <2>1 DEF RoomTasks
<1>3. QED
  BY <1>2 DEF RoomTasks
LEMMA StartType ==
  ASSUME TypeOK, CallChecked, Start
  PROVE  TypeOK'
BY GatewayConstants, NoneIsNothingStored DEF TypeOK, CallChecked, Start, Goes

LEMMA DiscoverCardType ==
  ASSUME TypeOK, CallChecked, DiscoverCard
  PROVE  TypeOK'
BY GatewayConstants, NoneIsNothingStored DEF TypeOK, CallChecked, DiscoverCard,
   Goes, End

LEMMA OpenStateType ==
  ASSUME TypeOK, CallChecked, OpenState
  PROVE  TypeOK'
BY GatewayConstants, NoneIsNothingStored DEF TypeOK, CallChecked, OpenState, Goes,
   End

LEMMA BindType ==
  ASSUME TypeOK, CallChecked, Bind
  PROVE  TypeOK'
BY GatewayConstants, NoneIsNothingStored DEF TypeOK, CallChecked, Bind, Goes, End

LEMMA ReferenceType ==
  ASSUME TypeOK, CallChecked, Reference
  PROVE  TypeOK'
BY GatewayConstants, NoneIsNothingStored DEF TypeOK, CallChecked, Reference,
   ReferenceClaims, ReferenceReturns

LEMMA ReferenceRejectedType ==
  ASSUME TypeOK, CallChecked, ReferenceRejected
  PROVE  TypeOK'
BY GatewayConstants, NoneIsNothingStored DEF TypeOK, CallChecked,
   ReferenceRejected, End

LEMMA StateFailsType ==
  ASSUME TypeOK, CallChecked, StateFails
  PROVE  TypeOK'
BY GatewayConstants, NoneIsNothingStored DEF TypeOK, CallChecked, StateFails, End

LEMMA CrashType ==
  ASSUME TypeOK, CallChecked, Crash
  PROVE  TypeOK'
BY GatewayConstants, NoneIsNothingStored DEF TypeOK, CallChecked, Crash, End

LEMMA DeployType ==
  ASSUME TypeOK, CallChecked, Deploy
  PROVE  TypeOK'
BY GatewayConstants, NoneIsNothingStored DEF TypeOK, CallChecked, Deploy, End

LEMMA ShowCatalogType ==
  ASSUME TypeOK, CallChecked, ShowCatalog
  PROVE  TypeOK'
BY GatewayConstants, NoneIsNothingStored DEF TypeOK, CallChecked, ShowCatalog,
   CatalogAdmitted, Policy, Policies, RoomTasks, process

LEMMA ClaimType ==
  ASSUME TypeOK, CallChecked, Claim
  PROVE  TypeOK'
<1>1. room' \in RoomTasks
  BY RoomSteps DEF TypeOK, Claim
<1>2. call' \in {"idle", "turn"} /\ pc' = pc /\ atWork' = atWork
  BY DEF Claim, Mediates
<1>3. QED
  BY <1>1, <1>2 DEF TypeOK, Claim

LEMMA AskWorkerType ==
  ASSUME TypeOK, CallChecked, AskWorker
  PROVE  TypeOK'
<1>1. room.packet \in Packets /\ room.lease \in 1..MaxLeases
  BY RoomFields DEF TypeOK, CallChecked, AskWorker
<1>2. record' \in Records \cup {None}
  BY <1>1, NewRecord DEF TypeOK, AskWorker, Store
<1>3. call' \in {"idle", "asked"} /\ pc' = pc /\ atWork' = atWork
  BY DEF AskWorker, Mediates
<1>4. QED
  BY <1>2, <1>3 DEF TypeOK, AskWorker

LEMMA TakeReplyType ==
  ASSUME TypeOK, CallChecked, TakeReply
  PROVE  TypeOK'
<1>1. room.lease \in 1..MaxLeases
  BY RoomFields DEF TypeOK, CallChecked, TakeReply
<1>2. record \in Records /\ worker.reply \in Replies
  BY DEF TypeOK, TakeReply
<1>3. record' \in Records
  <2>1. \/ record' = record
        \/ record' = [record EXCEPT !.phase = "completed", !.reply = worker.reply,
                                    !.lease = room.lease]
    BY DEF TakeReply, Store
  <2>2. QED
    BY <1>1, <1>2, <2>1, CompletedRecord
<1>4. call' \in {"idle", "post"} /\ pc' = pc /\ atWork' = atWork
  BY DEF TakeReply, Mediates
<1>5. QED
  BY <1>3, <1>4 DEF TypeOK, TakeReply

LEMMA TurnFailsType ==
  ASSUME TypeOK, CallChecked, TurnFails
  PROVE  TypeOK'
<1>1. room.lease \in 1..MaxLeases
  BY RoomFields DEF TypeOK, CallChecked, TurnFails
<1>2. record \in Records
  BY DEF TypeOK, TurnFails
<1>3. record' \in Records
  BY <1>1, <1>2, InterruptedRecord DEF TurnFails, Store
<1>4. room' \in RoomTasks
  BY RoomSteps DEF TypeOK, TurnFails
<1>5. call' = "idle" /\ pc' = pc /\ atWork' = atWork
  BY DEF TurnFails, Mediates
<1>6. QED
  BY <1>3, <1>4, <1>5 DEF TypeOK, TurnFails

LEMMA PostType ==
  ASSUME TypeOK, CallChecked, Post
  PROVE  TypeOK'
<1>1. record \in Records /\ record.reply \in Replies
  BY NoneIsNothingStored DEF TypeOK, CallChecked, Post, Records
<1>2. room' \in RoomTasks
  <2>1. /\ \A s \in {"completed", "failed"} : [room EXCEPT !.state = s] \in RoomTasks
        /\ \A w \in Replies :
             [room EXCEPT !.state = "completed", !.reply = w] \in RoomTasks
    BY RoomSteps DEF TypeOK
  <2>2. CASE UNCHANGED room
    BY <2>2 DEF TypeOK
  <2>3. CASE room' = [room EXCEPT !.state = "completed", !.reply = record.reply]
    BY <1>1, <2>1, <2>3
  <2>4. CASE room' = [room EXCEPT !.state = "failed"]
    BY <2>1, <2>4
  <2>5. QED
    BY <2>2, <2>3, <2>4 DEF Post, RoomTakes
<1>3. call' \in {"idle", "ack"} /\ pc' = pc /\ atWork' = atWork
  BY DEF Post, RoomTakes, Mediates
<1>4. QED
  BY <1>2, <1>3 DEF TypeOK, Post

LEMMA AcknowledgeType ==
  ASSUME TypeOK, CallChecked, Acknowledge
  PROVE  TypeOK'
BY GatewayConstants, NoneIsNothingStored DEF TypeOK, CallChecked, Acknowledge,
   Mediates, Store, Records, Phases

LEMMA ReconcileType ==
  ASSUME TypeOK, CallChecked, Reconcile
  PROVE  TypeOK'
<1>1. record \in Records
  BY DEF TypeOK, Reconcile, Pending
<1>2. record' \in Records
  <2>1. record' = record \/ record' = [record EXCEPT !.phase = "quarantined"]
    BY DEF Reconcile, Store
  <2>2. QED
    BY <1>1, <2>1, QuarantinedRecord
<1>3. call' \in {"idle", "ack"} /\ pc' = pc /\ atWork' = atWork
  BY DEF Reconcile, Mediates
<1>4. QED
  BY <1>2, <1>3 DEF TypeOK, Reconcile

LEMMA ReplayType ==
  ASSUME TypeOK, CallChecked, Replay
  PROVE  TypeOK'
BY GatewayConstants, NoneIsNothingStored DEF TypeOK, CallChecked, Replay,
   RoomTakes, Mediates, Records, RoomTasks, Replays, Pending

LEMMA ReplayDeniedType ==
  ASSUME TypeOK, CallChecked, ReplayDenied
  PROVE  TypeOK'
BY GatewayConstants, NoneIsNothingStored DEF TypeOK, CallChecked, ReplayDenied,
   Mediates, Store, Records, Phases, Replays, Pending

LEMMA IssueType ==
  ASSUME TypeOK, CallChecked, Issue
  PROVE  TypeOK'
BY GatewayConstants, NoneIsNothingStored DEF TypeOK, CallChecked, Issue, process,
   RoomTasks

LEMMA LeaseEndsType ==
  ASSUME TypeOK, CallChecked, LeaseEnds
  PROVE  TypeOK'
BY GatewayConstants, NoneIsNothingStored DEF TypeOK, CallChecked, LeaseEnds,
   process, RoomTasks

LEMMA RoomFailsType ==
  ASSUME TypeOK, CallChecked, RoomFails
  PROVE  TypeOK'
BY GatewayConstants, NoneIsNothingStored DEF TypeOK, CallChecked, RoomFails,
   process, RoomTasks

LEMMA WorkerRepliesType ==
  ASSUME TypeOK, CallChecked, WorkerReplies
  PROVE  TypeOK'
BY GatewayConstants, NoneIsNothingStored DEF TypeOK, CallChecked, WorkerReplies,
   process

LEMMA WorkerChangesType ==
  ASSUME TypeOK, CallChecked, WorkerChanges
  PROVE  TypeOK'
BY GatewayConstants, NoneIsNothingStored DEF TypeOK, CallChecked, WorkerChanges,
   process

LEMMA HostChangesType ==
  ASSUME TypeOK, CallChecked, HostChanges
  PROVE  TypeOK'
BY GatewayConstants, NoneIsNothingStored DEF TypeOK, CallChecked, HostChanges,
   process

LEMMA TickType ==
  ASSUME TypeOK, CallChecked, Tick
  PROVE  TypeOK'
BY GatewayConstants, NoneIsNothingStored DEF TypeOK, CallChecked, Tick, process

LEMMA CalmDownType ==
  ASSUME TypeOK, CallChecked, CalmDown
  PROVE  TypeOK'
BY GatewayConstants, NoneIsNothingStored DEF TypeOK, CallChecked, CalmDown, process

LEMMA StutterType ==
  ASSUME TypeOK, UNCHANGED vars
  PROVE  TypeOK'
BY DEF TypeOK, vars, process

-----------------------------------------------------------------------------

\* An ended process has no call at hand.
LEMMA EndChecked ==
  ASSUME CallChecked, End, UNCHANGED room
  PROVE  CallChecked'
BY DEF CallChecked, End

\* A step that keeps the call, the record, the task and the environment.
LEMMA StillChecked ==
  ASSUME CallChecked, UNCHANGED <<call, record, env>>,
         room'.state = room.state, room'.packet = room.packet, room'.lease = room.lease
  PROVE  CallChecked'
BY DEF CallChecked, Policy

\* Between calls nothing is at hand.
LEMMA IdleChecked ==
  ASSUME CallChecked, call' = "idle", room'.packet = room.packet,
         room'.lease = room.lease, room.state = "none" <=> room'.state = "none"
  PROVE  CallChecked'
BY DEF CallChecked

LEMMA TypeStep ==
  ASSUME TypeOK, CallChecked, [Next]_vars
  PROVE  TypeOK'
<1>1. CASE Start
  BY <1>1, StartType
<1>2. CASE DiscoverCard
  BY <1>2, DiscoverCardType
<1>3. CASE OpenState
  BY <1>3, OpenStateType
<1>4. CASE Bind
  BY <1>4, BindType
<1>5. CASE ReferenceRejected
  BY <1>5, ReferenceRejectedType
<1>6. CASE StateFails
  BY <1>6, StateFailsType
<1>7. CASE Crash
  BY <1>7, CrashType
<1>8. CASE Deploy
  BY <1>8, DeployType
<1>9. CASE ShowCatalog
  BY <1>9, ShowCatalogType
<1>10. CASE Claim
  BY <1>10, ClaimType
<1>11. CASE AskWorker
  BY <1>11, AskWorkerType
<1>12. CASE TakeReply
  BY <1>12, TakeReplyType
<1>13. CASE TurnFails
  BY <1>13, TurnFailsType
<1>14. CASE Post
  BY <1>14, PostType
<1>15. CASE Acknowledge
  BY <1>15, AcknowledgeType
<1>16. CASE Reconcile
  BY <1>16, ReconcileType
<1>17. CASE Replay
  BY <1>17, ReplayType
<1>18. CASE ReplayDenied
  BY <1>18, ReplayDeniedType
<1>19. CASE Issue
  BY <1>19, IssueType
<1>20. CASE LeaseEnds
  BY <1>20, LeaseEndsType
<1>21. CASE RoomFails
  BY <1>21, RoomFailsType
<1>22. CASE WorkerReplies
  BY <1>22, WorkerRepliesType
<1>23. CASE WorkerChanges
  BY <1>23, WorkerChangesType
<1>24. CASE HostChanges
  BY <1>24, HostChangesType
<1>25. CASE Tick
  BY <1>25, TickType
<1>26. CASE CalmDown
  BY <1>26, CalmDownType
<1>27. CASE UNCHANGED vars
  BY <1>27, StutterType
<1>28. CASE Reference
  BY <1>28, ReferenceType
<1>29. QED
  BY <1>1, <1>2, <1>3, <1>4, <1>5, <1>6, <1>7, <1>8, <1>9, <1>10, <1>11, <1>12,
     <1>13, <1>14, <1>15, <1>16, <1>17, <1>18, <1>19, <1>20, <1>21, <1>22, <1>23,
     <1>24, <1>25, <1>26, <1>27, <1>28 DEF Next, Begin, Ends, Turn, Scan, Outside

LEMMA CheckStep ==
  ASSUME TypeOK, CallChecked, [Next]_vars
  PROVE  CallChecked'
<1>1. CASE Start
  BY <1>1, StillChecked DEF Start, Goes
<1>2. CASE DiscoverCard
  BY <1>2, StillChecked, EndChecked DEF DiscoverCard, Goes
<1>3. CASE OpenState
  BY <1>3, StillChecked, EndChecked DEF OpenState, Goes
<1>4. CASE Bind
  BY <1>4, StillChecked, EndChecked DEF Bind, Goes
<1>5. CASE ReferenceRejected
  BY <1>5, EndChecked DEF ReferenceRejected
<1>6. CASE StateFails
  BY <1>6, EndChecked DEF StateFails
<1>7. CASE Crash
  BY <1>7, EndChecked DEF Crash
<1>8. CASE Deploy
  BY <1>8, EndChecked DEF Deploy
<1>9. CASE ShowCatalog
  BY <1>9, StillChecked DEF TypeOK, ShowCatalog, RoomTasks, process
<1>10. CASE Claim
  BY <1>10, GatewayConstants DEF TypeOK, CallChecked, Claim, Mediates, RoomTasks
<1>11. CASE AskWorker
  BY <1>11 DEF TypeOK, CallChecked, AskWorker, Mediates
<1>12. CASE TakeReply
  <2>1. CASE call' = "idle"
    BY <1>12, <2>1, IdleChecked DEF TakeReply
  <2>2. CASE call' # "idle"
    <3>1. ReplyFits /\ call' = "post" /\ worker.reply # None /\ UNCHANGED <<env, room>>
      BY <1>12, <2>2 DEF TakeReply, Mediates
    <3>2. record \in Records
      BY <1>12 DEF TypeOK, TakeReply
    <3>3. record' = [record EXCEPT !.phase = "completed", !.reply = worker.reply,
                                   !.lease = room.lease]
      BY <1>12, <2>2 DEF TakeReply, Mediates, Store
    <3>4. record'.reply = worker.reply /\ record' \in Records
      <4>1. room.lease \in 1..MaxLeases /\ worker.reply \in Replies
        BY <1>12, RoomFields DEF TypeOK, CallChecked, TakeReply
      <4>2. record' \in Records
        BY <3>2, <3>3, <4>1, CompletedRecord
      <4>3. QED
        BY <3>2, <3>3, <4>2 DEF Records
    <3>5. SettingsAdmitted(Settings(record'.reply), Policy')
      BY <3>1, <3>4 DEF ReplyFits, ResultAdmitted, Policy
    <3>6. record' # None
      BY <3>4, NoneIsNothingStored
    <3>7. QED
      BY <3>1, <3>4, <3>5, <3>6 DEF CallChecked
  <2>3. QED
    BY <2>1, <2>2
<1>13. CASE TurnFails
  BY <1>13 DEF TypeOK, CallChecked, TurnFails, Mediates, Store, RoomTasks,
     Authorized
<1>14. CASE Post
  <2>1. /\ room'.packet = room.packet /\ room'.lease = room.lease
        /\ room.state # "none" => room'.state # "none"
        /\ room.state = "none" => room'.state = "none"
    BY <1>14 DEF TypeOK, Post, RoomTakes, RoomTasks, Authorized
  <2>2. call' \in {"idle", "ack"} /\ UNCHANGED record /\ call = "post"
    BY <1>14 DEF Post, RoomTakes, Mediates
  <2>3. QED
    BY <2>1, <2>2 DEF CallChecked
<1>15. CASE Acknowledge
  BY <1>15 DEF CallChecked, Acknowledge, Mediates
<1>16. CASE Reconcile
  BY <1>16 DEF TypeOK, CallChecked, Reconcile, Pending, Mediates, Policy
<1>17. CASE Replay
  BY <1>17 DEF TypeOK, CallChecked, Replay, Replays, Pending, RoomTakes,
     RoomTasks, Mediates, Policy
<1>18. CASE ReplayDenied
  BY <1>18 DEF CallChecked, ReplayDenied, Mediates
<1>19. CASE Issue
  BY <1>19, NoneIsNothingStored DEF TypeOK, CallChecked, Issue, process,
     RoomTasks, Policy
<1>20. CASE LeaseEnds
  BY <1>20 DEF TypeOK, CallChecked, LeaseEnds, process, RoomTasks, Policy
<1>21. CASE RoomFails
  BY <1>21 DEF TypeOK, CallChecked, RoomFails, process, RoomTasks, Policy
<1>22. CASE WorkerReplies
  BY <1>22, StillChecked DEF WorkerReplies, process
<1>23. CASE WorkerChanges
  BY <1>23, StillChecked DEF WorkerChanges, process
<1>24. CASE HostChanges
  BY <1>24, StillChecked DEF HostChanges, process
<1>25. CASE Tick
  BY <1>25, StillChecked DEF Tick, process
<1>26. CASE CalmDown
  BY <1>26, StillChecked DEF CalmDown, process
<1>27. CASE UNCHANGED vars
  BY <1>27, StillChecked DEF vars, process
<1>28. CASE Reference
  BY <1>28, StillChecked DEF Reference, ReferenceClaims, ReferenceReturns
<1>29. QED
  BY <1>1, <1>2, <1>3, <1>4, <1>5, <1>6, <1>7, <1>8, <1>9, <1>10, <1>11, <1>12,
     <1>13, <1>14, <1>15, <1>16, <1>17, <1>18, <1>19, <1>20, <1>21, <1>22, <1>23,
     <1>24, <1>25, <1>26, <1>27, <1>28 DEF Next, Begin, Ends, Turn, Scan, Outside

-----------------------------------------------------------------------------

\* Only these steps move the process, and the last of them end one that runs, or
\* in times that are not calm.
LEMMA OtherSteps ==
  ASSUME [Next]_vars
  PROVE  \/ Begin
         \/ Ends
         \/ UNCHANGED <<env, pc>>
BY DEF Next, Reference, ReferenceClaims, ReferenceReturns, ShowCatalog, Claim, Turn,
   AskWorker, TakeReply, TurnFails, Post, Acknowledge, Scan, Reconcile, Replay,
   ReplayDenied, Outside, Issue, LeaseEnds, RoomFails, WorkerReplies, WorkerChanges,
   HostChanges, Tick, CalmDown, RoomTakes, Mediates, process, vars

LEMMA EnvStep ==
  ASSUME EnvAccepted, [Next]_vars
  PROVE  EnvAccepted'
<1>1. CASE Start
  BY <1>1 DEF EnvAccepted, Start, Goes
<1>2. CASE DiscoverCard \/ OpenState \/ Bind
  BY <1>2 DEF EnvAccepted, DiscoverCard, OpenState, Bind, Goes, End
<1>3. CASE Ends
  BY <1>3 DEF EnvAccepted, Ends, ReferenceRejected, StateFails, Crash, Deploy, End
<1>4. CASE UNCHANGED <<env, pc>>
  BY <1>4 DEF EnvAccepted
<1>5. QED
  BY <1>1, <1>2, <1>3, <1>4, OtherSteps DEF Begin

\* Only the bridge, and the end of its interest, change what the room was shown.
LEMMA ShownStep ==
  ASSUME TypeOK, ShownAdmitted, [Next]_vars
  PROVE  ShownAdmitted'
<1>1. CASE ShowCatalog
  <2>1. room'.shown = [by |-> Policy, page |-> worker.page] /\ PageAdmitted(worker.page, Policy)
    BY <1>1 DEF TypeOK, ShowCatalog, CatalogAdmitted, RoomTasks
  <2>2. QED
    BY <2>1 DEF ShownAdmitted
<1>2. CASE Issue
  <2>1. room'.shown = None
    BY <1>2 DEF TypeOK, Issue, RoomTasks
  <2>2. QED
    BY <2>1 DEF ShownAdmitted
<1>3. CASE room'.shown = room.shown
  BY <1>3 DEF ShownAdmitted
<1>4. Claim \/ TurnFails \/ Post \/ Replay \/ LeaseEnds \/ RoomFails => room'.shown = room.shown
  BY DEF TypeOK, RoomTasks, Claim, TurnFails, Post, Replay, RoomTakes, LeaseEnds,
     RoomFails
<1>5. \/ Begin \/ Ends \/ AskWorker \/ TakeReply \/ Acknowledge \/ Reconcile \/ ReplayDenied
      \/ WorkerReplies \/ WorkerChanges \/ HostChanges \/ Tick \/ CalmDown \/ UNCHANGED vars
      \/ Reference
      => UNCHANGED room
  BY DEF Reference, ReferenceClaims, ReferenceReturns, Begin, Start, DiscoverCard, OpenState, Bind, Ends, ReferenceRejected,
     StateFails,
         Crash, Deploy, AskWorker, TakeReply, Acknowledge, Reconcile, ReplayDenied,
         WorkerReplies, WorkerChanges, HostChanges, Tick, CalmDown, vars
<1>6. QED
  BY <1>1, <1>2, <1>3, <1>4, <1>5 DEF Next, Turn, Scan, Outside

\* A reply reaches the room by these two steps only, and both take the stored one.
LEMMA ReplyPosted ==
  ASSUME TypeOK, [Next]_vars, room'.reply # room.reply
  PROVE  /\ Post \/ Replay
         /\ room'.reply = record.reply
<1>1. ShowCatalog \/ Claim \/ TurnFails \/ Issue \/ LeaseEnds \/ RoomFails => room'.reply = room.reply
  BY DEF TypeOK, RoomTasks, ShowCatalog, Claim, TurnFails, Issue, LeaseEnds,
     RoomFails
<1>2. \/ Begin \/ Ends \/ AskWorker \/ TakeReply \/ Acknowledge \/ Reconcile \/ ReplayDenied
      \/ WorkerReplies \/ WorkerChanges \/ HostChanges \/ Tick \/ CalmDown \/ UNCHANGED vars
      \/ Reference
      => UNCHANGED room
  BY DEF Reference, ReferenceClaims, ReferenceReturns, Begin, Start, DiscoverCard, OpenState, Bind, Ends, ReferenceRejected,
     StateFails,
         Crash, Deploy, AskWorker, TakeReply, Acknowledge, Reconcile, ReplayDenied,
         WorkerReplies, WorkerChanges, HostChanges, Tick, CalmDown, vars
<1>3. Post \/ Replay
  BY <1>1, <1>2 DEF Next, Turn, Scan, Outside
<1>4. QED
  BY <1>3 DEF TypeOK, RoomTasks, Post, Replay, RoomTakes

-----------------------------------------------------------------------------

LEMMA InitInvariant ==
  ASSUME Init
  PROVE  IInv
<1>1. room.shown = None /\ room.state = "none" /\ room.lease = 0
  BY DEF Init
<1>2. room \in RoomTasks
  BY GatewayConstants DEF Init, RoomTasks
<1>3. TypeOK
  <2>1. now \in 0..MaxTime
    <3>1. now = 0 /\ MaxTime \in Nat
      BY GatewayConstants DEF Init
    <3>2. QED
      BY <3>1
  <2>2. worker \in [page : Pages \cup {None}, reply : Replies \cup {None}]
    BY DEF Init
  <2>3. host \in HostStates /\ calm \in BOOLEAN
    BY GatewayConstants DEF Init
  <2>4. /\ env \in Environments /\ record = None
        /\ pc = "down" /\ call = "idle" /\ atWork = FALSE
    BY DEF Init
  <2>5. QED
    BY <1>2, <2>1, <2>2, <2>3, <2>4 DEF TypeOK
<1>4. EnvAccepted /\ ShownAdmitted
  BY <1>1 DEF Init, EnvAccepted, ShownAdmitted
<1>5. CallChecked
  BY <1>1 DEF Init, CallChecked
<1>6. QED
  BY <1>3, <1>4, <1>5 DEF IInv

LEMMA StepInvariant ==
  ASSUME IInv, [Next]_vars
  PROVE  IInv'
BY TypeStep, CheckStep, EnvStep, ShownStep DEF IInv

\* The inductive invariant of the gateway process.
THEOREM Invariance == Spec => []IInv
<1>1. Init => IInv
  BY InitInvariant
<1>2. IInv /\ [Next]_vars => IInv'
  BY StepInvariant
<1>3. QED
  BY <1>1, <1>2, PTL DEF Spec

\* Every reachable state is well typed (main, run_once).
THEOREM TypeCorrect == Spec => []TypeOK
<1>1. IInv => TypeOK
  BY DEF IInv
<1>2. QED
  BY <1>1, Invariance, PTL

\* The secrets of an accepted environment are different from each other.
LEMMA AcceptedSecretsDiffer ==
  ASSUME NEW e, Accepts(e)
  PROVE  /\ e.inboundSecret # e.clientSecret
         /\ ~CodexOff(e) => SecretsDistinct(e)
<1>1. ReferenceFits(e) /\ CodexFits(e)
  BY DEF Accepts
<1>2. e.inboundSecret # e.clientSecret
  BY <1>1 DEF ReferenceFits
<1>3. ~CodexOff(e) => SecretsDistinct(e)
  BY <1>1, Zenon DEF CodexFits
<1>4. QED
  BY <1>2, <1>3

\* In whatever environment it is deployed, a process that runs has a secret of
\* its own for Keycloak, the reference agent, the worker and the bridge
\* (GatewayConfig::parse, CodexConfig::parse).
THEOREM KeysDiffer == Spec => []OneKeyPerDoor
<1>1. ASSUME EnvAccepted
      PROVE  OneKeyPerDoor
  <2>1. SUFFICES ASSUME pc # "down"
                 PROVE  OneKeyPerDoor
    BY DEF OneKeyPerDoor
  <2>2. /\ env.inboundSecret # env.clientSecret
        /\ ~CodexOff(env) => SecretsDistinct(env)
    BY <1>1, <2>1, AcceptedSecretsDiffer DEF EnvAccepted
  <2>3. CASE CodexOff(env)
    BY <2>2, <2>3 DEF OneKeyPerDoor, Distinct
  <2>4. CASE ~CodexOff(env)
    BY <2>2, <2>4 DEF OneKeyPerDoor, Distinct, SecretsDistinct
  <2>5. QED
    BY <2>3, <2>4
<1>2. IInv => OneKeyPerDoor
  BY <1>1 DEF IInv
<1>3. QED
  BY <1>2, Invariance, PTL

\* What an admitted page offers, the policy allows.
LEMMA OffersAllowed ==
  ASSUME NEW page, NEW a, PageAdmitted(page, a),
         NEW model, NEW effort, Offers(page, model, effort)
  PROVE  Allows(a, model, effort)
<1>1. PICK i \in DOMAIN page.data :
        page.data[i].id = model /\ effort \in Listed(page.data[i].efforts)
  BY DEF Offers, Listed
<1>2. ModelAdmitted(page.data[i], a)
  BY DEF PageAdmitted
<1>3. QED
  BY <1>1, <1>2 DEF ModelAdmitted, Allows

\* The mediator refuses no packet made of what the bridge has shown
\* (WorkerClient::catalog, validate_packet_with_sources).
THEOREM ShownAsAdmitted == Spec => []ShownIsAdmitted
<1>1. ASSUME ShownAdmitted
      PROVE  ShownIsAdmitted
  <2>1. SUFFICES ASSUME room.shown # None, NEW p \in Packets,
                        Offers(room.shown.page, p.model, p.effort),
                        p.catalog = room.shown.page.revision,
                        p.guidance = room.shown.by.guidance,
                        p.forCodex, InTime(p, now)
                 PROVE  PacketAdmitted(p, room.shown.by, now)
    BY DEF ShownIsAdmitted
  <2>2. PageAdmitted(room.shown.page, room.shown.by)
    BY <1>1, <2>1 DEF ShownAdmitted
  <2>3. Allows(room.shown.by, p.model, p.effort)
    BY <2>1, <2>2, OffersAllowed
  <2>4. p.catalog = room.shown.by.catalog
    BY <2>1, <2>2 DEF PageAdmitted
  <2>5. QED
    BY <2>1, <2>3, <2>4 DEF PacketAdmitted
<1>2. IInv => ShownIsAdmitted
  BY <1>1 DEF IInv
<1>3. QED
  BY <1>2, Invariance, PTL

\* Whichever process stored a reply, the one that posts it admits the settings
\* it names (recover_pending, run_once).
THEOREM PostedUnderPolicy == Spec => PostsUnderPolicy
<1>1. ASSUME IInv, [Next]_vars, room'.reply # room.reply
      PROVE  SettingsAdmitted(Settings(room'.reply), Policy)
  <2>1. (Post \/ Replay) /\ room'.reply = record.reply
    BY <1>1, ReplyPosted DEF IInv
  <2>2. CASE Post
    BY <1>1, <2>1, <2>2 DEF IInv, CallChecked, Post
  <2>3. CASE Replay
    BY <2>1, <2>3 DEF Replay, ResultAdmitted
  <2>4. QED
    BY <2>1, <2>2, <2>3
<1>2. IInv /\ [Next]_vars =>
        [room.reply' # room.reply =>
           SettingsAdmitted(Settings(room'.reply), Policy)]_vars
  BY <1>1
<1>3. QED
  BY <1>2, Invariance, PTL DEF Spec, PostsUnderPolicy

-----------------------------------------------------------------------------

\* A reply that a policy admits is admitted by every wider one: only a policy
\* that takes something away can hold a stored reply back.
THEOREM WiderPolicyKeeps ==
  ASSUME NEW a, NEW b, Within(a, b), NEW r, NEW p, ResultAdmitted(r, p, a)
  PROVE  ResultAdmitted(r, p, b)
<1>1. SettingsAdmitted(Settings(r), a)
  BY DEF ResultAdmitted
<1>2. SettingsAdmitted(Settings(r), b)
  BY <1>1 DEF SettingsAdmitted, Within
<1>3. QED
  BY <1>2 DEF ResultAdmitted

-----------------------------------------------------------------------------

\* What the configuration's checks say of a secret's length and alphabet.
LEMMA InvocationSecretBounds ==
  ASSUME NEW s, InvocationSecretFits(s)
  PROVE  s.length >= 16 /\ s.length <= 4096 /\ s.alphabet # "any"
BY SMTT(60) DEF InvocationSecretFits

LEMMA BridgeSecretBounds ==
  ASSUME NEW s, BridgeSecretFits(s)
  PROVE  s.length >= 32 /\ s.length <= 4096 /\ s.alphabet = "token"
BY SMTT(60) DEF BridgeSecretFits

\* Every constructor, by checks of its own, takes what the configuration's have
\* accepted (A2aAdapter::new, WorkerClient::build, ConversationDispatcher::new,
\* catalog_service).
LEMMA AcceptedBuilds ==
  ASSUME NEW e, Accepts(e)
  PROVE  /\ AdapterBuilds(e)
         /\ ~CodexOff(e) => WorkerClientBuilds(e) /\ MediatorBuilds(e) /\ BridgeBuilds(e)
<1>1. AdapterBuilds(e)
  BY DEF Accepts, ReferenceFits, AdapterBuilds
<1>2. ASSUME ~CodexOff(e)
      PROVE  WorkerClientBuilds(e) /\ MediatorBuilds(e) /\ BridgeBuilds(e)
  <2>1. /\ InvocationSecretFits(e.codex.secret)
        /\ BridgeSecretFits(e.codex.bridgeSecret)
        /\ e.codex.dir = "absolute"
    BY <1>2 DEF Accepts, CodexFits
  <2>2. WorkerClientBuilds(e)
    BY <2>1, InvocationSecretBounds, SMTT(60) DEF WorkerClientBuilds
  <2>3. BridgeBuilds(e)
    BY <2>1, <2>2, BridgeSecretBounds, SMTT(60) DEF BridgeBuilds
  <2>4. QED
    BY <2>1, <2>2, <2>3 DEF MediatorBuilds
<1>3. QED
  BY <1>1, <1>2

\* A start that has begun is not refused any more: the bounds and alphabets that
\* the constructors ask of the secrets, in other places of the code than the
\* configuration does, leave nothing out that it lets in, and so no start fails
\* for ever after it has discovered the agent (main).
THEOREM StartsWhatItAccepts ==
  Spec => [][calm /\ host = All /\ pc \in {"card", "state", "bind"}
               => pc' # "down"]_vars
<1>1. ASSUME IInv, [Next]_vars, calm, host = All, pc \in {"card", "state", "bind"}
      PROVE  pc' # "down"
  <2>1. Accepts(env)
    BY <1>1 DEF IInv, EnvAccepted
  <2>2. CASE DiscoverCard
    BY <1>1, <2>2 DEF DiscoverCard, Goes, All
  <2>3. CASE OpenState
    <3>1. ~CodexOff(env)
      BY <1>1, <2>3 DEF IInv, EnvAccepted, OpenState
    <3>2. WorkerClientBuilds(env) /\ MediatorBuilds(env)
      BY <2>1, <3>1, AcceptedBuilds
    <3>3. QED
      BY <1>1, <2>3, <3>2 DEF OpenState, Goes, All
  <2>4. CASE Bind
    <3>1. ~CodexOff(env)
      BY <1>1, <2>4 DEF IInv, EnvAccepted, Bind
    <3>2. BridgeBuilds(env)
      BY <2>1, <3>1, AcceptedBuilds
    <3>3. QED
      BY <1>1, <2>4, <3>2 DEF Bind, Goes, All
  <2>5. CASE pc' = pc
    BY <1>1, <2>5
  <2>6. ~Start /\ ~Ends
    BY <1>1 DEF Start, Ends, ReferenceRejected, StateFails, CodexRuns, Crash, Deploy
  <2>7. QED
    BY <1>1, <2>2, <2>3, <2>4, <2>5, <2>6, OtherSteps DEF Begin
<1>2. IInv /\ [Next]_vars =>
        [calm /\ host = All /\ pc \in {"card", "state", "bind"} => pc' # "down"]_vars
  BY <1>1
<1>3. QED
  BY <1>2, Invariance, PTL DEF Spec

\* Of the answers that calm times leave, each that makes a claim fail is one
\* after which it is made again.
LEMMA SoundClaims ==
  ASSUME NEW token \in SoundAnswers, NEW answer \in SoundAnswers,
         ClaimFails(token, answer)
  PROVE  Retryable(Decisive(token, answer))
<1>1. CASE HasToken(token)
  <2>1. ~NoContent(answer) /\ (NoAnswer(answer) \/ Refused(answer) \/ answer.body # "whole")
    BY <1>1 DEF ClaimFails, ClaimNone, ClaimSome
  <2>2. Retryable(answer)
    BY <2>1 DEF SoundAnswers, Retryable
  <2>3. QED
    BY <1>1, <2>2 DEF Decisive
<1>2. CASE ~HasToken(token)
  <2>1. Retryable(token)
    BY <1>2 DEF HasToken, SoundAnswers, Retryable
  <2>2. QED
    BY <1>2, <2>1 DEF Decisive
<1>3. QED
  BY <1>1, <1>2

\* No outage of Keycloak or of the room gateway, whatever statuses of a server
\* that is down or overloaded it answers, ends a process that is at work on no
\* room task (RoomClientError::is_retryable, run_forever).
THEOREM OutagesOutlived == Spec => OutlivesOutages
<1>1. ASSUME IInv, [Next]_vars, calm, pc = "running", ~atWork,
             CodexOff(env) \/ "dir" \in host
      PROVE  pc' = "running"
  <2>1. ASSUME ReferenceRejected
        PROVE  FALSE
    <3>1. ~ClaimsAreRetried /\ Answered = SoundAnswers
      BY <1>1, <2>1 DEF ReferenceRejected, Answered
    <3>2. QED
      BY <3>1, SoundClaims DEF ClaimsAreRetried
  <2>2. ~StateFails /\ ~Crash /\ ~Deploy
    BY <1>1 DEF StateFails, CodexRuns, Crash, Deploy
  <2>3. ~Begin
    BY <1>1 DEF Begin, Start, DiscoverCard, OpenState, Bind
  <2>4. QED
    BY <1>1, <2>1, <2>2, <2>3, OtherSteps DEF Ends
<1>2. IInv /\ [Next]_vars =>
        [calm /\ pc = "running" /\ ~atWork /\ (CodexOff(env) \/ "dir" \in host)
           => pc' = "running"]_vars
  BY <1>1
<1>3. QED
  BY <1>2, Invariance, PTL DEF Spec, OutlivesOutages
=============================================================================
