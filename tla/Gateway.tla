------------------------------- MODULE Gateway -------------------------------
(***************************************************************************)
(* The gateway process between its deployments                             *)
(* (src/bin/thought-khoral-agent-gateway.rs): it reads its environment,    *)
(* discovers the reference agent's card, opens the mediator's state, binds *)
(* the catalog bridge, and then runs its loops until one of them ends.     *)
(* The container runtime starts it again, perhaps in another environment,  *)
(* with another model policy, beside the record an earlier process left.   *)
(*                                                                         *)
(* The steps of the two dispatchers are in RoomDispatcher and              *)
(* ConversationDispatcher.  Here one conversation task goes through the    *)
(* mediator, in as many steps as there are moments at which the policy     *)
(* decides or a new process may take over, and of the room dispatcher      *)
(* only whether it is at work on a task, and its end.  The room, the       *)
(* worker, the reference agent and the host are external.                  *)
(***************************************************************************)
EXTENDS GatewayConfig, RoomClient

CONSTANTS
    Environments,  \* environments the gateway may be deployed in
    Packets,       \* packets the room may issue
    Pages,         \* catalog pages the worker may have
    Replies,       \* replies the worker may give
    HostStates,    \* what the process may find usable around it
    MaxLeases,     \* bound: leases the room issues of the task
    MaxTime        \* bound: the time at which the clock stops

VARIABLES
    env,     \* the environment of the present deployment
    pc,      \* where the process stands between start and end
    call,    \* where the mediator's loop stands
    atWork,  \* the room dispatcher has claimed a task and is at work on it
    record,  \* the record stored for the task
    host,    \* what it finds usable: state directory, bridge port, pinned agent
    worker,  \* the worker: its catalog page, its reply to the task
    room,    \* the room: the task, its outcome, the catalog it was shown
    now,     \* the time
    calm     \* TRUE once nothing is deployed, changed, lost or falsified

process == <<pc, call, atWork>>
vars == <<env, process, record, host, worker, room, now, calm>>

All == {"agent", "dir", "port"}
Policies == {e.codex.policy : e \in Environments}

ASSUME GatewayConstants ==
    /\ \A p \in Policies \ {None} : IsAdmission(p)
    /\ None \notin Replies /\ None \notin Pages
    /\ HostStates \subseteq SUBSET All /\ All \in HostStates
    /\ MaxLeases \in Nat /\ MaxTime \in Nat

-----------------------------------------------------------------------------
(* Types *)

Phases == {"submission-intent", "interrupted", "completed", "acknowledged",
           "quarantined"}
\* failing: the update stored in it is that of a failure.
Records == {r \in [phase : Phases, packet : Packets, reply : Replies \cup {None},
                   failing : BOOLEAN, lease : 1..MaxLeases] :
                r.phase \in {"completed", "acknowledged"} => r.reply # None}
RoomTasks == [state  : {"none", "open", "leased", "completed", "failed"},
              lease  : 0..MaxLeases,
              packet : Packets \cup {None},
              reply  : Replies \cup {None},
              shown  : [by : Policies, page : Pages] \cup {None}]

ASSUME NoneIsNothingStored == None \notin Records /\ None \notin Packets

TypeOK ==
    /\ env \in Environments
    /\ pc \in {"down", "card", "state", "bind", "running"}
    /\ call \in {"idle", "turn", "asked", "post", "ack"}
    /\ atWork \in BOOLEAN
    /\ record \in Records \cup {None}
    /\ host \in HostStates
    /\ worker \in [page : Pages \cup {None}, reply : Replies \cup {None}]
    /\ room \in RoomTasks
    /\ now \in 0..MaxTime
    /\ calm \in BOOLEAN

Init ==
    /\ env \in Environments
    /\ pc = "down" /\ call = "idle" /\ atWork = FALSE /\ record = None
    /\ host = All
    /\ \E page \in Pages : worker = [page |-> page, reply |-> None]
    /\ room = [state |-> "none", lease |-> 0, packet |-> None, reply |-> None,
               shown |-> None]
    /\ now = 0 /\ calm = FALSE

Policy == env.codex.policy
CodexRuns == pc = "running" /\ ~CodexOff(env)

-----------------------------------------------------------------------------
(* The process *)

End == pc' = "down" /\ call' = "idle" /\ atWork' = FALSE
Goes(step) == pc' = step /\ UNCHANGED <<call, atWork>>

Start ==
    /\ pc = "down" /\ Accepts(env) /\ AdapterBuilds(env)
    /\ Goes("card")
    /\ UNCHANGED <<env, record, host, worker, room, now, calm>>

\* resolve_pinned_card and from_pinned_card: one attempt, of a fixed card.
DiscoverCard ==
    /\ pc = "card"
    /\ IF "agent" \notin host THEN End
       ELSE Goes(IF CodexOff(env) THEN "running" ELSE "state")
    /\ UNCHANGED <<env, record, host, worker, room, now, calm>>

OpenState ==
    /\ pc = "state"
    /\ IF WorkerClientBuilds(env) /\ MediatorBuilds(env) /\ "dir" \in host
       THEN Goes("bind") ELSE End
    /\ UNCHANGED <<env, record, host, worker, room, now, calm>>

Bind ==
    /\ pc = "bind"
    /\ IF "port" \in host /\ BridgeBuilds(env) THEN Goes("running") ELSE End
    /\ UNCHANGED <<env, record, host, worker, room, now, calm>>

\* In calm times an answer is what was asked for, or there is none, or the
\* server is down or overloaded: no claim is refused, and no body cut off.
SoundAnswers ==
    {a \in Answers : \/ NoAnswer(a) \/ a.status >= 500 \/ a.status = 429
                     \/ ~Refused(a) /\ a.body = "whole"}
Answered == IF calm THEN SoundAnswers ELSE Answers

\* run_forever of the room dispatcher goes on after these failures only.
ClaimsAreRetried ==
    \A token, answer \in Answered :
        ClaimFails(token, answer) => Retryable(Decisive(token, answer))

ReferenceClaims ==
    /\ pc = "running" /\ ~atWork
    /\ atWork' = TRUE
    /\ UNCHANGED <<env, pc, call, record, host, worker, room, now, calm>>

\* The task is done, or its packet is over (RoomDispatcher).
ReferenceReturns ==
    /\ pc = "running" /\ atWork
    /\ atWork' = FALSE
    /\ UNCHANGED <<env, pc, call, record, host, worker, room, now, calm>>

\* The room dispatcher's claim is refused for good, or the failure of its task
\* is, which was revoked or has lost its lease, as may happen in calm times and
\* after an outage: its loop ends, and all.
ReferenceRejected ==
    /\ pc = "running"
    /\ atWork \/ ~ClaimsAreRetried
    /\ End
    /\ UNCHANGED <<env, record, host, worker, room, now, calm>>

\* The mediator cannot read its directory: its loop ends, and all.
StateFails ==
    /\ CodexRuns /\ "dir" \notin host
    /\ End
    /\ UNCHANGED <<env, record, host, worker, room, now, calm>>

Crash ==
    /\ pc # "down" /\ ~calm
    /\ End
    /\ UNCHANGED <<env, record, host, worker, room, now, calm>>

Deploy ==
    /\ ~calm
    /\ env' \in Environments
    /\ End
    /\ UNCHANGED <<record, host, worker, room, now, calm>>

-----------------------------------------------------------------------------
(* The catalog bridge *)

\* admit and catalog of the worker client.
CatalogAdmitted == worker.page # None /\ PageAdmitted(worker.page, Policy)

\* catalog: the worker's card and page are fetched for each request, and the
\* page is passed on as it is; any failure is "runtime_unavailable".  Bound: the room
\* is shown it before it issues the task.
ShowCatalog ==
    /\ CodexRuns /\ room.state = "none"
    /\ CatalogAdmitted
    /\ room' = [room EXCEPT !.shown = [by |-> Policy, page |-> worker.page]]
    /\ UNCHANGED <<env, process, record, host, worker, now, calm>>

-----------------------------------------------------------------------------
(* The mediator: one task *)

Authorized == room.state = "leased" /\ now < room.packet.expires

Mediates(step) == call' = step /\ UNCHANGED <<pc, atWork>>
Store(r) == "dir" \in host /\ record' = r

Claim ==
    /\ CodexRuns /\ call = "idle" /\ room.state = "open" /\ room.lease < MaxLeases
    /\ room' = [room EXCEPT !.state = "leased", !.lease = @ + 1]
    /\ Mediates(IF PacketAdmitted(room.packet, Policy, now) THEN "turn" ELSE "idle")
    /\ UNCHANGED <<env, record, host, worker, now, calm>>

\* Card and catalog are fetched and judged, the intent is stored, the worker
\* is asked.  Any failure ends the call, with nothing stored.
AskWorker ==
    /\ CodexRuns /\ call = "turn" /\ record = None
    /\ IF /\ CatalogAdmitted
          /\ Offers(worker.page, room.packet.model, room.packet.effort)
          /\ Authorized
       THEN /\ Mediates("asked")
            /\ Store([phase |-> "submission-intent", packet |-> room.packet,
                      reply |-> None, failing |-> FALSE, lease |-> room.lease])
       ELSE Mediates("idle") /\ UNCHANGED record
    /\ UNCHANGED <<env, host, worker, room, now, calm>>

\* Mutant: the reply of an earlier process's turn is taken as it is.
RepliesAlike == record.reply \in {None, worker.reply}

ReplyFits ==
    /\ record.reply \in {None, worker.reply}
    /\ ResultAdmitted(worker.reply, record.packet, Policy)

\* Mutant: the phase is stored before the reply is.
TakeReplyLate ==
    /\ CodexRuns /\ worker.reply # None /\ record # None
    /\ call \in {"turn", "asked"} /\ ReplyFits /\ Authorized
    /\ Mediates("post")
    /\ Store([record EXCEPT !.phase = "completed", !.lease = room.lease])
    /\ UNCHANGED <<env, host, worker, room, now, calm>>

\* The reply of this turn, or of one an earlier process asked for.
TakeReply ==
    /\ CodexRuns /\ worker.reply # None /\ record # None
    /\ call \in {"turn", "asked"}
    /\ IF ReplyFits /\ Authorized
       THEN /\ Mediates("post")
            /\ Store([record EXCEPT !.phase = "completed", !.reply = worker.reply,
                                    !.lease = room.lease])
       ELSE Mediates("idle") /\ UNCHANGED record
    /\ UNCHANGED <<env, host, worker, room, now, calm>>

\* No answer within its limit, a lost authority, or an earlier turn of which
\* the worker has no reply.  The failure may or may not reach the room.
TurnFails ==
    /\ CodexRuns /\ call \in {"turn", "asked"} /\ record # None
    /\ Mediates("idle")
    /\ \/ UNCHANGED <<record, room>>
       \/ /\ Store([record EXCEPT !.phase = "interrupted", !.failing = TRUE,
                                   !.lease = room.lease])
          /\ \/ UNCHANGED room
             \/ Authorized /\ room' = [room EXCEPT !.state = "failed"]
    /\ UNCHANGED <<env, host, worker, now, calm>>

\* The room takes what is posted for a task in its lease.
RoomTakes(r) ==
    \/ /\ Authorized /\ ~r.failing
       /\ room' = [room EXCEPT !.state = "completed", !.reply = r.reply]
       /\ Mediates("ack")
    \/ /\ Authorized /\ r.failing
       /\ room' = [room EXCEPT !.state = "failed"]
       /\ Mediates("idle")
    \/ ~Authorized /\ UNCHANGED room /\ Mediates("idle")

Post ==
    /\ CodexRuns /\ call = "post"
    /\ RoomTakes(record) \/ (~calm /\ UNCHANGED room /\ Mediates("idle"))
    /\ UNCHANGED <<env, record, host, worker, now, calm>>

Acknowledge ==
    /\ CodexRuns /\ call = "ack"
    /\ Mediates("idle")
    /\ Store([record EXCEPT !.phase = "acknowledged"]) \/ (~calm /\ UNCHANGED record)
    /\ UNCHANGED <<env, host, worker, room, now, calm>>

-----------------------------------------------------------------------------
(* The mediator: the scan of the stored record *)

Pending ==
    /\ CodexRuns /\ call = "idle" /\ record # None
    /\ record.reply # None
    /\ record.phase \notin {"acknowledged", "quarantined"}

\* reconcile_broker: the room is done with the task.
Reconcile ==
    /\ Pending
    /\ \/ /\ room.state = "completed" /\ room.reply = record.reply
          /\ Mediates("ack") /\ UNCHANGED record
       \/ /\ room.state = "failed"
          /\ Mediates("idle") /\ Store([record EXCEPT !.phase = "quarantined"])
    /\ UNCHANGED <<env, host, worker, room, now, calm>>

Replays == Pending /\ record.phase = "completed" /\ room.state \in {"open", "leased"}

\* The authority of the lease in the record.
StillAuthorized == Authorized /\ record.lease = room.lease

\* Mutant: the stored reply is posted on the word of the process that stored it.
ReplayUnchecked ==
    /\ Replays /\ StillAuthorized
    /\ RoomTakes(record)
    /\ UNCHANGED <<env, record, host, worker, now, calm>>

\* recover_pending: the stored reply is checked again and posted.
Replay ==
    /\ Replays /\ StillAuthorized
    /\ ResultAdmitted(record.reply, record.packet, Policy)
    /\ RoomTakes(record)
    /\ UNCHANGED <<env, record, host, worker, now, calm>>

\* Mutant: the policy is asked before the room.
DeniedIfAdmitted ==
    /\ Replays
    /\ ResultAdmitted(record.reply, record.packet, Policy)
    /\ ~StillAuthorized
    /\ Mediates("idle") /\ Store([record EXCEPT !.phase = "quarantined"])
    /\ UNCHANGED <<env, host, worker, room, now, calm>>

\* The room, or Keycloak before it, denies the authority.
Deniable == ~ \A token, answer \in Answered : ~AuthorityDenied(token, answer)

ReplayDenied ==
    /\ Replays
    /\ ~StillAuthorized \/ Deniable
    /\ Mediates("idle") /\ Store([record EXCEPT !.phase = "quarantined"])
    /\ UNCHANGED <<env, host, worker, room, now, calm>>

-----------------------------------------------------------------------------
(* The others *)

Issue ==
    /\ room.state = "none"
    /\ \E p \in Packets : room' = [room EXCEPT !.state = "open", !.packet = p,
                                                !.shown = None]
    /\ UNCHANGED <<env, process, record, host, worker, now, calm>>

LeaseEnds ==
    /\ room.state = "leased"
    /\ room' = [room EXCEPT !.state = "open"]
    /\ UNCHANGED <<env, process, record, host, worker, now, calm>>

RoomFails ==
    /\ room.state \in {"open", "leased"} /\ now >= room.packet.expires
    /\ room' = [room EXCEPT !.state = "failed"]
    /\ UNCHANGED <<env, process, record, host, worker, now, calm>>

WorkerReplies ==
    /\ record # None /\ worker.reply = None
    /\ \E r \in Replies : worker' = [worker EXCEPT !.reply = r]
    /\ UNCHANGED <<env, process, record, host, room, now, calm>>

WorkerChanges ==
    /\ ~calm
    /\ \E page \in Pages \cup {None} : worker' = [worker EXCEPT !.page = page]
    /\ UNCHANGED <<env, process, record, host, room, now, calm>>

HostChanges ==
    /\ ~calm
    /\ host' \in HostStates
    /\ UNCHANGED <<env, process, record, worker, room, now, calm>>

Tick ==
    /\ now < MaxTime /\ now' = now + 1
    /\ UNCHANGED <<env, process, record, host, worker, room, calm>>

CalmDown ==
    /\ ~calm /\ calm' = TRUE
    /\ UNCHANGED <<env, process, record, host, worker, room, now>>

-----------------------------------------------------------------------------

Begin == Start \/ DiscoverCard \/ OpenState \/ Bind
Reference == ReferenceClaims \/ ReferenceReturns
Ends == ReferenceRejected \/ StateFails \/ Crash \/ Deploy
Turn == AskWorker \/ TakeReply \/ TurnFails \/ Post \/ Acknowledge
Scan == Reconcile \/ Replay \/ ReplayDenied
Outside == \/ Issue \/ LeaseEnds \/ RoomFails \/ WorkerReplies \/ WorkerChanges
           \/ HostChanges \/ Tick \/ CalmDown

Next == Begin \/ Reference \/ Ends \/ ShowCatalog \/ Claim \/ Turn \/ Scan \/ Outside

Spec == Init /\ [][Next]_vars

\* The container runtime starts the process again, the start and the loops of
\* a running process go on, time passes, and times get calm.  The process may be
\* ended again and again; a scan or an acknowledgement that is possible again
\* and again is made some day, so that the room answers one some day, and not
\* each process ends before.  Nothing is assumed of the worker's reply, the
\* leases, the room's tasks, or the catalog bridge.
Fairness == /\ WF_vars(Begin) /\ WF_vars(Turn) /\ WF_vars(Tick) /\ WF_vars(CalmDown)
            /\ SF_vars(Scan) /\ SF_vars(Acknowledge)

FairSpec == Spec /\ Fairness

-----------------------------------------------------------------------------
(* Properties *)

\* A process that runs has a secret of its own for each door: Keycloak, the
\* reference agent, the worker and the bridge.
OneKeyPerDoor ==
    pc # "down" =>
        LET keys == IF CodexOff(env)
                    THEN <<env.clientSecret, env.inboundSecret>>
                    ELSE <<env.clientSecret, env.inboundSecret,
                           env.codex.secret, env.codex.bridgeSecret>>
        IN  Distinct(keys)

\* What the bridge shows can be asked for: while its policy stays, the mediator
\* refuses no packet made of a model and effort that the room was shown.
ShownIsAdmitted ==
    room.shown # None =>
        \A p \in Packets :
            /\ Offers(room.shown.page, p.model, p.effort)
            /\ p.catalog = room.shown.page.revision
            /\ p.guidance = room.shown.by.guidance
            /\ p.forCodex /\ InTime(p, now)
            => PacketAdmitted(p, room.shown.by, now)

\* Whichever process, under whatever policy, has asked for, stored or read a
\* reply: the process that posts it admits the settings it names.
PostsUnderPolicy ==
    [][room.reply' # room.reply =>
         SettingsAdmitted(Settings(room'.reply), Policy)]_vars

\* No outage of the room gateway or of Keycloak ends a process that is at work
\* on no room task: only the refusal of a task's failure does in calm times.
OutlivesOutages ==
    [][calm /\ pc = "running" /\ ~atWork /\ (CodexOff(env) \/ "dir" \in host)
         => pc' = "running"]_vars

\* Once nothing is changed any more, all that a start needs is there, and the
\* environment is one the gateway accepts:
Ready ==
    /\ calm /\ Accepts(env) /\ "agent" \in host
    /\ CodexOff(env) \/ host = All

\* then the process comes up, whenever it has ended,
ComesUp == Ready ~> (pc = "running")

\* and a stored reply does not stay in between, also when the policy it was
\* admitted under is gone and the present one refuses it.
Unsettled == record # None /\ record.phase = "completed"

RecordsSettle == (Ready /\ ~CodexOff(env) /\ Unsettled) ~> ~Unsettled
=============================================================================
