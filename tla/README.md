# Verification of the ThoughtKhoral agent gateway

TLA+ models of the two dispatchers of the agent gateway, of the checks they rely
on and of the process they run in, TLC runs on small instances of them, and
TLAPS proofs for every instance.  Paths are relative to the repository; line
numbers are those of the commit modelled.

## 1. The system

One process (`src/bin/thought-khoral-agent-gateway.rs`) runs up to three loops
beside each other under `try_join!`: the deterministic room dispatcher, the
Codex conversation mediator when it is configured, and a catalog route.  The
loops share nothing but their end: an error of one ends them all.  Both
dispatchers talk to the *room broker* (another service) over HTTP, with a lease
token per task; the room dispatcher streams from the local *reference agent*,
the mediator asks the *Codex worker* for a turn.

| component | source | state | operations |
|---|---|---|---|
| conversation mediator | `src/conversation_dispatcher.rs` | one JSON file per task (`Record`), memory of the call in progress | `run_once`: recovery scan, claim, reconcile, turn, store, post, acknowledge, fail, quarantine |
| worker client | same file, `WorkerClient` | none | `SendMessage`, `CancelTask`, receipts, acknowledgement, card, catalog |
| room dispatcher | `src/dispatcher.rs` | memory of the call in progress only | `run_once`: claim, context, stream, submit with retry; `run_forever`: back-off, end |
| A2A adapter | `src/a2a_adapter.rs` | ordinal of the stream, a channel of capacity 1 | `invoke_stream`, admission of each event, card discovery |
| room client | `src/room_client.rs` | none | requests with a 5 s limit; which errors are retryable |
| reference agent | `src/reference_agent.rs` | none | verify a packet, compute the result, stream four events |
| validation | `src/conversation_validation.rs`, `src/update_validation.rs` | none | pure checks of packets, results, receipts, handoffs |
| configuration, registry | `src/config.rs`, `src/registry.rs` | read once | which environment, and which card of the agent, is accepted |
| catalog bridge | `src/conversation_catalog.rs` | none | passes on what the worker offers, if the policy admits it |
| gateway binary | `src/bin/thought-khoral-agent-gateway.rs` | environment, policy, sockets | start in a fixed order, loops, end |

External, and modelled only by what this code may see of them: the room broker
(leases, deadlines, revocation, one terminal update per task, duplicates
compared by content), the worker (one turn per task, a receipt), the reference
agent (four events, or an error, or silence), the container runtime.

What is hard here: every POST may be lost, be handled late, or be handled and
not answered; the process may stop between any two of its steps; leases end and
tasks are claimed again; authority is polled while a turn runs; a turn costs
money and must not be asked for twice; what a worker holds, what the mediator
stored and what the room shows must agree although no two of them change in one
step.  `PROJECT.json` lists each hazard at its line with the properties that
cover it.

What makes each part correct:

* *mediator*: at most one provider turn per task; the room gets only what the
  worker's receipt says; nothing is posted that a crash could make the mediator
  forget; the worker is told to let go of a receipt only when the room has the
  reply; stored records never go back; calls return; no record starves a task;
* *room dispatcher*: the room sees three progress events in order and one end,
  whatever is retried; a replay never conflicts with what was accepted; a
  complete stream is never failed as incomplete; calls return by the end of the
  packet; claimed tasks end;
* *disclosure*: a reply cites, and a turn works from, only what acknowledged
  turns of the same conversation, generation and policy have shown;
* *process*: it comes up once all it needs is there, whenever it has ended, and
  no outage ends it while it is at work on no room task;
  each of its doors has a secret of its own; what one deployment admitted,
  stored or showed is judged again by the policy of the next;
* *admission*: only the stream of the packet that was invoked reaches the room,
  and what reaches it keeps the room's contract.

## 2. Modules

| module | models |
|---|---|
| `ConversationDispatcher` | the mediator and its records, the requests on their way, the worker and the broker as far as it sees them |
| `ConversationOutcome` | what a conversation task promises: one turn, one outcome, released and settled only after it |
| `ConversationDispatcherProofs` | theorems about the mediator: type correctness, one turn per task |
| `ConversationOutcomeProofs` | theorems about the mediator: what room, worker and records agree on, what no step undoes, the refinement of `ConversationOutcome` |
| `ConversationLeaseProofs` | theorems about the mediator when the broker keeps its leases until the deadline |
| `MCConversationDispatcher` | symmetry, bounds, and the start of the restart run |
| `RoomDispatcher` | the room dispatcher, the adapter's stream and channel, the submission loop, leases |
| `RoomTaskStream` | what the room may see of a deterministic task |
| `RoomDispatcherProofs` | theorems about the room dispatcher |
| `MCRoomDispatcher` | bounds |
| `SourceDisclosure` | what the turns of a conversation were shown, over all records: `prior_sources` and the packet and reply checks that rest on it |
| `SourceDisclosureProofs` | theorems about it |
| `MCSourceDisclosure` | packets of three turns, a restart and a change of policy |
| `TaskAdmission` | one invocation of the reference agent: packet verification, results and their bounds, the stream, its admission |
| `TaskAdmissionProofs` | theorems about it: what is admitted |
| `TaskResultProofs` | theorems about it: what a result is bounded by |
| `MCTaskAdmission` | twenty-five packets, each at, beyond or beside one rule |
| `ConversationPolicy` | what the operator's model policy admits of a packet, a catalog page and a reply (operators) |
| `RoomClient` | what a request to the room gateway, with its token, comes to (operators) |
| `GatewayConfig` | which environments are accepted, by the configuration and by the constructors (operators) |
| `Gateway` | the process over its deployments, with one task of the mediator: composes the three above |
| `GatewayProofs` | theorems about it |
| `MCGateway` | environments, policies, pages and replies |

### ConversationDispatcher

`disk` holds the records; a save (temporary file, fsync, rename, fsync of the
directory) is one step.  `pc` says where `run_once` stands between two effects:
each GET is one step (the server answers and the code branches on it), each
POST is one step when answered; when it is not, the request stays in `net` and
is handled later, in any order, or never.  `SendMessage` is always of the
second kind, because its answer takes up to 185 s and races the authority poll
of every second (`select!`, lines 692-698): `Replied`, `Rejected`, `SendFails`
and `PollAuthority` are the outcomes of that race.  `scanning` tells the
recovery scan from the work on a claimed task, which share the reconciliation,
the authority check, the post and the acknowledgement, but treat errors
differently (`GiveUp`).  A record keeps its phase, result, update, ack and
lease; of the binding it keeps the deadline (`epoch`), the only part of the
packet's binding a broker can change.  The runtime binding belongs to a reply
and is part of the value in `Replies`; digests, schemas and JSON shapes are
abstracted to "the answer is what it should be, or the call ends".  `Crash`
loses the memory and nothing else; a save that fails ends the process and is a
crash.  `sends` is a history variable.

`EarlyRelease` says whether the broker may end a lease before the deadline
(expiresAt) of the task.  The packet checks only ensure that the deadline is
not after the end of the lease, and the comment at line 540 assumes that a
claim is not issued again before that.  With FALSE a record can be claimed
again only under a new deadline, hence another binding, and the code at
608-626 never takes up a stored record at all (proved, `NeverTakenUp`); with
TRUE it does.  The safety
runs use TRUE, which has more behaviours.

### RoomDispatcher

`update` is the update being submitted; `Submit...` are the outcomes of one
round of the loop at 450-477: the packet is over, the room answers, refuses,
answers with a body that does not arrive whole, or does not answer.  The loop
checks the clock before the request, so the room may refuse an update that was
sent in time: only `SubmitExpired` looks at the clock.  A call whose packet is
over fails to submit its failure as well, and returns `DispatchError::Broker`;
the two are one step.  The adapter's steps are possible only at "select",
because `invocation` is polled nowhere else; its error or its timeout
(`InvocationFails`) may win over an event in the channel, which is then lost
with the stream.  Updates are identified as in `deterministic_update_id` (by
ordinal and kind) and carry `occurred_at` as one of "time of the invocation" or
"time the packet was issued", the two cases of `update_occurred_at`.  The
delay between calls (base to 8 s) is a pause without length.

It takes for granted that the agent's events come in order, which `TaskAdmission`
shows (`OnlyOwnStream`), and that the updates of a verified packet are dated by
its invocation.  The second holds for the one spelling of a task id that the
room uses: the invocation is looked up by its text (line 499), while the agent
compares parsed ids.

### SourceDisclosure

The mediator asks all its acknowledged records what they disclosed before it
takes a packet (`prior_sources`), and stores the sum with the new record.  The
module keeps of a record its phase, its packet, its sources and the citations
of its reply, and leaves requests and leases to `ConversationDispatcher`: a
turn is `Claim`, then `Reply` or `GiveUp`, and between turns the scan
acknowledges or quarantines any open record.  A packet is the revision it is
based on, its entries, bound replies and decisions, and the conversation,
generation and policy it belongs to.  `ReadLimit` stands for the 4 MiB above
which a stored file is refused when it is read (but not when it is written): it
counts sources, because they are what grows from turn to turn.

### TaskAdmission

`Verified` is `verify_packet_at`, `ExpectedResult` and `StreamOf` are the agent,
`ValidEvent` and the operators under it the adapter.  `Invoke` lets the agent
answer for any packet it accepts, `Receive` takes any of its answers, in any
order and again; `Tick` lets a packet expire at any point.  Ids carry their
spelling because some comparisons of the code parse them and others do not;
SHA-256 is the content itself; a title is its length, and so the bounds are
checked as the code computes them.  The two progress texts are named by their
first words.

One number changes on its way.  The packet goes out as text, but the revision
in the result's binding comes back in a protobuf Struct, as a double
(`Carried`), and `ReadAs` takes it up to 2^53 - 1 only (`SafeRevision`;
`a2a_adapter.rs`, lines 52-74).  Neither `verify_packet_at` nor the room's
contract bounds the revision, so `OwnStreamAdmitted` says of the last event
that it is admitted exactly when the revision is a safe one: beyond, the agent
does all its work and the task fails.

### ConversationPolicy, RoomClient, GatewayConfig

These have no state: each operator is one check or one decision of the code, a
conjunct per condition.  A model, an effort or a revision is a name with a
width; a secret is its text with its length and alphabet; an address is named,
and a URL is split only where the code judges its parts.  An answer to a request
is its status and whether its body arrived whole.  Every request first asks
Keycloak for a token, and the caller learns only of the first of the two that
failed (`Decisive`): this is how a 403 of Keycloak comes to count as a lost
authority.

The secrets are judged twice in the code: where the environment is read
(`config.rs`, lines 368-388) and where they are used (`WorkerClient::build`,
`catalog_service`).  `InvocationSecretFits` and `BridgeSecretFits` translate the
first, `WorkerClientBuilds` and `BridgeBuilds` the second, each from its own
lines, so that a bound or an alphabet that differs would show: in `ComesUp`, and
in the theorem `StartsWhatItAccepts`.

### Gateway

`pc` follows `main`: the environment, the card (one attempt), the state
directory, the port, the loops.  `Deploy` puts another environment, perhaps with
another policy, in place of the present one, `Crash` ends the process, and the
record stays on disk.  `ReferenceRejected` and `StateFails` are the ends that
come from a loop: `try_join!` makes them the end of all.  The room dispatcher's
loop ends when its claim is refused for good, and also when the failure of its
task is (`dispatcher.rs`, lines 465-467, 431 and 183), which an ordinary
revocation brings about, or an outage that meets the end of a lease: therefore
`atWork` says whether it has a task, and `ReferenceRejected` is possible
whenever it has one, in calm times too.  One conversation task
goes through the mediator in as many steps as there are moments at which the
policy decides or a new process may take over; requests that are handled late,
the worker's cancellation and the authority poll are in
`ConversationDispatcher`, not here.  What the room is shown of the catalog is
kept until it issues its task.  `calm` is the time in which nothing is deployed,
killed, moved or falsified any more; leases may still end, the worker may still
stay silent, Keycloak and the room gateway may still be down, and a room task may
still be revoked.  What they do answer is then sound: no claim is refused, and
no body is cut off or malformed (`SoundAnswers`), each of which ends the process
at once, because `is_retryable` takes none of them for an outage.

## 3. Runs

Bounds are the constants of each cfg.  `calm` turns TRUE when losses and crashes
stop; it is only forced to where a run says so.

| run | what it shows |
|---|---|
| `mediator_safety` | all safety properties and the refinement of `ConversationOutcome`, for one task with three leases, two deadlines, two replies, two codes, any number of losses and crashes |
| `mediator_liveness` | `run_once` returns although the worker never answers; stored results settle when the network is calm |
| `mediator_restart` | from a restart that finds an unfinished record beside a fresh task: the task is still claimed, and the scan of one record and the work on the other task do not mix |
| `mediator_replay` | (violated) a completed record may hold a failed update |
| `mediator_orphan` | (violated) a turn orphaned by a crash is not cancelled when its task is revoked |
| `room_safety` | safety of the room dispatcher and the refinement of `RoomTaskStream`, for three leases and two late updates on their way |
| `room_liveness` | `run_once` returns although the network never recovers; claimed tasks end although the agent hangs and the lease never ends |
| `room_replay` | (violated) an accepted success is followed by a failure |
| `disclosure` | three turns with failures, quarantine, a restart and a change of policy: replies cite, and decisions stand on, only what acknowledged turns of the same conversation have shown, and that never shrinks |
| `admission` | only the stream of the packet that was invoked is admitted, each of its events can be, the last one just when the revision is one a double holds, and its result keeps the bounds of the room contract |
| `disclosure_wedge` | (violated) a record that is too long to be read back keeps every room from being served |
| `gateway` | five environments under three policies, two packets, two pages, three replies, two leases: the process comes up whenever it has ended, no outage ends it while it is at work on no room task, it posts no reply that its present policy refuses, leaves no stored reply behind, and refuses nothing it has shown |

One task is enough for most runs because the dispatchers work on one task at a
time and share no state between tasks but the scan: that is what
`mediator_restart` is for.  Two replies tell a reply from a drifted one, two
codes the default from a confirmed one; two leases are needed to take up a
record again, a third to do so after a failure; two deadlines to change a
binding.  The constants are as small as they can be with
every action still taken.  The states of `mediator_restart` are states a longer
run of one task reaches (see the comments of the MC module).

Three turns are the fewest with a turn between the one that discloses and the
one that cites.  The packets of `admission` sit at and just beyond each bound
(100 citations, 20 decisions, 7000 characters, 20 items, 8000 characters of
input, the time of expiry, and the greatest safe revision, scaled down to 3)
and differ from one packet in one field each; there one invocation ends and
nothing follows, so that run does not check for deadlock.

The environments of `gateway` are a good one, one without Codex, one with a
narrower policy, one with another catalog revision, and one that reuses a
secret; sixteen others with one field wrong are evaluated once, as assumptions
of `MCGateway`, because they only keep the process down.  A process in a refused
environment may stand still for good, so that run does not check for deadlock.
One task and one record are enough: the policy judges each by itself.

### Fairness

The mediator's loop never stops by itself, so some step of it is always taken
(`WF_vars(Mediator)`); losses stop at some time (`WF_vars(CalmDown)`) in the
runs where this matters, because no retry helps against a network that loses
everything.  Nothing is assumed of the worker: it may never start or end a
turn.  For the room dispatcher, weak fairness of the steps that do not wait for
anyone (`Fetch`, `Select`, where the timeout of 10 s is always on, and
`SubmitExpired`); of a submission only when calm.  `RunOnceReturns` assumes
besides that leases end (`TimePasses`: five minutes), and not that the network
recovers; `ClaimedTasksSettle` that the network recovers (`NetworkRecovers`),
and not that leases end.

For the gateway: the container runtime starts the process again and the start
goes on (`Begin`), the mediator's call goes on, time passes and times get calm.
A crash loop is no excuse: while the environment is refused the process may stay
down, once it is `Ready` it must come up (`ComesUp`).  It need not stay up: the
refused failure of a room task may end it again and again.  A scan or an
acknowledgement is therefore enabled only between two ends of the process, and
has strong fairness: the room gateway answers one of them some day, before the
process ends.  This is what `RecordsSettle` rests on; with an outage that never
ends, or a process that is always ended first, no retry can settle a record.
`ComesUp` and `OutlivesOutages` need none of it.

## 4. Findings

* `ReplaysStoredOutput` (`src/conversation_dispatcher.rs:771`): a failed update
  stored by an attempt that could not post it is kept when the record is
  completed under a later lease, so the room is told of a failure.  It needs
  `EarlyRelease`, and nothing else: without it the property is a theorem
  (`ReplaysOutput`).
* `LostAuthorityCancels` (`src/conversation_dispatcher.rs:569`): the scan skips
  records without a result, so the turn of a process that ended is not
  cancelled when its authority is lost.
* `SuccessIsReplayed` (`src/room_client.rs:225`): an answer that is lost within
  its body is a decode error of reqwest, which counts as permanent: the update
  is not replayed, and a failure is submitted after an accepted success.
* `OtherRoomsClaim` (`src/conversation_dispatcher.rs:568`): a record is written
  whatever its size and read back only up to 4 MiB; one that is longer ends
  every scan, so that no task of any room is claimed any more, although the
  comment at 578 says that such a record "does not starve other rooms".

Not a run, but seen while modelling `main`: the comment at line 43 of the binary
calls Codex "independent of the deterministic reference path", while a state
directory or a port that only Codex needs ends the process, and an error of
either dispatcher ends both.  `ComesUp` therefore asks for the directory and the
port wherever Codex is on.

Nor is this a run: a context revision beyond 2^53 - 1, which packet and contract
allow, makes every task of its room fail (see `TaskAdmission`); nothing in the
repository says that it would be taken.

## 5. Proofs

`ConversationDispatcherProofs` proves, for any sets of tasks, replies and codes
and any bounds, `Spec => []TypeOK` and `Spec => []SendOnce`.  Neither is
inductive.  `IInv` adds: which steps have a task and a record in memory
(`Working`); what completed records, receipts and tasks hold (`Contents`); what
each step may rely on in the record it holds (`AtStep`); that the phase of the
record in memory is the stored one until the intent is stored, and that no later
save writes "reserved" (`Marks`); and that a task the worker was asked for is on
disk in a later phase (`Sent`).  `SendOnce` follows because the only path to
`Send` leads through a claim that found "reserved" in memory, hence on disk,
hence no earlier request.  One lemma per action, split where an action touches
more than one part; assumptions: `ConstantsAssumption` and `NoneIsAbsence`.

`ConversationOutcomeProofs` proves the other safety properties of
`mediator_safety`, `RoomHoldsWorkersReply`, `AcknowledgedAfterRoom`,
`FailureConfirmed`, `UpdateStoredFirst`, `RecordsNeverRegress` and
`QuarantineLasts`, and that the module implements `ConversationOutcome`.  None
of them is inductive, and none can be strengthened alone: what the room will
hold is in requests on their way, what those say was read from records, and
what is stored next is in memory.  `Agreement` adds to `IInv` two conjuncts.

* `WorldInv` is about what outlives the mediator: its disk, the two servers and
  the requests on their way.  No update, wherever it is, says more than the
  worker's receipt (`Sound`); acknowledgements on their way are of replies the
  room holds (`Released`), because the worker handles them at any later time;
  an update on its way under the lease issued last is the stored one
  (`Leases`).  The last is stronger than `UpdateStoredFirst`, which asks this
  only of updates the broker would apply: a lease that is over for now must be
  covered too, for the step that stores another update must not have to know
  whether the broker would still take the first.
* `MemoryInv` is about the call in progress.  The record at hand keeps what is
  stored and replaces no acknowledged one, nor a quarantined one of the same
  lease (`Continues`); the scan works under the stored lease with the stored
  update, a claim under a lease under which nothing was sent yet (`UnderLease`);
  what a step relies on was stored or heard before (`Prepared`); and the records
  that the scan has still to visit are neither finished nor given up
  (`Scanning`).  `Crash` makes all of this true by forgetting it.

The proof goes by kinds of steps before it goes by actions: a step that is
silent to the world, saves, applies an update, posts one, sends an
acknowledgement or has one handled, or keeps a receipt (`QuietWorld` to
`KeptWorld`); and one that leaves the call, goes on with its record, or happens
elsewhere (`LeftMemory` to `UndisturbedMemory`).  Each action is then an
instance of two of them.  For the refinement, `SaveRefines`, `AppliedRefines`,
`ToldRefines` and `EndedRefines` are the four kinds of steps that the abstract
specification can see, and all others are stutters (`HiddenStep`).

`ConversationLeaseProofs` asks what changes if the broker ends no lease before the
deadline, which the comment at line 540 takes for granted (`EarlyRelease` FALSE;
an explicit hypothesis of its theorems, not an assumption of the model).  Then
`ReplaysStoredOutput`, which `mediator_replay` refutes, holds for any tasks,
crashes and losses (`ReplaysOutput`); no claim takes a stored record up
(`NeverTakenUp`), so that lines 608 to 626 only ever make new records; and a
quarantined record stays as it is (`GivenUpForGood`), also when a refusal of
Keycloak was mistaken for a lost authority.  The invariant `LeaseInv` says that
a lease that is over was over at its deadline, that stored records are bound to
deadlines already set, and that a claim has nothing to post before its result.

`RoomDispatcherProofs` proves, for any tasks and any number of leases, type
correctness, `RoomKeepsUp`, `NoEventLost`, `ReplaysNeverConflict` and that the
module implements `RoomTaskStream`.  What the room holds depends on updates that
are still on their way, under leases that are over, so the invariant must speak
of them: `Ready` says what the room must have before it may be offered an
update, and `Kept`, `InFlight` and `Ordered` say that this holds of the update
in hand, of every late one, and of all that the room has.  `Channel` ties the
channel to the counters, `Holding` the call to its lease.  `OneFailure` says
that a task at work has no failure but the one being submitted: without it a
second failure could follow the first under the same id.  For the refinement
each step either leaves the room alone, or offers it one update that is `Ready`
(`TakenRefines`), which is a step of the abstract stream.  Assumption:
`DispatcherConstants`.

`SourceDisclosureProofs` proves all four properties of its run for any turns,
packets and citations.  The invariant is `Collected`: the sources stored with a
record lie within what its conversation was shown, its citations within the
sources, its decisions within what was shown.  It is kept because acknowledged
records are never written again (`Kept`), so that the right-hand sides only
grow.

`TaskAdmissionProofs` proves type correctness, `OnlyOwnStream` and
`OwnStreamAdmitted` for any packets.  The heart is `OnlyOwnEvent`: an answer for
any packet, at any place of its stream, that passes the checks of the n-th event
is the n-th event of the packet invoked; for the last event it needs that the
whole result is computed again.  `OwnStreamWelcome` is the other direction, with
the revision as its condition.  Assumptions: `TimeIsBounded`,
`SafeRevisionIsNat`, and that the absent value is not an artifact
(`NoneIsNoArtifact`).

`TaskResultProofs` proves `ResultWithinContract` for packets of any length.  The
adapter has verified the packet again before it admits the last event
(`Complete`), and of a verified packet the result keeps the contract
(`ResultFits`): there are as many ids as events, so none occurs twice in
whatever spelling (`IdsDiffer`, by counting), and titles that are shown have a
width of at most 7000, which with the words around them is below 8000
(`TitlesFit`).  For this the width must be known to be a number, for any number
of titles, although it is computed by a recursive function.  The induction
theorems of the library cannot be instantiated, so `LeastOf` takes the least
element of a set of numbers from the fact that finite sets are well founded
under inclusion, and `CountsExist` and `WidthIsNat` argue from a least
counterexample.  Assumption: `PacketsAreTyped`, what serde makes of a packet
before it is looked at (`src/domain.rs`, `RoomContextPacket`).

`GatewayProofs` proves type correctness, `OneKeyPerDoor`, `ShownIsAdmitted` and
`PostsUnderPolicy` for any environments, packets, pages and replies.  The
invariant adds that a process past its start runs in an environment it accepted
(`EnvAccepted`), that what the room was shown was admitted by the policy it was
shown under (`ShownAdmitted`), and that the reply at hand before a post was
checked by this very process (`CallChecked`), which a crash or a deployment
makes true again by forgetting the call.  `ReplyPosted` says that a reply
reaches the room by two steps only; `OffersAllowed` joins the check of the page
to the check of the packet.  `WiderPolicyKeeps` is about the policy alone.
`StartsWhatItAccepts` says that a start with all it needs around it passes every
step: it compares the two places where each secret is judged, over the invariant
that the environment in use was accepted.  `OutagesOutlived` proves
`OutlivesOutages` from what is retryable of a sound answer (`SoundClaims`), for
any set of statuses.
Assumptions: `GatewayConstants` and `NoneIsNothingStored`.

Every safety property that a passing run checks, and both refinements, are thus
theorems.  Only model-checked: liveness (`RunOnceReturns`, `ResultsSettle`,
`NoStarvation`, `ClaimedTasksSettle`, the liveness of the gateway), which is out of the
prover's reach, as is ENABLED; and the assumptions of the MC modules about single
environments, which are evaluated once.

## 6. Plan

1. Done: the mediator, its abstract specification, type correctness and
   `SendOnce` proved; the room dispatcher, its abstract specification, and the
   refinement proved; the disclosure of sources and the admission of tasks,
   proved.
2. Done: the model policy, the room client, the configuration, and the process
   over its deployments, which composes them; its safety is proved.
3. Done: every other safety property of the mediator from an invariant over the
   records, the servers, the requests and the memory together; the refinement of
   `ConversationOutcome`, step by step; the bounds of a result; what follows
   from leases that last until the deadline.
4. Left: that the states `mediator_restart` starts from satisfy `Agreement`, so
   that the theorems hold from there too; what the two abstract specifications
   promise, as theorems about them alone; the operators of `RoomClient`, which
   have theorems only as far as `Gateway` needs them.

## 7. Not modelled

The shape of JSON messages, their schemas and strict parsing; digests, which
stand for equality; the fields of the two agent cards (a card is the pinned one
or it is not); the HTTP routers of the catalog bridge and of the reference
agent, which decode a request, compare a credential and call what is modelled;
`validate_handoff`, which has no caller; the vendored A2A client; the contracts
and fixtures, which are data.  Two processes on one state directory are outside
the design: nothing in the code locks it.
