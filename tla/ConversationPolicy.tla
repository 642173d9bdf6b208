------------------------- MODULE ConversationPolicy -------------------------
(***************************************************************************)
(* What the operator's model policy (Admission) lets through: the packet   *)
(* of a claimed task, the worker's catalog page and the worker's reply     *)
(* (src/conversation_validation.rs and WorkerClient::catalog).             *)
(*                                                                         *)
(* A model, an effort or a revision is a name with a width.  Events,       *)
(* decisions and citations are in SourceDisclosure; the schemas, which fix *)
(* the shape of each message, and the text of a reply are left out.  The   *)
(* digest stands for all that binds a reply to its packet.                 *)
(***************************************************************************)
EXTENDS Integers, FiniteSets, Sequences

CONSTANTS
    Names,     \* models, reasoning efforts and revisions
    Width,     \* name -> its length
    None,      \* an absent value
    TurnLimit  \* the longest time a packet may give to its turn (180 s)

ASSUME PolicyConstants ==
    /\ Width \in [Names -> Nat]
    /\ None \notin Names
    /\ TurnLimit \in Nat

-----------------------------------------------------------------------------
(* Admission::new *)

IsAdmission(a) ==
    /\ a.catalog \in Names /\ a.guidance \in Names
    /\ DOMAIN a.models \subseteq Names
    /\ a.models \in [DOMAIN a.models -> Seq(Names)]

Listed(s) == {s[i] : i \in DOMAIN s}
Distinct(s) == \A i, j \in DOMAIN s : s[i] = s[j] => i = j
Short(n) == Width[n] \in 1..128

AdmissionFits(a) ==
    /\ Short(a.catalog) /\ Short(a.guidance)
    /\ Cardinality(DOMAIN a.models) \in 1..100
    /\ \A m \in DOMAIN a.models :
         /\ Short(m) /\ a.models[m] # <<>>
         /\ \A e \in Listed(a.models[m]) : Short(e)
         /\ Distinct(a.models[m])

Allows(a, model, effort) ==
    model \in DOMAIN a.models /\ effort \in Listed(a.models[model])

\* Whatever a allows, b allows.
Within(a, b) ==
    /\ DOMAIN a.models \subseteq DOMAIN b.models
    /\ \A m \in DOMAIN a.models : Listed(a.models[m]) \subseteq Listed(b.models[m])

-----------------------------------------------------------------------------
(* The packet of a task: validate_packet_with_sources *)

\* The times of a packet are in order, and now is before all of them.
InTime(p, now) ==
    /\ p.issued < p.expires /\ p.issued < p.leaseEnds
    /\ p.expires <= p.authorized /\ p.expires <= p.leaseEnds
    /\ p.expires - p.issued <= TurnLimit
    /\ now < p.expires /\ now < p.authorized /\ now < p.leaseEnds

PacketAdmitted(p, a, now) ==
    /\ p.forCodex
    /\ p.guidance = a.guidance /\ p.catalog = a.catalog
    /\ Allows(a, p.model, p.effort)
    /\ InTime(p, now)

-----------------------------------------------------------------------------
(* The worker's catalog: WorkerClient::catalog, and run_once on what it says *)

\* Mutant: the efforts of a model are taken as they come.
ModelListed(m, a) == m.id \in DOMAIN a.models

ModelAdmitted(m, a) ==
    /\ m.id \in DOMAIN a.models
    /\ Listed(m.efforts) \subseteq Listed(a.models[m.id]) /\ Distinct(m.efforts)
    /\ m.default \in Listed(m.efforts) \cup {None}

\* One page of the reviewed revision, with no model twice.
PageAdmitted(page, a) ==
    /\ page.revision = a.catalog /\ page.last
    /\ \A i \in DOMAIN page.data : ModelAdmitted(page.data[i], a)
    /\ \A i, j \in DOMAIN page.data : page.data[i].id = page.data[j].id => i = j

Offers(page, model, effort) ==
    \E m \in Listed(page.data) : m.id = model /\ effort \in Listed(m.efforts)

-----------------------------------------------------------------------------
(* The worker's reply: validate_result_policy *)

NoSettings == [confirmed |-> FALSE, model |-> None, effort |-> None, rerouted |-> None]
Settings(r) == IF r.settings = None THEN NoSettings ELSE r.settings

\* The settings a turn ran with are allowed, as far as the reply names them.
SettingsAdmitted(s, a) ==
    /\ s.confirmed => s.model # None /\ s.effort # None
    /\ s.model # None => /\ s.model \in DOMAIN a.models
                         /\ s.effort \in Listed(a.models[s.model]) \cup {None}
    /\ s.model = None => s.effort = None
    /\ s.rerouted # None => Width[s.rerouted] <= 128

ReportedModel(r, p) ==
    CASE Settings(r).rerouted # None -> Settings(r).rerouted
      [] Settings(r).rerouted = None /\ Settings(r).model # None -> Settings(r).model
      [] OTHER -> p.model

UsageAdmitted(r, p) ==
    r.usage # None =>
        /\ r.usage.model = ReportedModel(r, p)
        /\ r.usage.available => r.usage.window
        /\ p.issued <= r.usage.at /\ r.usage.at <= p.expires

ResultAdmitted(r, p, a) ==
    /\ r.digest = p.digest
    /\ SettingsAdmitted(Settings(r), a)
    /\ UsageAdmitted(r, p)
=============================================================================
