----------------------------- MODULE MCGateway -----------------------------
(* A small instance of Gateway for TLC.  The environments differ from one   *)
(* good one in one field each.       *)
EXTENDS Gateway

CONSTANTS big, small, low, high, rev1, rev2, guide

MCWidth == [n \in Names |-> IF n = guide THEN 128 ELSE 8]

-----------------------------------------------------------------------------
(* Policies, and the environments *)

Wide == [catalog |-> rev1, guidance |-> guide,
         models |-> [m \in {big, small} |-> IF m = big THEN <<low, high>> ELSE <<low>>]]
Narrow == [Wide EXCEPT !.models = [m \in {big} |-> <<low>>]]
Revised == [Wide EXCEPT !.catalog = rev2]
Twice == [Wide EXCEPT !.models = [m \in {big} |-> <<low, low>>]]
Mute == [Wide EXCEPT !.models = [m \in {big} |-> <<>>]]

Secret(text, length, alphabet) ==
    [text |-> text, length |-> length, alphabet |-> alphabet]
Key == Secret("worker", 16, "graphic")
BridgeKey == Secret("bridge", 32, "token")
ClientKey == Secret("client", 40, "token")
AgentKey == Secret("agent", 4097, "any")

Off == [enabled |-> "false", retired |-> FALSE, secret |-> None,
        bridgeSecret |-> None, bind |-> None, dir |-> None, policy |-> None]
On == [enabled |-> "true", retired |-> FALSE, secret |-> Key,
       bridgeSecret |-> BridgeKey, bind |-> "fixed", dir |-> "absolute",
       policy |-> Wide]
Base == [retired |-> FALSE, origin |-> "service",
         tokenUrl |-> [scheme |-> "http", host |-> "reviewed", bare |-> TRUE],
         client |-> "thought-khoral-agent-gateway", clientSecret |-> ClientKey,
         inboundSecret |-> AgentKey, card |-> "base",
         hosts |-> {"Agents.example"}, selected |-> "agents.example",
         poll |-> 100, codex |-> On]

With(codex) == [Base EXCEPT !.codex = codex]

MCEnvironments ==
    {Base, With(Off), With([On EXCEPT !.policy = Narrow]),
     With([On EXCEPT !.policy = Revised]), With([On EXCEPT !.bridgeSecret = ClientKey])}

\* Environments that differ from a good one in one field, and are refused (of
\* the reused secrets, OneKeyPerDoor speaks).
OneFieldWrong ==
    {With([On EXCEPT !.policy = Twice]), With([On EXCEPT !.policy = Mute]),
     With([On EXCEPT !.policy = None]), With([On EXCEPT !.enabled = "yes"]),
     With([On EXCEPT !.secret = Secret("worker", 15, "graphic")]),
     With([On EXCEPT !.bridgeSecret = Secret("bridge", 31, "token")]),
     With([On EXCEPT !.bridgeSecret = Secret("bridge", 32, "graphic")]),
     With([On EXCEPT !.dir = "relative"]), With([Off EXCEPT !.retired = TRUE]),
     [Base EXCEPT !.retired = TRUE], [Base EXCEPT !.origin = "elsewhere"],
     [Base EXCEPT !.tokenUrl.host = "elsewhere"], [Base EXCEPT !.poll = 5001],
     [Base EXCEPT !.clientSecret = None],
     [Base EXCEPT !.selected = "Agents.example"], [Base EXCEPT !.card = "elsewhere"]}

ASSUME RefusedEnvironments == \A e \in OneFieldWrong : ~Accepts(e)
ASSUME AcceptedEnvironments ==
    \A e \in {Base, With(Off), With([On EXCEPT !.policy = Narrow]),
               [Base EXCEPT !.inboundSecret = Secret("agent", 1, "any")],
               [Base EXCEPT !.tokenUrl = [scheme |-> "https", host |-> "elsewhere",
                                          bare |-> TRUE]]} : Accepts(e)

MCHostStates == {All} \cup {All \ {x} : x \in All}

MCHosts == {"Agents.example", "agents.example"}
MCCanonical == {"agents.example"}
MCLower == [h \in MCHosts |-> "agents.example"]

-----------------------------------------------------------------------------
(* Packets, catalog pages and replies *)

Packet(model, effort) ==
    [forCodex |-> TRUE, guidance |-> guide, catalog |-> rev1, model |-> model,
     effort |-> effort, digest |-> 1, issued |-> 0, expires |-> 1,
     authorized |-> 1, leaseEnds |-> 1]
MCPackets == {Packet(big, high), Packet(small, low)}

Model(id, efforts) == [id |-> id, efforts |-> efforts, default |-> low]
Full == [revision |-> rev1, last |-> TRUE,
         data |-> <<Model(big, <<low, high>>), Model(small, <<low>>)>>]
MCPages == {Full, [Full EXCEPT !.data = <<Model(big, <<low, high>>)>>]}

Ran(model, effort) ==
    [confirmed |-> TRUE, model |-> model, effort |-> effort, rerouted |-> None]
Reply(settings) == [digest |-> 1, settings |-> settings, usage |-> None]
MCReplies ==
    {Reply(Ran(big, high)),
     [Reply(Ran(big, low)) EXCEPT !.usage = [model |-> big, available |-> TRUE,
                                             window |-> TRUE, at |-> 1]],
     [Reply(None) EXCEPT !.usage = [model |-> small, available |-> TRUE,
                                    window |-> FALSE, at |-> 1]]}
=============================================================================
