--------------------------- MODULE MCTaskAdmission ---------------------------
(* A small instance of TaskAdmission for TLC. *)
EXTENDS TaskAdmission, TLC

Message(n) ==
    [id |-> <<n, Canonical>>, kind |-> "message.created", task |-> <<0, Canonical>>,
     actor |-> None, about |-> None]
Request(p) ==
    [id |-> <<900, Canonical>>, kind |-> "agent.task.requested",
     task |-> <<p.task, Canonical>>, actor |-> [role |-> "human", id |-> p.requester],
     about |-> About(p)]

\* The packet with its invocation and its hash.
Sealed(p) ==
    LET q == [p EXCEPT !.events = Append(@, Request(p))] IN q @@ [hash |-> q]

Plain ==
    [task |-> 1, room |-> "r", requester |-> "u", agent |-> ReferenceAgent, skill |-> "summarize-context", rev |-> 1,
     issued |-> 0, expires |-> 2, input |-> <<"item", "prose">>, length |-> 8000,
     events |-> <<Message(11)>>, decisions |-> <<500>>]

Many(n) == [i \in 1..n |-> Message(i)]

\* Other content, revision, task and skill; at and beyond each bound.
Good ==
    {Plain,
     [Plain EXCEPT !.input = <<"prose">>],
     [Plain EXCEPT !.rev = SafeRevision],
     [Plain EXCEPT !.rev = SafeRevision + 1],
     [Plain EXCEPT !.rev = SafeRevision + 2],
     [Plain EXCEPT !.task = 2],
     [Plain EXCEPT !.skill = "extract-action-items"],
     [Plain EXCEPT !.skill = "extract-action-items", !.input = [i \in 1..21 |-> "item"]],
     [Plain EXCEPT !.events = Many(100)],
     [Plain EXCEPT !.events = <<>>, !.decisions = <<>>],
     [Plain EXCEPT !.decisions = [i \in 1..20 |-> 348]],
     [Plain EXCEPT !.decisions = [i \in 1..20 |-> 500]],
     [Plain EXCEPT !.decisions = [i \in 1..21 |-> 1]]}

\* An id twice, in two spellings; no time; no input, or too much; a negative
\* revision; an unknown skill; another's task.
Bad ==
    {[Plain EXCEPT !.events = <<Message(11), [Message(11) EXCEPT !.id = <<11, "simple">>]>>],
     [Plain EXCEPT !.expires = 0],
     [Plain EXCEPT !.input = <<>>],
     [Plain EXCEPT !.length = 8001],
     [Plain EXCEPT !.rev = -1],
     [Plain EXCEPT !.skill = "other"],
     [Plain EXCEPT !.agent = "codex"]}

\* A packet changed on its way, and those whose invocation is another's, or no
\* human's.
Invoked(request) ==
    LET q == [Plain EXCEPT !.events = <<request>>] IN q @@ [hash |-> q]
Altered ==
    {[Sealed(Plain) EXCEPT !.decisions = <<400>>],
     Invoked(Request([Plain EXCEPT !.rev = 2])),
     Invoked([Request(Plain) EXCEPT !.actor.id = "v"]),
     Invoked([Request(Plain) EXCEPT !.actor.role = "agent"])}

\* An invocation that names its task in another spelling.
Respelled ==
    LET r == [Request(Plain) EXCEPT !.task = <<1, "upper case">>]
        q == [Plain EXCEPT !.events = <<Message(11), r>>]
    IN  q @@ [hash |-> q]

MCPackets == {Sealed(p) : p \in Good \cup Bad} \cup Altered \cup {Respelled}
=============================================================================
