------------------------ MODULE ConversationOutcome -------------------------
(***************************************************************************)
(* What the mediator promises about a conversation task, whatever is lost, *)
(* repeated or restarted: the worker is asked for at most one turn; what   *)
(* the room is told is what that one turn produced, or that it failed; the *)
(* outcome never changes; the worker may forget its receipt only after the *)
(* room holds the reply, and the task is settled only after that.          *)
(***************************************************************************)
CONSTANTS Tasks, Replies, Codes, Interrupted, None

VARIABLES
    turns,     \* task -> turns asked of the worker
    produced,  \* task -> what the turn ended with
    outcome,   \* task -> what the room holds
    released,  \* task -> the worker was told that the room has the reply
    settled    \* task -> nothing is left to do

vars == <<turns, produced, outcome, released, settled>>

Open == [state |-> "open", out |-> None]

Init ==
    /\ turns = [t \in Tasks |-> 0]
    /\ produced = [t \in Tasks |-> None]
    /\ outcome = [t \in Tasks |-> Open]
    /\ released = [t \in Tasks |-> FALSE]
    /\ settled = [t \in Tasks |-> FALSE]

Ask(t) ==
    /\ turns[t] = 0
    /\ turns' = [turns EXCEPT ![t] = 1]
    /\ UNCHANGED <<produced, outcome, released, settled>>

Produce(t) ==
    /\ turns[t] = 1 /\ produced[t] = None
    /\ \E v \in Replies \cup Codes : produced' = [produced EXCEPT ![t] = v]
    /\ UNCHANGED <<turns, outcome, released, settled>>

Complete(t) ==
    /\ outcome[t] = Open /\ produced[t] \in Replies
    /\ outcome' = [outcome EXCEPT ![t] = [state |-> "completed", out |-> produced[t]]]
    /\ UNCHANGED <<turns, produced, released, settled>>

\* A failure says nothing in particular, or what the turn failed with.
Fail(t) ==
    /\ outcome[t] = Open
    /\ \E c \in {None, Interrupted} \cup (Codes \cap {produced[t]}) :
         outcome' = [outcome EXCEPT ![t] = [state |-> "failed", out |-> c]]
    /\ UNCHANGED <<turns, produced, released, settled>>

Release(t) ==
    /\ outcome[t].state = "completed" /\ ~released[t]
    /\ released' = [released EXCEPT ![t] = TRUE]
    /\ UNCHANGED <<turns, produced, outcome, settled>>

Settle(t) ==
    /\ released[t] /\ ~settled[t]
    /\ settled' = [settled EXCEPT ![t] = TRUE]
    /\ UNCHANGED <<turns, produced, outcome, released>>

Next == \E t \in Tasks : \/ Ask(t) \/ Produce(t) \/ Complete(t)
                         \/ Fail(t) \/ Release(t) \/ Settle(t)

Spec == Init /\ [][Next]_vars
=============================================================================
