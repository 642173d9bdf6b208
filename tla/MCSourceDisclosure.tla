------------------------- MODULE MCSourceDisclosure -------------------------
(* A small instance of SourceDisclosure for TLC. *)
EXTENDS SourceDisclosure, TLC

CONSTANT d1

\* A first turn; two continuations that show the second event, one with a
\* decision on the first event and one with the agent's own reply; and a third.
Baseline(g, pol) ==
    [conversation |-> "c", generation |-> g, policy |-> pol, mode |-> "new",
     kind |-> "baseline", base |-> 0, rev |-> 1, entries |-> {1},
     replies |-> {}, decisions |-> {}]
Delta(g, pol) ==
    [Baseline(g, pol) EXCEPT !.mode = "continue", !.kind = "delta", !.base = 1,
                             !.rev = 2, !.entries = {2}]
Decided(g, pol) == [Delta(g, pol) EXCEPT !.decisions = {[id |-> d1, from |-> {1}]}]
Bound(g, pol) ==
    [Delta(g, pol) EXCEPT !.rev = 3, !.entries = {3},
                          !.replies = {[event |-> 2, generation |-> 1]}]

\* A restarted conversation opens with a later event.
Reopened(g, pol) == [Baseline(g, pol) EXCEPT !.rev = 3, !.entries = {3}]

MCPackets ==
    {Baseline(1, 1), Delta(1, 1), Decided(1, 1), Bound(1, 1),
     Reopened(2, 1), Decided(2, 1), Bound(2, 1), Delta(1, 2), Decided(1, 2)}

\* Three turns in one room, and the first of a conversation of another room.
TwoRooms ==
    {Baseline(1, 1), Delta(1, 1), Bound(1, 1),
     [Baseline(1, 1) EXCEPT !.conversation = "other"]}

MCCitations == {{}, {1}, {2}, {1, d1}}

Turns == Permutations(Tasks)
=============================================================================
