--------------------------- MODULE RoomTaskStream ---------------------------
(***************************************************************************)
(* What the room may see of a deterministic task: the three progress       *)
(* events in order, each at most once, then one terminal event.  A success *)
(* comes after all three; a failure may come at any time; nothing follows. *)
(***************************************************************************)
EXTENDS Naturals

CONSTANT Tasks

VARIABLES
    shown,  \* task -> ordinals of the progress events the room holds
    end     \* task -> "open", or how the task ended

stream == <<shown, end>>

Init ==
    /\ shown = [t \in Tasks |-> {}]
    /\ end = [t \in Tasks |-> "open"]

Progressed(t) ==
    /\ end[t] = "open"
    /\ \E n \in 0..2 :
         /\ shown[t] = 0 .. (n - 1)
         /\ shown' = [shown EXCEPT ![t] = 0 .. n]
    /\ UNCHANGED end

Succeeded(t) ==
    /\ end[t] = "open" /\ shown[t] = 0..2
    /\ end' = [end EXCEPT ![t] = "succeeded"]
    /\ UNCHANGED shown

Failed(t) ==
    /\ end[t] = "open"
    /\ end' = [end EXCEPT ![t] = "failed"]
    /\ UNCHANGED shown

Next == \E t \in Tasks : Progressed(t) \/ Succeeded(t) \/ Failed(t)

Spec == Init /\ [][Next]_stream
=============================================================================
