---------------------- MODULE MCConversationDispatcher ----------------------
(* Small instances of ConversationDispatcher for TLC. *)
EXTENDS ConversationDispatcher, TLC

\* Nothing tells one reply, or one task, from another.
Symmetry == Permutations(Tasks) \cup Permutations(Replies)

-----------------------------------------------------------------------------
(* A restart that finds the record of an earlier task next to a task whose  *)
(* only claim so far was lost.  In the run with one task each such record   *)
(* is reached: the post of the result was lost ("posted"); then the task    *)
(* was revoked ("revoked"); or its lease ended, it was claimed again, the   *)
(* worker's receipt could not be read and the post of the failure was lost  *)
(* too ("doubted").                                                         *)

Leftover(case, v) ==
    [phase  |-> IF case = "doubted" THEN "interrupted" ELSE "completed",
     result |-> v,
     update |-> IF case = "doubted"
                THEN [kind |-> "failed", value |-> Interrupted, id |-> 2]
                ELSE [kind |-> "completed", value |-> v, id |-> 2],
     ack    |-> None,
     lease  |-> 2,
     epoch  |-> 1]

RestartInit ==
    /\ \E old \in Tasks, v \in Replies, case \in {"posted", "revoked", "doubted"} :
         /\ disk = [t \in Tasks |-> IF t = old THEN Leftover(case, v) ELSE None]
         /\ broker = [t \in Tasks |->
                        [state |-> "open", out |-> None,
                         lease |-> IF t = old THEN 2 ELSE 1,
                         leased |-> t = old, epoch |-> 1, expired |-> FALSE,
                         revoked |-> t = old /\ case = "revoked"]]
         /\ worker = [t \in Tasks |->
                        [phase |-> IF t = old THEN "completed" ELSE "none",
                         out   |-> IF t = old THEN v ELSE None,
                         acked |-> FALSE]]
         /\ sends = [t \in Tasks |-> IF t = old THEN 1 ELSE 0]
    /\ pc = "idle" /\ scanning = FALSE /\ todo = {}
    /\ cur = None /\ rec = None /\ reply = None
    /\ net = {}
    /\ calm = TRUE

RestartSpec == RestartInit /\ [][Next]_vars /\ Fairness
=============================================================================
