----------------------------- MODULE RoomClient -----------------------------
(***************************************************************************)
(* What a request to the room gateway comes to (src/room_client.rs).  Each *)
(* request is preceded by one for a token at Keycloak, and the caller is   *)
(* told only of the first of the two that failed.                          *)
(*                                                                         *)
(* An answer is its status and its body; status 0 is no answer within five *)
(* seconds.  A body is what was asked for ("whole"), cut off ("cut"), or   *)
(* not of the expected form, size or content ("wrong").                    *)
(***************************************************************************)
EXTENDS Naturals

CONSTANT Statuses  \* HTTP statuses that are answered

ASSUME StatusesAssumption == Statuses \subseteq 100..599

Bodies == {"whole", "cut", "wrong"}
Answers == [status : Statuses \cup {0}, body : Bodies]

NoAnswer(a) == a.status = 0
Refused(a) == a.status >= 400
NoContent(a) == a.status = 204

\* The token is asked for first; without one there is no request.
HasToken(token) == ~NoAnswer(token) /\ ~Refused(token) /\ token.body = "whole"

\* The answer that the caller learns of.
Decisive(token, answer) == IF HasToken(token) THEN answer ELSE token

\* Mutant: a busy server's answer is taken for a refusal.
RetryableUnlessBusy(a) == NoAnswer(a) \/ a.status >= 500

\* RoomClientError::is_retryable of an answer that is not a success: no answer
\* and an overloaded or failing server are, a refusal and a bad body are not.
Retryable(a) == NoAnswer(a) \/ a.status >= 500 \/ a.status = 429

\* claim: 204 is "no task" whatever comes with it.
ClaimNone(token, answer) == HasToken(token) /\ NoContent(answer)
ClaimSome(token, answer) ==
    /\ HasToken(token) /\ ~NoContent(answer)
    /\ ~NoAnswer(answer) /\ ~Refused(answer) /\ answer.body = "whole"
ClaimFails(token, answer) == ~ClaimNone(token, answer) /\ ~ClaimSome(token, answer)

\* authority (src/conversation_dispatcher.rs): these statuses are taken for a
\* lost authority, whether the room gateway or Keycloak answered them.
AuthorityDenied(token, answer) == Decisive(token, answer).status \in {403, 409, 410}
=============================================================================
