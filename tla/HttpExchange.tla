---------------------------- MODULE HttpExchange ----------------------------
(***************************************************************************)
(* One request of a platform adapter on its way through ReqwestTransport   *)
(* (src/crates/http-transport/src/lib.rs).  send() repeats send_once until *)
(* the outcome is final or retry.max_attempts requests were sent; it asks  *)
(* neither which method it repeats nor whether the server has executed the *)
(* request whose answer it did not get.                                    *)
(*                                                                         *)
(* What a single send_once can bring about is a pair: what the caller is   *)
(* told (the answer) and what the server has done (the effect).  A request *)
(* given up by the client may still be under way: it waits in late and is  *)
(* executed at any later time, or never.  The delay between two requests   *)
(* is time only and is left out.                                           *)
(***************************************************************************)
EXTENDS Naturals, Bags

CONSTANTS MaxAttempts,    \* retry.max_attempts of HttpTransportConfig
          MaxLost,        \* bound: answers the network loses altogether
          NONE

ASSUME TransportAssumption == /\ MaxAttempts \in Nat \ {0}
                              /\ MaxLost \in Nat

VARIABLES call,   \* the request being sent and the attempts used, or NONE
          late,   \* bag of requests the client has given up on
          losses  \* answers lost so far

httpVars == <<call, late, losses>>

(* done: a 2xx answer with a readable body.  garbled: a 2xx answer whose    *)
(* body the adapter cannot parse.  refused: any other status that is not    *)
(* retried.  unavailable: 429, 5xx, a timeout or a broken connection.       *)
Answers == {"done", "garbled", "refused", "unavailable"}

Effects == {"now", "later", "never"}

(* An adapter reads an answer only of a request that was executed; a        *)
(* refusal means it was not; an unavailable server says nothing about it.   *)
Outcomes ==
    {<<"done", "now">>, <<"garbled", "now">>, <<"refused", "never">>, <<"unavailable", "never">>}
      \cup (IF losses < MaxLost THEN {"unavailable"} \X {"now", "later"} ELSE {})

(* is_retryable_status and is_retryable_error. *)
Retryable(answer) == answer = "unavailable"

(* The loop of send(): one more request after a retryable outcome, as long  *)
(* as fewer than max_attempts were sent.                                    *)
SentAgain(answer) == Retryable(answer) /\ call.tried + 1 < MaxAttempts

(* The server has executed the request, or will, and the client does not    *)
(* know.                                                                    *)
Lost(answer, effect) == Retryable(answer) /\ effect # "never"

HttpInit == call = NONE /\ late = EmptyBag /\ losses = 0

Send(request) == /\ call = NONE
                 /\ call' = [req |-> request, tried |-> 0]
                 /\ UNCHANGED <<late, losses>>

(* The client's side of one outcome: send again, or give the answer back.   *)
Settle(answer, effect) ==
    /\ call # NONE
    /\ call' = IF SentAgain(answer) THEN [call EXCEPT !.tried = @ + 1] ELSE NONE
    /\ late' = IF effect = "later" THEN late (+) SetToBag({call.req}) ELSE late
    /\ losses' = losses + (IF Lost(answer, effect) THEN 1 ELSE 0)

(* The process dies while a request is under way: the server may execute it *)
(* later or never see it.                                                   *)
Abandon(effect) ==
    /\ effect = "later" => call # NONE /\ losses < MaxLost
    /\ call' = NONE
    /\ late' = IF effect = "later" THEN late (+) SetToBag({call.req}) ELSE late
    /\ losses' = losses + (IF effect = "later" THEN 1 ELSE 0)

(* A request the client gave up on reaches the server.                      *)
Arrive(request) == /\ request \in BagToSet(late)
                   /\ late' = late (-) SetToBag({request})
                   /\ UNCHANGED <<call, losses>>
=============================================================================
