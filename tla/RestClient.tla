----------------------------- MODULE RestClient -----------------------------
(***************************************************************************)
(* RestClient::send (coinext-network/src/rest.rs): the requests it sends,  *)
(* what an attempt may come to, and which failures it retries.             *)
(*                                                                         *)
(* Signing, headers and backoff are left out: they decide no step.         *)
(***************************************************************************)
EXTENDS Naturals

CONSTANTS
  MaxRetries,  \* RestConfig::max_retries
  Capacity     \* the weight the rate limiter's bucket holds

ASSUME RestAssumption == MaxRetries \in Nat /\ Capacity \in Nat \ {0}

\* RestRequest::get, signed and api_key: only a GET is idempotent by itself.
Request(method, weight) ==
  [method |-> method, idempotent |-> method = "Get", weight |-> weight]

\* RestRequest::idempotent
MadeIdempotent(req) == [req EXCEPT !.idempotent = TRUE]

\* RateLimiter::acquire: a request heavier than the bucket fails at once, any
\* other one waits for its weight.
Admitted(req) == req.weight <= Capacity

\* The ways an attempt fails: a status of 429 or 418, of 500 to 599, any other
\* one, an error before the response, or an error while its body is read.
Failures == {"limited", "server", "client", "transport", "body"}

Replies == Failures \cup {"ok"}

\* What an attempt may come to: a request that is limited or refused was not
\* applied; one that is lost on the way may have been.
Attempts ==
  {a \in [applied : BOOLEAN, reply : Replies] :
     /\ a.reply = "ok" => a.applied
     /\ a.reply \in {"limited", "client"} => ~a.applied}

\* should_retry.  An error while the body is read returns before it is asked.
ShouldRetry(req, failure, attempt) ==
  /\ attempt < MaxRetries
  /\ \/ failure = "limited"
     \/ failure \in {"server", "transport"} /\ req.idempotent
=============================================================================
