---------------------------- MODULE BinanceVenue ----------------------------
(***************************************************************************)
(* BinanceExecutionClient (coinext-adapters-binance/src/exec.rs) and the   *)
(* venue behind it.  Requests go out over REST, execution reports come     *)
(* back over a user-data socket that may drop, that is reopened under the  *)
(* same listen key, and that replays nothing.                              *)
(*                                                                         *)
(* The venue is external: it takes an order id once, executes an order in  *)
(* one or more trades, and tells the socket that is open at that moment.   *)
(* The two tasks between the socket and the channel of reports only        *)
(* forward, so a report enters the channel when the venue sends it.        *)
(***************************************************************************)
EXTENDS OrderIds, RestClient, Sequences

CONSTANT
  MaxTrades  \* bound on the trades of an order

ASSUME TradesAssumption == MaxTrades \in Nat

VARIABLES
  exchange,  \* each order at the venue: "none", "open" or "done"
  trades,    \* the number of trades of each order
  key,       \* the listen key is valid
  socket,    \* the user-data socket is open
  reports,   \* the channel of execution reports
  missed     \* orders of which a report was lost (auxiliary)

venueVars == <<exchange, trades, key, socket, reports, missed>>

Kinds == {"Accepted", "Fill", "Canceled", "Rejected", "Expired"}

VenueTypeOK ==
  /\ exchange \in [Orders -> {"none", "open", "done"}]
  /\ trades \in [Orders -> 0..MaxTrades]
  /\ key \in BOOLEAN
  /\ socket \in BOOLEAN
  /\ reports \in Seq([order : Orders, kind : Kinds])
  /\ missed \subseteq Orders

VenueInit ==
  /\ exchange = [o \in Orders |-> "none"]
  /\ trades = [o \in Orders |-> 0]
  /\ key = FALSE
  /\ socket = FALSE
  /\ reports = <<>>
  /\ missed = {}

\* submit_order: the one mutating request that is made idempotent.
SubmitRequest == MadeIdempotent(Request("Post", 1))

\* cancel_order and build_cancel_params.
CancelRequest == Request("Delete", 1)

\* connect asks for a listen key, keepalive_request prolongs it.
ListenKeyRequest == Request("Post", 2)
KeepAliveRequest == Request("Put", 2)

\* reconcile: the request, and the rows of its answer.
OpenOrdersRequest == Request("Get", 40)
OpenOrders == {o \in Orders : exchange[o] = "open"}

\* map_open_order
MapOpenOrder(o) == [order |-> o, kind |-> "Accepted"]

\* map_execution_report and build_fill: the report of an execution type.
Report(o, x) ==
  [order |-> o,
   kind |-> CASE x = "NEW"      -> "Accepted"
              [] x = "TRADE"    -> "Fill"
              [] x = "CANCELED" -> "Canceled"
              [] x = "REJECTED" -> "Rejected"
              [] x = "EXPIRED"  -> "Expired"]

\* The venue sends an execution report; without a socket it is gone.
Send(o, x) ==
  /\ reports' = IF socket THEN Append(reports, Report(o, x)) ELSE reports
  /\ missed' = IF socket THEN missed ELSE missed \cup {o}

\* An order that the venue takes rests, or is refused in an execution report.
Take(o) ==
  \/ /\ exchange' = [exchange EXCEPT ![o] = "open"]
     /\ Send(o, "NEW")
  \/ /\ exchange' = [exchange EXCEPT ![o] = "done"]
     /\ Send(o, "REJECTED")

\* One attempt of a POST of order o: an id the venue knows is refused.
PostOrder(o, a) ==
  IF a.applied
  THEN /\ exchange[o] = "none"
       /\ Take(o)
       /\ UNCHANGED <<trades, key, socket>>
  ELSE UNCHANGED venueVars

\* One attempt of a DELETE: only an open order can be cancelled.
DeleteOrder(o, a) ==
  IF a.applied
  THEN /\ exchange[o] = "open"
       /\ exchange' = [exchange EXCEPT ![o] = "done"]
       /\ Send(o, "CANCELED")
       /\ UNCHANGED <<trades, key, socket>>
  ELSE UNCHANGED venueVars

\* A trade, which may be the last one of its order.
Trade(o) ==
  /\ exchange[o] = "open"
  /\ trades[o] < MaxTrades
  /\ trades' = [trades EXCEPT ![o] = @ + 1]
  /\ \/ UNCHANGED exchange
     \/ exchange' = [exchange EXCEPT ![o] = "done"]
  /\ Send(o, "TRADE")
  /\ UNCHANGED <<key, socket>>

\* The venue expires an open order.
Expire(o) ==
  /\ exchange[o] = "open"
  /\ exchange' = [exchange EXCEPT ![o] = "done"]
  /\ Send(o, "EXPIRED")
  /\ UNCHANGED <<trades, key, socket>>

\* An order placed by hand, outside the service.
PlaceByHand(o) ==
  /\ exchange[o] = "none"
  /\ exchange' = [exchange EXCEPT ![o] = "open"]
  /\ Send(o, "NEW")
  /\ UNCHANGED <<trades, key, socket>>

\* WsClient::run_loop: the socket opens, and again after every drop, under the
\* listen key of connect; the adapter ignores the Reconnected message.
SocketUp ==
  /\ key
  /\ ~socket
  /\ socket' = TRUE
  /\ UNCHANGED <<exchange, trades, key, reports, missed>>

SocketDown ==
  /\ socket
  /\ socket' = FALSE
  /\ UNCHANGED <<exchange, trades, key, reports, missed>>

\* Every keepalive of an hour is lost, and its failure only printed; nothing
\* asks for a new key.
KeyExpires ==
  /\ key
  /\ {a \in Attempts : ~a.applied /\ ~ShouldRetry(KeepAliveRequest, a.reply, 0)} # {}
  /\ key' = FALSE
  /\ socket' = FALSE
  /\ UNCHANGED <<exchange, trades, reports, missed>>
=============================================================================
