----------------------------- MODULE EventStore -----------------------------
(***************************************************************************)
(* The durable state of the execution service (coinext-persistence): the   *)
(* append-only event log of SqliteEventStore and the counter of            *)
(* SqliteSeqCursor.  Both live in one SQLite file and survive a crash; a   *)
(* write that returned is taken to be durable.  The cursor may fail, an    *)
(* append does not.                                                        *)
(*                                                                         *)
(* An entry of the log keeps the strategy it was appended under and the    *)
(* name of its event; its sequence number is its position.                 *)
(***************************************************************************)
EXTENDS OrderIds, Naturals, Sequences

CONSTANT
  Strategies  \* the strategy ids events are appended under

VARIABLES
  log,     \* order_events: the entries of each order
  cursor,  \* seq_cursor: the last sequence number of the strategy
  cursor_failed  \* the cursor has returned an error (auxiliary)

storeVars == <<log, cursor, cursor_failed>>

Events == {"Submitted", "Denied", "Accepted", "Rejected", "Filled",
           "Canceled", "PendingCancel"}

Entries == [strategy : Strategies, event : Events]

StoreTypeOK ==
  /\ log \in [Orders -> Seq(Entries)]
  /\ cursor \in Nat
  /\ cursor_failed \in BOOLEAN

StoreInit ==
  /\ log = [o \in Orders |-> <<>>]
  /\ cursor = 0
  /\ cursor_failed = FALSE

\* SqliteEventStore::append: the entry takes the next position of its order.
Appended(l, strategy, o, event) ==
  [l EXCEPT ![o] = Append(@, [strategy |-> strategy, event |-> event])]

\* SqliteEventStore::replay
Replay(o) == log[o]

\* SqliteEventStore::list_orders, the orders without their strategies.
ListOrders == {o \in Orders : log[o] # <<>>}

\* The events that order o has in the log.
Logged(o) == {log[o][k].event : k \in DOMAIN log[o]}

\* SqliteSeqCursor::next: one transaction bumps the counter and reads it back ...
NextSeq == cursor + 1

\* ... or is rolled back, and the caller gets an error.
NextSeqFails ==
  /\ cursor_failed' = TRUE
  /\ UNCHANGED <<log, cursor>>
=============================================================================
