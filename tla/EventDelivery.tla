---------------------------- MODULE EventDelivery ----------------------------
(***************************************************************************)
(* What the outbox promises for the events of one schema: an event is sent *)
(* to the notification service only while it is neither acknowledged nor   *)
(* abandoned, it is acknowledged only when the service has handled it, and *)
(* what is settled stays settled.  A request may be lost, or handled late, *)
(* and an event may be sent many times.  No poll, batch, save or crash is  *)
(* visible here: OutboxRelay shows that one relay implements this.         *)
(***************************************************************************)
CONSTANT Events      \* the events that transactions of the services write

VARIABLES
    status,          \* event -> how far it is
    open,            \* events with a request that the service has not handled
    notified         \* events that the service has handled

deliveryVars == <<status, open, notified>>

Settled == {"acknowledged", "abandoned"}

DeliveryInit ==
    /\ status = [e \in Events |-> "unwritten"]
    /\ open = {}
    /\ notified = {}

Write(e) ==
    /\ status[e] = "unwritten"
    /\ status' = [status EXCEPT ![e] = "pending"]
    /\ UNCHANGED <<open, notified>>

Request(e) ==
    /\ status[e] = "pending"
    /\ open' = open \cup {e}
    /\ UNCHANGED <<status, notified>>

\* Another request of the event may remain.
Handle(e) ==
    /\ e \in open
    /\ notified' = notified \cup {e}
    /\ open' \in {open, open \ {e}}
    /\ UNCHANGED status

Lose(e) ==
    /\ open' = open \ {e}
    /\ UNCHANGED <<status, notified>>

Settle(e) ==
    /\ status[e] = "pending"
    /\ \E s \in Settled :
         /\ s = "acknowledged" => e \in notified
         /\ status' = [status EXCEPT ![e] = s]
    /\ UNCHANGED <<open, notified>>

DeliveryNext ==
    \E e \in Events : Write(e) \/ Request(e) \/ Handle(e) \/ Lose(e) \/ Settle(e)

DeliverySpec == DeliveryInit /\ [][DeliveryNext]_deliveryVars

=============================================================================
