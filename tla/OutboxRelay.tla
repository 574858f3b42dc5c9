----------------------------- MODULE OutboxRelay -----------------------------
(***************************************************************************)
(* OutboxRelayService (libs/common/src/outbox/outbox-relay.service.ts):    *)
(* the processes that poll the outbox_events of one schema and send each   *)
(* event to the notification service.                                      *)
(*                                                                         *)
(* Every replica of the leave or the payroll service runs a relay of its   *)
(* own; isProcessing keeps one relay from overlapping itself, and nothing  *)
(* keeps two apart.  Events are numbered in the order of createdAt, which  *)
(* is the start of the transaction that writes them: they appear in any    *)
(* order.                                                                  *)
(*                                                                         *)
(* save() of a loaded entity is a SELECT and an UPDATE of the columns that *)
(* differ.  A request whose connection closes is lost, or handled later    *)
(* (late; one such request of an event is kept).  The send has no timeout: *)
(* that it is answered, or its connection closed, is an assumption of the  *)
(* fairness.  lastError and logs are left out, and so is a failing find,   *)
(* which changes nothing.                                                  *)
(***************************************************************************)
EXTENDS Naturals, FiniteSets

CONSTANTS
    Events,        \* events, numbered in the order of createdAt
    Relays,        \* processes that poll this outbox
    Take,          \* events loaded by a poll (20 in the code)
    MaxRetries,    \* failures after which an event is given up (3 in the code)
    None           \* no row, no entity, no poll in progress

ASSUME RelayAssumption ==
    /\ Events \subseteq Nat
    /\ Take \in Nat \ {0}
    /\ MaxRetries \in Nat \ {0}

VARIABLES
    outbox,        \* event -> its committed row, or None
    polls,         \* relay -> its poll in progress; None when isProcessing is false
    late,          \* events with a request that outlived its connection
    notified       \* events that the notification service has handled

vars == <<outbox, polls, late, notified>>

Row == [processed : BOOLEAN, retryCount : 0 .. MaxRetries]
Column == {"processed", "retryCount"}
Phase == {"ready", "waiting", "answered", "acked", "ackSelected", "failed", "failSelected"}
Batch == [Events -> Row \cup {None}]
PollState == [pc : Phase, batch : Batch, dirty : SUBSET Column]

ASSUME NoneAssumption == None \notin Row /\ None \notin PollState

TypeOK ==
    /\ outbox \in [Events -> Row \cup {None}]
    /\ polls \in [Relays -> PollState \cup {None}]
    /\ late \subseteq Events
    /\ notified \subseteq Events

Init ==
    /\ outbox = [e \in Events |-> None]
    /\ polls = [r \in Relays |-> None]
    /\ late = {}
    /\ notified = {}

-----------------------------------------------------------------------------
(* The poll *)

\* The find: not processed, fewer than three failures, the oldest first.
Pending_Processed == {e \in Events : outbox[e] # None /\ outbox[e].retryCount < MaxRetries}
Pending_OneMore ==
    {e \in Events : outbox[e] # None /\ ~outbox[e].processed /\ outbox[e].retryCount <= MaxRetries}
Pending ==
    {e \in Events : outbox[e] # None /\ ~outbox[e].processed /\ outbox[e].retryCount < MaxRetries}

Oldest(S) == {e \in S : Cardinality({f \in S : f < e}) < Take}

\* A tick of the interval, when isProcessing is false and there is something to send.
HandleOutboxPolling(r) ==
    /\ polls[r] = None
    /\ Pending # {}
    /\ polls' = [polls EXCEPT ![r] =
         [pc |-> "ready",
          batch |-> [e \in Events |-> IF e \in Oldest(Pending) THEN outbox[e] ELSE None],
          dirty |-> {}]]
    /\ UNCHANGED <<outbox, late, notified>>

-----------------------------------------------------------------------------
(* The event that the loop of the poll is at *)

InBatch(r, e) == polls[r] # None /\ polls[r].batch[e] # None
At(r, e, phases) ==
    /\ InBatch(r, e)
    /\ polls[r].pc \in phases
    /\ \A f \in Events : InBatch(r, f) => e <= f

\* success: the entity is acknowledged.  Anything else: the catch counts a failure.
Acknowledged(entity) == [processed |-> TRUE, retryCount |-> entity.retryCount]
Failed_Acknowledges(entity) == [processed |-> TRUE, retryCount |-> entity.retryCount + 1]
Failed(entity) == [processed |-> entity.processed, retryCount |-> entity.retryCount + 1]

\* The loop goes on with the entity e of its batch as it has become.
GoOn(r, phase, e, entity) ==
    polls' = [polls EXCEPT ![r].pc = phase, ![r].batch[e] = entity]

Send(r, e) ==
    /\ At(r, e, {"ready"})
    /\ polls' = [polls EXCEPT ![r].pc = "waiting"]
    /\ UNCHANGED <<outbox, late, notified>>

\* processOutboxEvent, and its answer.
ProcessOutboxEvent(r, e) ==
    /\ At(r, e, {"waiting"})
    /\ polls' = [polls EXCEPT ![r].pc = "answered"]
    /\ notified' = notified \cup {e}
    /\ UNCHANGED <<outbox, late>>

\* The answer arrives: success.
Acknowledge(r, e) ==
    /\ At(r, e, {"answered"})
    /\ GoOn(r, "acked", e, Acknowledged(polls[r].batch[e]))
    /\ UNCHANGED <<outbox, late, notified>>

\* A request not handled when its connection closes is lost, or handled late.
CloseRequest(e, phase) == late' \in IF phase = "waiting" THEN {late, late \cup {e}} ELSE {late}

\* The connection closes, or the service answers with an error.
Fail(r, e) ==
    /\ At(r, e, {"waiting", "answered"})
    /\ GoOn(r, "failed", e, Failed(polls[r].batch[e]))
    /\ CloseRequest(e, polls[r].pc)
    /\ UNCHANGED <<outbox, notified>>

ProcessLate(e) ==
    /\ e \in late
    /\ late' = late \ {e}
    /\ notified' = notified \cup {e}
    /\ UNCHANGED <<outbox, polls>>

-----------------------------------------------------------------------------
(* The saves *)

\* The SELECT of the save.
SelectRow(r, e) ==
    /\ At(r, e, {"acked", "failed"})
    /\ polls' = [polls EXCEPT
         ![r].pc = IF polls[r].pc = "acked" THEN "ackSelected" ELSE "failSelected",
         ![r].dirty = {c \in Column : polls[r].batch[e][c] # outbox[e][c]}]
    /\ UNCHANGED <<outbox, late, notified>>

\* The UPDATE of the columns that differed.
Saved(r, e) ==
    LET entity == polls[r].batch[e]
        dirty == polls[r].dirty
    IN [outbox EXCEPT ![e] =
          [processed |-> IF "processed" \in dirty THEN entity.processed ELSE @.processed,
           retryCount |-> IF "retryCount" \in dirty THEN entity.retryCount ELSE @.retryCount]]

\* The poll without e: the next event, or the end, where isProcessing becomes false.
Rest_KeepsFlag(r, e) == [polls[r] EXCEPT !.pc = "ready", !.batch[e] = None]
Rest(r, e) ==
    IF \E f \in Events \ {e} : InBatch(r, f)
      THEN [polls[r] EXCEPT !.pc = "ready", !.batch[e] = None]
      ELSE None

SaveRow(r, e) ==
    /\ At(r, e, {"ackSelected", "failSelected"})
    /\ outbox' = Saved(r, e)
    /\ polls' = [polls EXCEPT ![r] = Rest(r, e)]
    /\ UNCHANGED <<late, notified>>

\* The save of an acknowledged entity throws, whether its commit was applied or not: the catch
\* counts a failure and saves again, the entity still acknowledged.
AcknowledgeFails(r, e) ==
    /\ \/ At(r, e, {"acked", "ackSelected"}) /\ UNCHANGED outbox
       \/ At(r, e, {"ackSelected"}) /\ outbox' = Saved(r, e)
    /\ GoOn(r, "failed", e, Failed(polls[r].batch[e]))
    /\ UNCHANGED <<late, notified>>

\* The save in the catch throws and the poll ends, or the process dies and is started again.
Stop(r, e) ==
    /\ At(r, e, Phase)
    /\ polls' = [polls EXCEPT ![r] = None]
    /\ CloseRequest(e, polls[r].pc)
    /\ UNCHANGED <<outbox, notified>>

-----------------------------------------------------------------------------

\* The commit of a transaction of the service that writes the event.
InsertEvent(e) ==
    /\ outbox[e] = None
    /\ outbox' = [outbox EXCEPT ![e] = [processed |-> FALSE, retryCount |-> 0]]
    /\ UNCHANGED <<polls, late, notified>>

Answer(r, e) == ProcessOutboxEvent(r, e) \/ Fail(r, e)
Return(r, e) == Acknowledge(r, e) \/ Fail(r, e)

Next ==
    \/ \E e \in Events : InsertEvent(e) \/ ProcessLate(e)
    \/ \E r \in Relays :
         \/ HandleOutboxPolling(r)
         \/ \E e \in Events :
              \/ Send(r, e) \/ ProcessOutboxEvent(r, e) \/ Acknowledge(r, e) \/ Fail(r, e)
              \/ SelectRow(r, e) \/ SaveRow(r, e) \/ AcknowledgeFails(r, e) \/ Stop(r, e)

Spec == Init /\ [][Next]_vars

\* Whatever goes wrong now and then, an attempt repeated for ever succeeds sometimes: the
\* interval ticks, a send is answered or its connection closes, the database answers.
Fairness ==
    \A r \in Relays :
        /\ SF_vars(HandleOutboxPolling(r))
        /\ SF_vars(\E e \in Events : Send(r, e))
        /\ SF_vars(\E e \in Events : At(r, e, {"waiting"}) /\ Answer(r, e))
        /\ SF_vars(\E e \in Events : At(r, e, {"answered"}) /\ Return(r, e))
        /\ SF_vars(\E e \in Events : SelectRow(r, e))
        /\ SF_vars(\E e \in Events : SaveRow(r, e))

FairSpec == Spec /\ Fairness

-----------------------------------------------------------------------------
(* Properties *)

\* A row says processed only if the notification service has handled the event, whatever
\* relays overlap, saves fail or acknowledgements are written late.
ProcessedWasNotified ==
    \A e \in Events : outbox[e] # None /\ outbox[e].processed => e \in notified

EventStatus(e) ==
    IF outbox[e] = None THEN "unwritten"
    ELSE IF outbox[e].processed THEN "acknowledged"
    ELSE IF outbox[e].retryCount < MaxRetries THEN "pending" ELSE "abandoned"

BeingSent(e) == \E r \in Relays : At(r, e, {"waiting"})

Delivery == INSTANCE EventDelivery WITH
    status <- [e \in Events |-> EventStatus(e)],
    open <- late \cup {e \in Events : BeingSent(e)}

\* One relay, its crashes, lost answers and failed saves included, implements the delivery in
\* which a settled event stays settled and is not sent again.
ImplementsDelivery == Delivery!DeliverySpec

\* Whatever is written, the outbox is drained again: no event stays unsettled for ever.
AlwaysDrained ==
    []<>(\A e \in Events : EventStatus(e) \in {"unwritten", "acknowledged", "abandoned"})

=============================================================================
