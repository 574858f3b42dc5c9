-------------------------- MODULE OutboxRelay_proofs --------------------------
(***************************************************************************)
(* Theorems about OutboxRelay for any number of events, any batch size and *)
(* any limit of failures.  The types and ProcessedWasNotified hold for any *)
(* number of relays; that a relay implements EventDelivery needs a single  *)
(* one, because a second one saves what it loaded before the first did.    *)
(***************************************************************************)
EXTENDS OutboxRelay, TLAPS

\* What is known of an entity that a poll has loaded: its row exists, it may be tried once more
\* until its failure is counted, and it is acknowledged only after a notification.
Sound(r, e) ==
    InBatch(r, e) =>
        /\ outbox[e] # None
        /\ \/ polls[r].batch[e].retryCount < MaxRetries
           \/ At(r, e, {"failed", "failSelected"})
        /\ polls[r].batch[e].processed => e \in notified
        /\ At(r, e, {"answered"}) => e \in notified

Inv == TypeOK /\ (\A r \in Relays, e \in Events : Sound(r, e)) /\ ProcessedWasNotified

\* The loop of a poll is at one event.
LEMMA OneHead ==
    ASSUME NEW r \in Relays, NEW e \in Events, NEW f \in Events, NEW S, NEW T,
           At(r, e, S), At(r, f, T)
    PROVE  e = f
  BY RelayAssumption DEF At

\* A failure is counted only on an entity that may be tried once more.
LEMMA FailedTyped ==
    ASSUME NEW x \in Row, x.retryCount < MaxRetries
    PROVE  /\ Failed(x) \in Row
           /\ Failed(x).processed = x.processed
           /\ Acknowledged(x) \in Row
           /\ Acknowledged(x).processed
           /\ Acknowledged(x).retryCount = x.retryCount
  <1>1. x.retryCount \in 0 .. MaxRetries /\ x.processed \in BOOLEAN
    BY DEF Row
  <1>2. x.retryCount + 1 \in 0 .. MaxRetries
    BY <1>1, RelayAssumption
  <1> QED
    BY <1>1, <1>2 DEF Row, Failed, Acknowledged

\* An UPDATE writes a row, and no other.
LEMMA SavedTyped ==
    ASSUME TypeOK, NEW r \in Relays, NEW e \in Events, InBatch(r, e), outbox[e] # None
    PROVE  /\ Saved(r, e) \in [Events -> Row \cup {None}]
           /\ Saved(r, e)[e] \in Row
           /\ Saved(r, e)[e].processed = IF "processed" \in polls[r].dirty
                THEN polls[r].batch[e].processed ELSE outbox[e].processed
           /\ Saved(r, e)[e].retryCount = IF "retryCount" \in polls[r].dirty
                THEN polls[r].batch[e].retryCount ELSE outbox[e].retryCount
           /\ \A f \in Events \ {e} : Saved(r, e)[f] = outbox[f]
  <1> DEFINE x == polls[r].batch[e]
  <1>1. x \in Row /\ outbox[e] \in Row
    BY DEF TypeOK, InBatch, PollState, Batch
  <1>2. [processed |-> IF "processed" \in polls[r].dirty THEN x.processed
                        ELSE outbox[e].processed,
         retryCount |-> IF "retryCount" \in polls[r].dirty THEN x.retryCount
                        ELSE outbox[e].retryCount] \in Row
    BY <1>1 DEF Row
  <1> QED
    BY <1>1, <1>2 DEF Saved, TypeOK

\* A poll that goes on with an entity is a poll.
LEMMA GoOnTyped ==
    ASSUME TypeOK, NEW r \in Relays, NEW e \in Events, InBatch(r, e),
           NEW phase \in Phase, NEW x \in Row, GoOn(r, phase, e, x)
    PROVE  polls' \in [Relays -> PollState \cup {None}]
  BY DEF TypeOK, InBatch, GoOn, PollState, Batch

\* Every step keeps the types: no entity counts more failures than the limit.
LEMMA TypeStep == Inv /\ [Next]_vars => TypeOK'
  <1> SUFFICES ASSUME Inv, [Next]_vars
               PROVE  TypeOK'
    OBVIOUS
  <1> USE DEF Inv
  <1>1. ASSUME NEW e \in Events, InsertEvent(e)
        PROVE  TypeOK'
    <2>1. [processed |-> FALSE, retryCount |-> 0] \in Row
      BY RelayAssumption DEF Row
    <2> QED
      BY <1>1, <2>1 DEF InsertEvent, TypeOK
  <1>2. ASSUME NEW e \in Events, ProcessLate(e)
        PROVE  TypeOK'
    BY <1>2 DEF ProcessLate, TypeOK
  <1>3. ASSUME NEW r \in Relays, HandleOutboxPolling(r)
        PROVE  TypeOK'
    <2>1. [e \in Events |-> IF e \in Oldest(Pending) THEN outbox[e] ELSE None] \in Batch
      BY DEF Batch, TypeOK
    <2>2. [pc |-> "ready",
           batch |-> [e \in Events |-> IF e \in Oldest(Pending) THEN outbox[e] ELSE None],
           dirty |-> {}] \in PollState
      BY <2>1 DEF PollState, Phase
    <2> QED
      BY <1>3, <2>2 DEF HandleOutboxPolling, TypeOK
  <1>4. ASSUME NEW r \in Relays, NEW e \in Events, Send(r, e)
        PROVE  TypeOK'
    BY <1>4 DEF Send, At, InBatch, TypeOK, PollState, Phase
  <1>5. ASSUME NEW r \in Relays, NEW e \in Events, ProcessOutboxEvent(r, e)
        PROVE  TypeOK'
    BY <1>5 DEF ProcessOutboxEvent, At, InBatch, TypeOK, PollState, Phase
  <1>6. ASSUME NEW r \in Relays, NEW e \in Events, Acknowledge(r, e)
        PROVE  TypeOK'
    <2>1. InBatch(r, e) /\ polls[r].batch[e] \in Row /\ polls[r].batch[e].retryCount < MaxRetries
      BY <1>6 DEF Acknowledge, At, InBatch, Sound, TypeOK, PollState, Batch
    <2>2. Acknowledged(polls[r].batch[e]) \in Row
      BY <2>1, FailedTyped
    <2>3. polls' \in [Relays -> PollState \cup {None}]
      BY <1>6, <2>1, <2>2, GoOnTyped DEF Acknowledge, Phase
    <2> QED
      BY <1>6, <2>3 DEF Acknowledge, TypeOK
  <1>7. ASSUME NEW r \in Relays, NEW e \in Events, Fail(r, e)
        PROVE  TypeOK'
    <2>1. InBatch(r, e) /\ polls[r].batch[e] \in Row /\ polls[r].batch[e].retryCount < MaxRetries
      BY <1>7 DEF Fail, At, InBatch, Sound, TypeOK, PollState, Batch
    <2>2. Failed(polls[r].batch[e]) \in Row
      BY <2>1, FailedTyped
    <2>3. polls' \in [Relays -> PollState \cup {None}]
      BY <1>7, <2>1, <2>2, GoOnTyped DEF Fail, Phase
    <2> QED
      BY <1>7, <2>3 DEF Fail, CloseRequest, TypeOK
  <1>8. ASSUME NEW r \in Relays, NEW e \in Events, SelectRow(r, e)
        PROVE  TypeOK'
    <2> DEFINE phase == IF polls[r].pc = "acked" THEN "ackSelected" ELSE "failSelected"
               dirt == {c \in Column : polls[r].batch[e][c] # outbox[e][c]}
    <2>1. polls[r] \in PollState
      BY <1>8 DEF SelectRow, At, InBatch, TypeOK
    <2>2. phase \in Phase /\ dirt \in SUBSET Column
      BY DEF Phase
    <2>3. polls' = [polls EXCEPT ![r].pc = phase, ![r].dirty = dirt]
      BY <1>8 DEF SelectRow
    <2> HIDE DEF phase, dirt
    <2>4. polls' \in [Relays -> PollState \cup {None}]
      BY <2>1, <2>2, <2>3 DEF TypeOK, PollState
    <2> QED
      BY <1>8, <2>4 DEF SelectRow, TypeOK
  <1>9. ASSUME NEW r \in Relays, NEW e \in Events, SaveRow(r, e)
        PROVE  TypeOK'
    <2>1. InBatch(r, e) /\ outbox[e] # None
      BY <1>9 DEF SaveRow, At, Sound
    <2>2. outbox' \in [Events -> Row \cup {None}]
      BY <1>9, <2>1, SavedTyped DEF SaveRow
    <2>3. Rest(r, e) \in PollState \cup {None}
      BY <2>1 DEF Rest, InBatch, TypeOK, PollState, Batch, Phase
    <2> QED
      BY <1>9, <2>2, <2>3 DEF SaveRow, TypeOK
  <1>10. ASSUME NEW r \in Relays, NEW e \in Events, AcknowledgeFails(r, e)
         PROVE  TypeOK'
    <2>1. InBatch(r, e) /\ polls[r].batch[e] \in Row /\ polls[r].batch[e].retryCount < MaxRetries
      BY <1>10 DEF AcknowledgeFails, At, InBatch, Sound, TypeOK, PollState, Batch
    <2>2. Failed(polls[r].batch[e]) \in Row
      BY <2>1, FailedTyped
    <2>3. polls' \in [Relays -> PollState \cup {None}]
      BY <1>10, <2>1, <2>2, GoOnTyped DEF AcknowledgeFails, Phase
    <2>4. outbox' \in [Events -> Row \cup {None}]
      BY <1>10, <2>1, SavedTyped DEF AcknowledgeFails, Sound, TypeOK
    <2> QED
      BY <1>10, <2>3, <2>4 DEF AcknowledgeFails, TypeOK
  <1>11. ASSUME NEW r \in Relays, NEW e \in Events, Stop(r, e)
         PROVE  TypeOK'
    BY <1>11 DEF Stop, CloseRequest, TypeOK
  <1>12. CASE UNCHANGED vars
    BY <1>12 DEF vars, TypeOK
  <1> QED
    BY <1>1, <1>2, <1>3, <1>4, <1>5, <1>6, <1>7, <1>8, <1>9, <1>10, <1>11, <1>12 DEF Next

\* The relay whose step it is, and the rest of the polls.
OnlyPoll(r) == \A s \in Relays \ {r} : polls'[s] = polls[s]

\* Where a poll goes on with its event, it goes on with the others unchanged, and stays at it.
LEMMA GoOnAt ==
    ASSUME TypeOK, NEW r \in Relays, NEW e \in Events, At(r, e, Phase),
           NEW phase \in Phase, NEW x \in Row, GoOn(r, phase, e, x)
    PROVE  /\ OnlyPoll(r)
           /\ polls'[r].pc = phase
           /\ polls'[r].batch[e] = x
           /\ polls'[r].dirty = polls[r].dirty
           /\ \A f \in Events : InBatch(r, f)' <=> InBatch(r, f)
           /\ \A f \in Events \ {e} : polls'[r].batch[f] = polls[r].batch[f]
           /\ \A S : phase \in S => At(r, e, S)'
  <1>1. polls[r] \in PollState
    BY DEF At, InBatch, TypeOK
  <1>2. polls'[r] = [polls[r] EXCEPT !.pc = phase, !.batch[e] = x]
    BY DEF GoOn, TypeOK
  <1>3. polls'[r] # None
    <2> DEFINE rest == [polls[r].batch EXCEPT ![e] = x]
    <2>1. rest \in Batch
      BY <1>1 DEF PollState, Batch
    <2>2. polls'[r] = [polls[r] EXCEPT !.pc = phase, !.batch = rest]
      BY <1>2
    <2> HIDE DEF rest
    <2>3. polls'[r] \in PollState
      BY <1>1, <2>1, <2>2 DEF PollState
    <2> QED
      BY <2>3, NoneAssumption
  <1>4. x # None
    BY NoneAssumption
  <1>5. OnlyPoll(r)
    BY DEF OnlyPoll, GoOn, TypeOK
  <1>6. polls'[r].pc = phase /\ polls'[r].batch[e] = x /\ polls'[r].dirty = polls[r].dirty
    BY <1>1, <1>2 DEF PollState, Batch
  <1>7. \A f \in Events \ {e} : polls'[r].batch[f] = polls[r].batch[f]
    BY <1>1, <1>2 DEF PollState, Batch
  <1>8. \A f \in Events : InBatch(r, f)' <=> InBatch(r, f)
    BY <1>3, <1>4, <1>6, <1>7 DEF InBatch, At
  <1>9. \A S : phase \in S => At(r, e, S)'
    BY <1>6, <1>8 DEF At
  <1> QED
    BY <1>5, <1>6, <1>7, <1>8, <1>9

\* The polls of the other relays are where they were.
LEMMA OthersStay ==
    ASSUME NEW r \in Relays, OnlyPoll(r), NEW s \in Relays, s # r
    PROVE  /\ polls'[s] = polls[s]
           /\ \A f \in Events : InBatch(s, f)' <=> InBatch(s, f)
           /\ \A f \in Events : \A S : At(s, f, S)' <=> At(s, f, S)
  BY DEF OnlyPoll, InBatch, At

\* Steps that move a poll on without touching its entities.
Moved(r, phase) ==
    /\ OnlyPoll(r)
    /\ polls'[r] # None
    /\ polls'[r].batch = polls[r].batch
    /\ polls'[r].pc = phase

\* The poll stays at the event it is at.
LEMMA MovedAt ==
    ASSUME NEW r \in Relays, polls[r] # None, NEW phase, Moved(r, phase)
    PROVE  /\ \A f \in Events : InBatch(r, f)' <=> InBatch(r, f)
           /\ \A f \in Events : \A S, T : At(r, f, S) /\ phase \in T => At(r, f, T)'
  BY DEF Moved, InBatch, At

\* Sending touches no entity.
LEMMA SendMoves ==
    ASSUME TypeOK, NEW r \in Relays, NEW e \in Events, Send(r, e)
    PROVE  Moved(r, "waiting") /\ polls'[r].dirty = polls[r].dirty
  <1>1. polls[r] \in PollState
    BY DEF Send, At, InBatch, TypeOK
  <1>2. polls' = [polls EXCEPT ![r] = [@ EXCEPT !.pc = "waiting"]]
    BY DEF Send
  <1>3. polls'[r] \in PollState
    BY <1>1, <1>2 DEF PollState, Phase, TypeOK
  <1> QED
    BY <1>1, <1>2, <1>3, NoneAssumption DEF Moved, OnlyPoll, PollState, TypeOK

\* Nor does the handling of the request.
LEMMA ProcessMoves ==
    ASSUME TypeOK, NEW r \in Relays, NEW e \in Events, ProcessOutboxEvent(r, e)
    PROVE  Moved(r, "answered") /\ polls'[r].dirty = polls[r].dirty
  <1>1. polls[r] \in PollState
    BY DEF ProcessOutboxEvent, At, InBatch, TypeOK
  <1>2. polls' = [polls EXCEPT ![r] = [@ EXCEPT !.pc = "answered"]]
    BY DEF ProcessOutboxEvent
  <1>3. polls'[r] \in PollState
    BY <1>1, <1>2 DEF PollState, Phase, TypeOK
  <1> QED
    BY <1>1, <1>2, <1>3, NoneAssumption DEF Moved, OnlyPoll, PollState, TypeOK

\* The columns that differ from the row.
Differing(r, e) == {c \in Column : polls[r].batch[e][c] # outbox[e][c]}

\* Nor does the SELECT of a save, which notes the columns that differ.
LEMMA SelectMoves ==
    ASSUME TypeOK, NEW r \in Relays, NEW e \in Events, SelectRow(r, e)
    PROVE  /\ At(r, e, {"acked"}) => Moved(r, "ackSelected")
           /\ At(r, e, {"failed"}) => Moved(r, "failSelected")
           /\ polls'[r].dirty = Differing(r, e)
  <1> DEFINE phase == IF polls[r].pc = "acked" THEN "ackSelected" ELSE "failSelected"
  <1>1. polls[r] \in PollState
    BY DEF SelectRow, At, InBatch, TypeOK
  <1>2. polls' = [polls EXCEPT ![r] = [@ EXCEPT !.pc = phase, !.dirty = Differing(r, e)]]
    BY DEF SelectRow, Differing
  <1>3. phase \in Phase /\ Differing(r, e) \in SUBSET Column
    BY DEF Phase, Differing
  <1>4. /\ At(r, e, {"acked"}) => phase = "ackSelected"
        /\ At(r, e, {"failed"}) => phase = "failSelected"
    BY DEF At
  <1> HIDE DEF phase
  <1>5. polls'[r] \in PollState
    BY <1>1, <1>2, <1>3 DEF PollState, TypeOK
  <1>6. OnlyPoll(r)
    BY <1>2 DEF OnlyPoll, TypeOK
  <1>7. polls'[r].batch = polls[r].batch /\ polls'[r].pc = phase
          /\ polls'[r].dirty = Differing(r, e)
    BY <1>1, <1>2 DEF PollState, TypeOK
  <1> QED
    BY <1>4, <1>5, <1>6, <1>7, NoneAssumption DEF Moved

\* When the loop leaves an event the others of the batch remain, and none is being saved.
LEMMA SaveLeaves ==
    ASSUME TypeOK, NEW r \in Relays, NEW e \in Events, SaveRow(r, e)
    PROVE  /\ OnlyPoll(r)
           /\ ~InBatch(r, e)'
           /\ \A f \in Events : InBatch(r, f)' =>
                /\ InBatch(r, f)
                /\ polls'[r].batch[f] = polls[r].batch[f]
                /\ polls'[r].pc = "ready"
  <1>1. polls[r] \in PollState /\ polls'[r] = Rest(r, e) /\ OnlyPoll(r)
    BY DEF SaveRow, At, InBatch, TypeOK, OnlyPoll
  <1>2. CASE Rest(r, e) = None
    BY <1>1, <1>2 DEF InBatch
  <1>3. CASE Rest(r, e) = [polls[r] EXCEPT !.pc = "ready", !.batch[e] = None]
    <2>1. polls'[r].batch[e] = None /\ polls'[r].pc = "ready"
      BY <1>1, <1>3 DEF PollState, Batch
    <2>2. \A f \in Events \ {e} : polls'[r].batch[f] = polls[r].batch[f]
      BY <1>1, <1>3 DEF PollState, Batch
    <2>3. polls[r] # None
      BY DEF SaveRow, At, InBatch
    <2> QED
      BY <1>1, <2>1, <2>2, <2>3 DEF InBatch
  <1> QED
    BY <1>2, <1>3 DEF Rest

\* A new poll loads unprocessed rows that may be tried.
LEMMA PollLoads ==
    ASSUME TypeOK, NEW r \in Relays, HandleOutboxPolling(r)
    PROVE  /\ OnlyPoll(r)
           /\ polls'[r].pc = "ready"
           /\ \A f \in Events : InBatch(r, f)' =>
                /\ f \in Pending
                /\ polls'[r].batch[f] = outbox[f]
  <1>1. polls'[r] = [pc |-> "ready",
          batch |-> [f \in Events |-> IF f \in Oldest(Pending) THEN outbox[f] ELSE None],
          dirty |-> {}]
    BY DEF HandleOutboxPolling, TypeOK
  <1>2. OnlyPoll(r)
    BY DEF HandleOutboxPolling, OnlyPoll, TypeOK
  <1> QED
    BY <1>1, <1>2 DEF InBatch, Oldest

\* A poll that stops has no entities left.
LEMMA StopLeaves ==
    ASSUME TypeOK, NEW r \in Relays, NEW e \in Events, Stop(r, e)
    PROVE  OnlyPoll(r) /\ \A f \in Events : ~InBatch(r, f)'
  BY DEF Stop, OnlyPoll, InBatch, TypeOK

\* Rows are never deleted and notifications never taken back.
LEMMA Persists ==
    ASSUME Inv, [Next]_vars
    PROVE  /\ \A e \in Events : outbox[e] # None => outbox'[e] # None
           /\ notified \subseteq notified'
  <1> USE DEF Inv
  <1>1. ASSUME NEW e \in Events, InsertEvent(e) \/ ProcessLate(e)
        PROVE  /\ \A f \in Events : outbox[f] # None => outbox'[f] # None
               /\ notified \subseteq notified'
    BY <1>1 DEF InsertEvent, ProcessLate, TypeOK
  <1>2. ASSUME NEW r \in Relays, HandleOutboxPolling(r)
        PROVE  outbox' = outbox /\ notified' = notified
    BY <1>2 DEF HandleOutboxPolling
  <1>3. ASSUME NEW r \in Relays, NEW e \in Events,
               Send(r, e) \/ ProcessOutboxEvent(r, e) \/ Acknowledge(r, e) \/ Fail(r, e)
                 \/ SelectRow(r, e) \/ Stop(r, e)
        PROVE  outbox' = outbox /\ notified \subseteq notified'
    BY <1>3 DEF Send, ProcessOutboxEvent, Acknowledge, Fail, SelectRow, Stop
  <1>4. ASSUME NEW r \in Relays, NEW e \in Events, SaveRow(r, e) \/ AcknowledgeFails(r, e)
        PROVE  /\ \A f \in Events : outbox[f] # None => outbox'[f] # None
               /\ notified \subseteq notified'
    <2>1. InBatch(r, e) /\ outbox[e] # None /\ notified' = notified
      BY <1>4 DEF SaveRow, AcknowledgeFails, At, Sound
    <2>2. outbox' = outbox \/ outbox' = Saved(r, e)
      BY <1>4 DEF SaveRow, AcknowledgeFails
    <2> QED
      BY <2>1, <2>2, SavedTyped, NoneAssumption
  <1>5. CASE UNCHANGED vars
    BY <1>5 DEF vars
  <1> QED
    BY <1>1, <1>2, <1>3, <1>4, <1>5 DEF Next

\* Every step keeps what is known of every loaded entity.
LEMMA SoundStep ==
    ASSUME Inv, [Next]_vars, NEW s \in Relays, NEW f \in Events
    PROVE  Sound(s, f)'
  <1> USE DEF Inv
  <1> DEFINE Quiet == \A e \in Events : outbox[e] # None => outbox'[e] # None
  <1>0. Quiet /\ notified \subseteq notified'
    BY Persists
  <1> HIDE DEF Quiet
  <1>1. CASE polls' = polls
    BY <1>0, <1>1 DEF Quiet, Sound, InBatch, At
  <1>2. ASSUME NEW r \in Relays, OnlyPoll(r), s # r
        PROVE  Sound(s, f)'
    BY <1>0, <1>2, OthersStay DEF Quiet, Sound
  <1>3. CASE HandleOutboxPolling(s)
    <2>1. outbox' = outbox /\ ~At(s, f, {"answered"})'
      BY <1>3, PollLoads DEF HandleOutboxPolling, At
    <2>2. InBatch(s, f)' => f \in Pending /\ polls'[s].batch[f] = outbox[f]
      BY <1>3, PollLoads
    <2> QED
      BY <2>1, <2>2 DEF Pending, Sound
  <1>4. ASSUME NEW e \in Events, Send(s, e)
        PROVE  Sound(s, f)'
    <2>1. Moved(s, "waiting") /\ polls[s] # None /\ ~At(s, f, {"failed", "failSelected"})
      BY <1>4, SendMoves DEF Send, At, InBatch
    <2>2. ~At(s, f, {"answered"})'
      BY <2>1 DEF Moved, At
    <2> QED
      BY <1>0, <2>1, <2>2, MovedAt DEF Quiet, Sound, Moved
  <1>5. ASSUME NEW e \in Events, ProcessOutboxEvent(s, e)
        PROVE  Sound(s, f)'
    <2>1. Moved(s, "answered") /\ polls[s] # None /\ ~At(s, f, {"failed", "failSelected"})
      BY <1>5, ProcessMoves DEF ProcessOutboxEvent, At, InBatch
    <2>2. At(s, f, {"answered"})' => f = e
      BY <1>5, <2>1, MovedAt, RelayAssumption DEF ProcessOutboxEvent, At
    <2>3. e \in notified'
      BY <1>5 DEF ProcessOutboxEvent
    <2> QED
      BY <1>0, <2>1, <2>2, <2>3, MovedAt DEF Quiet, Sound, Moved
  <1>6. ASSUME NEW e \in Events, SelectRow(s, e)
        PROVE  Sound(s, f)'
    <2>1. polls[s] # None /\ At(s, e, {"acked", "failed"})
      BY <1>6 DEF SelectRow, At, InBatch
    <2>2. CASE At(s, e, {"acked"})
      <3>1. Moved(s, "ackSelected") /\ ~At(s, f, {"failed", "failSelected"})
        BY <1>6, <2>2, SelectMoves DEF At
      <3>2. ~At(s, f, {"answered"})'
        BY <3>1 DEF Moved, At
      <3> QED
        BY <1>0, <2>1, <3>1, <3>2, MovedAt DEF Quiet, Sound, Moved
    <2>3. CASE At(s, e, {"failed"})
      <3>1. Moved(s, "failSelected")
        BY <1>6, <2>3, SelectMoves
      <3>2. ~At(s, f, {"answered"})'
        BY <3>1 DEF Moved, At
      <3>3. At(s, f, {"failed", "failSelected"}) => At(s, f, {"failed", "failSelected"})'
        BY <2>1, <3>1, MovedAt
      <3> QED
        BY <1>0, <2>1, <3>1, <3>2, <3>3, MovedAt DEF Quiet, Sound, Moved
    <2> QED
      BY <2>1, <2>2, <2>3 DEF At
  <1>7. ASSUME NEW e \in Events, Acknowledge(s, e)
        PROVE  Sound(s, f)'
    <2> DEFINE x == polls[s].batch[e]
    <2>1. /\ At(s, e, Phase) /\ At(s, e, {"answered"}) /\ InBatch(s, e)
          /\ \A g \in Events : ~At(s, g, {"failed", "failSelected"})
      BY <1>7 DEF Acknowledge, At, Phase
    <2>2. x \in Row /\ x.retryCount < MaxRetries /\ e \in notified
      BY <2>1 DEF Sound, InBatch, TypeOK, PollState, Batch
    <2>3. GoOn(s, "acked", e, Acknowledged(x)) /\ Acknowledged(x) \in Row
            /\ Acknowledged(x).retryCount < MaxRetries
      BY <1>7, <2>2, FailedTyped DEF Acknowledge
    <2> HIDE DEF x
    <2>4. polls'[s].batch[e] = Acknowledged(x) /\ polls'[s].pc = "acked"
      BY <2>1, <2>3, GoOnAt DEF Phase
    <2>5. CASE f = e
      BY <1>0, <2>1, <2>2, <2>3, <2>4, <2>5 DEF Quiet, Sound, At
    <2>6. CASE f # e
      <3>1. polls'[s].batch[f] = polls[s].batch[f] /\ (InBatch(s, f)' => InBatch(s, f))
        BY <2>1, <2>3, <2>6, GoOnAt DEF Phase
      <3> QED
        BY <1>0, <2>1, <2>4, <3>1 DEF Quiet, Sound, At
    <2> QED
      BY <2>5, <2>6
  <1>8. ASSUME NEW e \in Events, Fail(s, e) \/ AcknowledgeFails(s, e)
        PROVE  Sound(s, f)'
    <2> DEFINE x == polls[s].batch[e]
    <2>1. /\ At(s, e, Phase) /\ InBatch(s, e)
          /\ \A g \in Events : ~At(s, g, {"failed", "failSelected"})
      BY <1>8 DEF Fail, AcknowledgeFails, At, Phase
    <2>2. x \in Row /\ x.retryCount < MaxRetries
      BY <2>1 DEF Sound, InBatch, TypeOK, PollState, Batch
    <2>3. GoOn(s, "failed", e, Failed(x)) /\ Failed(x) \in Row /\ Failed(x).processed = x.processed
      BY <1>8, <2>2, FailedTyped DEF Fail, AcknowledgeFails
    <2>4. /\ polls'[s].batch[e] = Failed(x) /\ polls'[s].pc = "failed"
          /\ At(s, e, {"failed", "failSelected"})'
      BY <2>1, <2>3, GoOnAt DEF Phase
    <2>5. x.processed => e \in notified
      BY <2>1 DEF Sound
    <2> HIDE DEF x
    <2>6. CASE f = e
      BY <1>0, <2>1, <2>3, <2>4, <2>5, <2>6 DEF Quiet, Sound, At
    <2>7. CASE f # e
      <3>1. polls'[s].batch[f] = polls[s].batch[f] /\ (InBatch(s, f)' => InBatch(s, f))
        BY <2>1, <2>3, <2>7, GoOnAt DEF Phase
      <3> QED
        BY <1>0, <2>1, <2>4, <3>1 DEF Quiet, Sound, At
    <2> QED
      BY <2>6, <2>7
  <1>9. ASSUME NEW e \in Events, SaveRow(s, e)
        PROVE  Sound(s, f)'
    <2>1. At(s, f, {"failed", "failSelected"}) => f = e
      BY <1>9, OneHead DEF SaveRow
    <2>2. ~At(s, f, {"answered"})'
      BY <1>9, SaveLeaves DEF At
    <2> QED
      BY <1>0, <1>9, <2>1, <2>2, SaveLeaves DEF Quiet, Sound
  <1>10. ASSUME NEW e \in Events, Stop(s, e)
         PROVE  Sound(s, f)'
    BY <1>10, StopLeaves DEF Sound
  <1>11. ASSUME NEW r \in Relays, NEW e \in Events, r # s,
                \/ HandleOutboxPolling(r) \/ Send(r, e) \/ ProcessOutboxEvent(r, e)
                \/ Acknowledge(r, e) \/ Fail(r, e) \/ SelectRow(r, e) \/ SaveRow(r, e)
                \/ AcknowledgeFails(r, e) \/ Stop(r, e)
         PROVE  Sound(s, f)'
    <2>1. OnlyPoll(r)
      BY <1>11 DEF HandleOutboxPolling, Send, ProcessOutboxEvent, Acknowledge, Fail, SelectRow,
                   SaveRow, AcknowledgeFails, Stop, GoOn, OnlyPoll, TypeOK
    <2> QED
      BY <1>2, <1>11, <2>1
  <1>12. ASSUME NEW e \in Events, InsertEvent(e) \/ ProcessLate(e)
         PROVE  Sound(s, f)'
    BY <1>1, <1>12 DEF InsertEvent, ProcessLate
  <1>13. CASE UNCHANGED vars
    BY <1>1, <1>13 DEF vars
  <1> HIDE DEF Inv
  <1>14. ASSUME NEW r \in Relays, HandleOutboxPolling(r)
         PROVE  Sound(s, f)'
    BY <1>3, <1>11, <1>14
  <1>15. ASSUME NEW r \in Relays, NEW e \in Events,
                \/ Send(r, e) \/ ProcessOutboxEvent(r, e) \/ Acknowledge(r, e) \/ Fail(r, e)
                \/ SelectRow(r, e) \/ SaveRow(r, e) \/ AcknowledgeFails(r, e) \/ Stop(r, e)
         PROVE  Sound(s, f)'
    BY <1>4, <1>5, <1>6, <1>7, <1>8, <1>9, <1>10, <1>11, <1>15
  <1> QED
    BY <1>12, <1>13, <1>14, <1>15 DEF Next

\* A row becomes processed only with an acknowledged entity, which was notified.
LEMMA NotifiedStep ==
    ASSUME Inv, [Next]_vars
    PROVE  ProcessedWasNotified'
  <1> USE DEF Inv
  <1>0. notified \subseteq notified'
    BY Persists
  <1>1. ASSUME NEW e \in Events, InsertEvent(e)
        PROVE  ProcessedWasNotified'
    <2>1. outbox'[e] = [processed |-> FALSE, retryCount |-> 0]
            /\ \A f \in Events \ {e} : outbox'[f] = outbox[f]
      BY <1>1 DEF InsertEvent, TypeOK
    <2>2. ~outbox'[e].processed
      BY <2>1
    <2> QED
      BY <1>0, <2>1, <2>2 DEF ProcessedWasNotified
  <1>2. CASE outbox' = outbox
    BY <1>0, <1>2 DEF ProcessedWasNotified
  <1>3. ASSUME NEW r \in Relays, NEW e \in Events, At(r, e, Phase), outbox' = Saved(r, e)
        PROVE  ProcessedWasNotified'
    <2>1. InBatch(r, e) /\ outbox[e] # None /\ (polls[r].batch[e].processed => e \in notified)
      BY <1>3 DEF At, Sound
    <2>2. outbox'[e].processed => polls[r].batch[e].processed \/ outbox[e].processed
      BY <1>3, <2>1, SavedTyped
    <2>3. outbox'[e].processed => e \in notified
      BY <2>1, <2>2 DEF ProcessedWasNotified
    <2>4. \A f \in Events \ {e} : outbox'[f] = outbox[f]
      BY <1>3, <2>1, SavedTyped
    <2> QED
      BY <1>0, <2>3, <2>4 DEF ProcessedWasNotified
  <1>4. ASSUME NEW r \in Relays, NEW e \in Events, SaveRow(r, e) \/ AcknowledgeFails(r, e)
        PROVE  ProcessedWasNotified'
    BY <1>2, <1>3, <1>4 DEF SaveRow, AcknowledgeFails, At, Phase
  <1>5. ASSUME NEW r \in Relays, NEW e \in Events,
               Send(r, e) \/ ProcessOutboxEvent(r, e) \/ Acknowledge(r, e) \/ Fail(r, e)
                 \/ SelectRow(r, e) \/ Stop(r, e)
        PROVE  outbox' = outbox
    BY <1>5 DEF Send, ProcessOutboxEvent, Acknowledge, Fail, SelectRow, Stop
  <1> QED
    BY <1>1, <1>2, <1>4, <1>5 DEF Next, ProcessLate, HandleOutboxPolling, vars

\* The empty outbox satisfies the invariant.
LEMMA InitInv == Init => Inv
  <1> SUFFICES ASSUME Init
               PROVE  Inv
    OBVIOUS
  <1>1. TypeOK
    BY DEF Init, TypeOK
  <1>2. \A r \in Relays, e \in Events : Sound(r, e)
    BY DEF Init, Sound, InBatch
  <1>3. ProcessedWasNotified
    BY DEF Init, ProcessedWasNotified
  <1> QED
    BY <1>1, <1>2, <1>3 DEF Inv

\* The types, what is known of loaded entities, and the notification behind every processed row
\* hold in every reachable state, whatever the relays do.
THEOREM InvariantHolds == Spec => []Inv
  <1>1. Inv /\ [Next]_vars => Inv'
    BY TypeStep, SoundStep, NotifiedStep DEF Inv
  <1> QED
    BY InitInv, <1>1, PTL DEF Spec

\* Type correctness: among others, no row counts more failures than the limit.
THEOREM TypeCorrect == Spec => []TypeOK
  <1>1. Inv => TypeOK
    BY DEF Inv
  <1> QED
    BY InvariantHolds, <1>1, PTL

\* A row says processed only if the notification service has handled its event, for any number
\* of overlapping relays.
THEOREM ProcessedAfterNotification == Spec => []ProcessedWasNotified
  <1>1. Inv => ProcessedWasNotified
    BY DEF Inv
  <1> QED
    BY InvariantHolds, <1>1, PTL

-----------------------------------------------------------------------------
(* A single relay *)

OneRelay == \A r, s \in Relays : r = s

\* What a relay alone on its outbox knows of the rows behind its batch: nobody else changes
\* them.  An acknowledged entity may be saved already, when its commit seemed to fail.
Fresh(r, e) ==
    InBatch(r, e) =>
        /\ ~polls[r].batch[e].processed => EventStatus(e) = "pending"
        /\ polls[r].batch[e].processed =>
             /\ EventStatus(e) \in {"pending", "acknowledged"}
             /\ At(r, e, {"acked", "ackSelected", "failed", "failSelected"})
        /\ At(r, e, {"ackSelected", "failSelected"}) => polls[r].dirty = Differing(r, e)

SoleInv == Inv /\ \A r \in Relays, e \in Events : Fresh(r, e)

\* With nobody else at the row, the save makes it equal to the entity.
LEMMA SaveIsExact ==
    ASSUME Inv, NEW r \in Relays, NEW e \in Events, InBatch(r, e),
           polls[r].dirty = Differing(r, e)
    PROVE  /\ outbox[e] # None
           /\ Saved(r, e)[e] \in Row
           /\ Saved(r, e)[e].processed = polls[r].batch[e].processed
           /\ Saved(r, e)[e].retryCount = polls[r].batch[e].retryCount
           /\ \A f \in Events \ {e} : Saved(r, e)[f] = outbox[f]
  <1>1. TypeOK /\ outbox[e] # None
    BY DEF Inv, Sound
  <1>2. /\ "processed" \notin polls[r].dirty => polls[r].batch[e].processed = outbox[e].processed
        /\ "retryCount" \notin polls[r].dirty
             => polls[r].batch[e].retryCount = outbox[e].retryCount
    BY DEF Differing, Column
  <1> QED
    BY <1>1, <1>2, SavedTyped

\* The status of an event whose row does not change does not change.
LEMMA StatusStays ==
    ASSUME NEW f \in Events, outbox'[f] = outbox[f]
    PROVE  EventStatus(f)' = EventStatus(f)
  BY DEF EventStatus

\* Every step of a lone relay, and every commit of a service, keeps the batch fresh.
LEMMA FreshStep ==
    ASSUME OneRelay, SoleInv, [Next]_vars, NEW r \in Relays, NEW f \in Events
    PROVE  Fresh(r, f)'
  <1>0. Inv /\ TypeOK /\ Fresh(r, f) /\ \A g \in Events : Fresh(r, g) /\ Sound(r, g)
    BY DEF SoleInv, Inv
  <1>1. CASE polls' = polls /\ outbox' = outbox
    BY <1>0, <1>1 DEF Fresh, InBatch, At, EventStatus, Differing
  <1>2. ASSUME NEW e \in Events, InsertEvent(e)
        PROVE  Fresh(r, f)'
    <2>1. polls' = polls /\ outbox[e] = None /\ \A g \in Events \ {e} : outbox'[g] = outbox[g]
      BY <1>0, <1>2 DEF InsertEvent, TypeOK
    <2>2. InBatch(r, f) => outbox'[f] = outbox[f]
      BY <1>0, <2>1 DEF Sound
    <2> QED
      BY <1>0, <2>1, <2>2 DEF Fresh, InBatch, At, EventStatus, Differing
  <1>3. CASE HandleOutboxPolling(r)
    <2>1. outbox' = outbox /\ polls'[r].pc = "ready"
            /\ (InBatch(r, f)' => f \in Pending /\ polls'[r].batch[f] = outbox[f])
      BY <1>0, <1>3, PollLoads DEF HandleOutboxPolling
    <2> QED
      BY <2>1 DEF Pending, Fresh, EventStatus, At
  <1>4. ASSUME NEW e \in Events, NEW phase \in {"waiting", "answered"}, Moved(r, phase),
               outbox' = outbox, At(r, e, {"ready", "waiting"})
        PROVE  Fresh(r, f)'
    <2>1. polls[r] # None
      BY <1>4 DEF At, InBatch
    <2>2. InBatch(r, f)' => InBatch(r, f) /\ ~polls[r].batch[f].processed
      BY <1>0, <1>4, <2>1, MovedAt DEF Fresh, At
    <2>3. polls'[r].batch = polls[r].batch /\ ~At(r, f, {"ackSelected", "failSelected"})'
      BY <1>4 DEF Moved, At
    <2>4. EventStatus(f)' = EventStatus(f)
      BY <1>4, StatusStays
    <2> QED
      BY <1>0, <2>2, <2>3, <2>4 DEF Fresh
  <1>5. ASSUME NEW e \in Events, SelectRow(r, e)
        PROVE  Fresh(r, f)'
    <2>1. polls[r] # None /\ At(r, e, {"acked", "failed"}) /\ outbox' = outbox
      BY <1>5 DEF SelectRow, At, InBatch
    <2>2. PICK phase \in {"ackSelected", "failSelected"} : Moved(r, phase)
      BY <1>0, <1>5, <2>1, SelectMoves DEF At
    <2>3. polls'[r].dirty = Differing(r, e) /\ polls'[r].batch = polls[r].batch
      BY <1>0, <1>5, <2>2, SelectMoves DEF Moved
    <2>4. At(r, f, {"ackSelected", "failSelected"})' => f = e
      BY <2>1, <2>2, MovedAt, RelayAssumption DEF At
    <2>5. Differing(r, e)' = Differing(r, e)
      BY <2>1, <2>3 DEF Differing
    <2>6. EventStatus(f)' = EventStatus(f) /\ (InBatch(r, f)' => InBatch(r, f))
      BY <2>1, <2>2, StatusStays, MovedAt
    <2>7. At(r, f, {"acked", "ackSelected", "failed", "failSelected"}) =>
            At(r, f, {"acked", "ackSelected", "failed", "failSelected"})'
      BY <2>1, <2>2, MovedAt
    <2> QED
      BY <1>0, <2>3, <2>4, <2>5, <2>6, <2>7 DEF Fresh
  <1>6. ASSUME NEW e \in Events, f # e, InBatch(r, f)', InBatch(r, f), At(r, e, Phase),
               polls'[r].batch[f] = polls[r].batch[f], outbox'[f] = outbox[f],
               polls'[r].pc \in {"ready", "acked", "failed"}
        PROVE  Fresh(r, f)'
    <2>1. ~At(r, f, {"acked", "ackSelected", "failed", "failSelected"})
      BY <1>6, OneHead
    <2>2. ~At(r, f, {"ackSelected", "failSelected"})'
      BY <1>6 DEF At
    <2>3. EventStatus(f)' = EventStatus(f)
      BY <1>6, StatusStays
    <2> QED
      BY <1>0, <1>6, <2>1, <2>2, <2>3 DEF Fresh
  <1>7. ASSUME NEW e \in Events, Acknowledge(r, e)
        PROVE  Fresh(r, f)'
    <2> DEFINE x == polls[r].batch[e]
    <2>1. At(r, e, Phase) /\ At(r, e, {"answered"}) /\ InBatch(r, e) /\ outbox' = outbox
      BY <1>7 DEF Acknowledge, At, Phase
    <2>2. /\ x \in Row /\ x.retryCount < MaxRetries
          /\ EventStatus(e) = "pending"
      BY <1>0, <2>1 DEF Sound, Fresh, At, InBatch, TypeOK, PollState, Batch
    <2>3. GoOn(r, "acked", e, Acknowledged(x)) /\ Acknowledged(x) \in Row
            /\ Acknowledged(x).processed
      BY <1>7, <2>2, FailedTyped DEF Acknowledge
    <2> HIDE DEF x
    <2>4. /\ polls'[r].batch[e] = Acknowledged(x) /\ polls'[r].pc = "acked"
          /\ At(r, e, {"acked", "ackSelected", "failed", "failSelected"})'
      BY <1>0, <2>1, <2>3, GoOnAt DEF Phase
    <2>5. CASE f = e
      <3>1. ~At(r, f, {"ackSelected", "failSelected"})'
        BY <2>4 DEF At
      <3>2. EventStatus(f)' = "pending"
        BY <2>1, <2>2, <2>5, StatusStays
      <3> QED
        BY <2>3, <2>4, <2>5, <3>1, <3>2 DEF Fresh
    <2>6. CASE f # e
      <3>1. polls'[r].batch[f] = polls[r].batch[f] /\ (InBatch(r, f)' => InBatch(r, f))
        BY <1>0, <2>1, <2>3, <2>6, GoOnAt DEF Phase
      <3> QED
        BY <1>6, <2>1, <2>4, <2>6, <3>1 DEF Fresh
    <2> QED
      BY <2>5, <2>6
  <1>8. ASSUME NEW e \in Events, Fail(r, e) \/ AcknowledgeFails(r, e)
        PROVE  Fresh(r, f)'
    <2> DEFINE x == polls[r].batch[e]
    <2>1. /\ At(r, e, Phase) /\ InBatch(r, e)
          /\ \A g \in Events : ~At(r, g, {"failed", "failSelected"})
      BY <1>8 DEF Fail, AcknowledgeFails, At, Phase
    <2>2. x \in Row /\ x.retryCount < MaxRetries
      BY <1>0, <2>1 DEF Sound, InBatch, TypeOK, PollState, Batch
    <2>3. GoOn(r, "failed", e, Failed(x)) /\ Failed(x) \in Row /\ Failed(x).processed = x.processed
      BY <1>8, <2>2, FailedTyped DEF Fail, AcknowledgeFails
    <2>4. /\ polls'[r].batch[e] = Failed(x) /\ polls'[r].pc = "failed"
          /\ At(r, e, {"acked", "ackSelected", "failed", "failSelected"})'
      BY <1>0, <2>1, <2>3, GoOnAt DEF Phase
    <2>5. outbox' = outbox \/ (outbox' = Saved(r, e) /\ polls[r].dirty = Differing(r, e))
      BY <1>0, <1>8, <2>1 DEF Fail, AcknowledgeFails, Fresh, At
    <2>6. \A g \in Events \ {e} : outbox'[g] = outbox[g]
      BY <1>0, <2>1, <2>5, SaveIsExact
    <2>7. /\ ~x.processed => EventStatus(e) = "pending"
          /\ x.processed => EventStatus(e) \in {"pending", "acknowledged"}
      BY <1>0, <2>1 DEF Fresh
    <2>8. /\ ~x.processed => EventStatus(e)' = "pending"
          /\ x.processed => EventStatus(e)' \in {"pending", "acknowledged"}
      <3>1. CASE outbox' = outbox
        BY <2>7, <3>1, StatusStays
      <3>2. CASE outbox' = Saved(r, e) /\ polls[r].dirty = Differing(r, e)
        <4>1. /\ outbox'[e] # None /\ outbox'[e].processed = x.processed
              /\ outbox'[e].retryCount = x.retryCount
          BY <1>0, <2>1, <3>2, SaveIsExact, NoneAssumption
        <4> QED
          BY <2>2, <4>1 DEF EventStatus
      <3> QED
        BY <2>5, <3>1, <3>2
    <2> HIDE DEF x
    <2>9. CASE f = e
      <3>1. ~At(r, f, {"ackSelected", "failSelected"})'
        BY <2>4 DEF At
      <3> QED
        BY <2>3, <2>4, <2>8, <2>9, <3>1 DEF Fresh
    <2>10. CASE f # e
      <3>1. polls'[r].batch[f] = polls[r].batch[f] /\ (InBatch(r, f)' => InBatch(r, f))
        BY <1>0, <2>1, <2>3, <2>10, GoOnAt DEF Phase
      <3> QED
        BY <1>6, <2>1, <2>4, <2>6, <2>10, <3>1 DEF Fresh
    <2> QED
      BY <2>9, <2>10
  <1>9. ASSUME NEW e \in Events, SaveRow(r, e)
        PROVE  Fresh(r, f)'
    <2>1. At(r, e, Phase) /\ InBatch(r, e) /\ polls[r].dirty = Differing(r, e)
            /\ outbox' = Saved(r, e)
      BY <1>0, <1>9 DEF SaveRow, At, Phase, Fresh
    <2>2. \A g \in Events \ {e} : outbox'[g] = outbox[g]
      BY <1>0, <2>1, SaveIsExact
    <2>3. InBatch(r, f)' => f # e /\ InBatch(r, f) /\ polls'[r].pc = "ready"
                              /\ polls'[r].batch[f] = polls[r].batch[f]
      BY <1>0, <1>9, SaveLeaves
    <2> QED
      BY <1>6, <2>1, <2>2, <2>3 DEF Fresh
  <1>10. ASSUME NEW e \in Events, Stop(r, e)
         PROVE  Fresh(r, f)'
    BY <1>0, <1>10, StopLeaves DEF Fresh
  <1>11. ASSUME NEW e \in Events,
                \/ Send(r, e) \/ ProcessOutboxEvent(r, e) \/ Acknowledge(r, e) \/ Fail(r, e)
                \/ SelectRow(r, e) \/ SaveRow(r, e) \/ AcknowledgeFails(r, e) \/ Stop(r, e)
         PROVE  Fresh(r, f)'
    <2>1. Send(r, e) => Moved(r, "waiting") /\ outbox' = outbox /\ At(r, e, {"ready", "waiting"})
      BY <1>0, SendMoves DEF Send, At
    <2>2. ProcessOutboxEvent(r, e) =>
            Moved(r, "answered") /\ outbox' = outbox /\ At(r, e, {"ready", "waiting"})
      BY <1>0, ProcessMoves DEF ProcessOutboxEvent, At
    <2> QED
      BY <1>4, <1>5, <1>7, <1>8, <1>9, <1>10, <1>11, <2>1, <2>2
  <1>12. ASSUME NEW e \in Events, ProcessLate(e)
         PROVE  Fresh(r, f)'
    BY <1>1, <1>12 DEF ProcessLate
  <1>13. CASE UNCHANGED vars
    BY <1>1, <1>13 DEF vars
  <1>14. \A s \in Relays : s = r
    BY DEF OneRelay
  <1> QED
    BY <1>2, <1>3, <1>11, <1>12, <1>13, <1>14 DEF Next

Statuses == [e \in Events |-> EventStatus(e)]
Open == late \cup {e \in Events : BeingSent(e)}

\* The requests of a lone relay: the one it waits for, and the late ones.
LEMMA OpenRequests ==
    ASSUME OneRelay, NEW r \in Relays
    PROVE  /\ \A e \in Events : At(r, e, {"waiting"}) => Open = late \cup {e}
           /\ (\A e \in Events : ~At(r, e, {"waiting"})) => Open = late
  <1>1. \A e \in Events : BeingSent(e) <=> At(r, e, {"waiting"})
    BY DEF OneRelay, BeingSent
  <1>2. \A e, f \in Events : At(r, e, {"waiting"}) /\ At(r, f, {"waiting"}) => e = f
    BY OneHead
  <1> QED
    BY <1>1, <1>2 DEF Open

\* If the rows do not change, the statuses do not.
LEMMA StatusesStay ==
    ASSUME outbox' = outbox
    PROVE  Statuses' = Statuses
  BY DEF Statuses, EventStatus

\* A save settles its event, or leaves its status alone.
LEMMA SaveSettles ==
    ASSUME SoleInv, NEW r \in Relays, NEW e \in Events,
           At(r, e, {"ackSelected", "failSelected"}), outbox' = Saved(r, e)
    PROVE  \/ Statuses' = Statuses
           \/ /\ Statuses[e] = "pending"
              /\ \E t \in {"acknowledged", "abandoned"} :
                   /\ t = "acknowledged" => e \in notified
                   /\ Statuses' = [Statuses EXCEPT ![e] = t]
  <1> DEFINE x == polls[r].batch[e]
  <1>1. /\ Inv /\ InBatch(r, e) /\ polls[r].dirty = Differing(r, e)
        /\ ~x.processed => EventStatus(e) = "pending"
        /\ x.processed => EventStatus(e) \in {"pending", "acknowledged"} /\ e \in notified
    BY DEF SoleInv, Inv, Fresh, Sound, At
  <1>2. /\ outbox'[e] # None /\ outbox'[e].processed = x.processed
        /\ \A f \in Events \ {e} : outbox'[f] = outbox[f]
    BY <1>1, SaveIsExact, NoneAssumption
  <1>3. \A f \in Events \ {e} : Statuses'[f] = Statuses[f]
    BY <1>2, StatusStays DEF Statuses
  <1>4. /\ Statuses[e] = EventStatus(e)
        /\ x.processed => Statuses'[e] = "acknowledged"
        /\ ~x.processed => Statuses'[e] \in {"pending", "abandoned"}
    BY <1>2 DEF Statuses, EventStatus
  <1> HIDE DEF x
  <1>5. Statuses' = [f \in Events |-> Statuses'[f]] /\ Statuses = [f \in Events |-> Statuses[f]]
    BY DEF Statuses
  <1>6. Statuses' = [Statuses EXCEPT ![e] = Statuses'[e]]
    BY <1>3, <1>5
  <1>7. CASE Statuses'[e] = Statuses[e]
    BY <1>3, <1>5, <1>7
  <1>8. CASE Statuses'[e] # Statuses[e]
    BY <1>1, <1>4, <1>6, <1>8
  <1> QED
    BY <1>7, <1>8

\* Every step maps to a step of the delivery or to a stutter.
LEMMA StepIsDelivery ==
    ASSUME OneRelay, SoleInv, [Next]_vars
    PROVE  [Delivery!DeliveryNext]_(Delivery!deliveryVars)
  <1>0. Inv /\ TypeOK
    BY DEF SoleInv, Inv
  <1> DEFINE Stutter == Statuses' = Statuses /\ Open' = Open /\ notified' = notified
  <1>1. SUFFICES \/ Stutter
                 \/ \E e \in Events : \/ Delivery!Write(e) \/ Delivery!Request(e)
                                      \/ Delivery!Handle(e) \/ Delivery!Lose(e)
                                      \/ Delivery!Settle(e)
    BY DEF Delivery!DeliveryNext, Delivery!deliveryVars, Statuses, Open
  <1>2. ASSUME NEW e \in Events, InsertEvent(e)
        PROVE  Delivery!Write(e)
    <2>1. outbox[e] = None /\ polls' = polls /\ late' = late /\ notified' = notified
      BY <1>2 DEF InsertEvent
    <2>2. outbox'[e] = [processed |-> FALSE, retryCount |-> 0]
            /\ \A f \in Events \ {e} : outbox'[f] = outbox[f]
      BY <1>0, <1>2 DEF InsertEvent, TypeOK
    <2>3. outbox'[e] \in Row /\ ~outbox'[e].processed /\ outbox'[e].retryCount < MaxRetries
      BY <2>2, RelayAssumption DEF Row
    <2>4. EventStatus(e) = "unwritten" /\ EventStatus(e)' = "pending"
      BY <2>1, <2>3, NoneAssumption DEF EventStatus
    <2>5. \A f \in Events \ {e} : EventStatus(f)' = EventStatus(f)
      BY <2>2, StatusStays
    <2>6. Statuses[e] = "unwritten" /\ Statuses' = [Statuses EXCEPT ![e] = "pending"]
      BY <2>4, <2>5 DEF Statuses
    <2>7. Open' = Open
      BY <2>1 DEF Open, BeingSent, At, InBatch
    <2> QED
      BY <2>1, <2>6, <2>7 DEF Delivery!Write, Statuses, Open
  <1>3. ASSUME NEW e \in Events, ProcessLate(e)
        PROVE  Delivery!Handle(e)
    <2>1. e \in late /\ late' = late \ {e} /\ notified' = notified \cup {e}
            /\ polls' = polls /\ outbox' = outbox
      BY <1>3 DEF ProcessLate
    <2>2. \A f \in Events : BeingSent(f)' <=> BeingSent(f)
      BY <2>1 DEF BeingSent, At, InBatch
    <2>3. e \in Open /\ Open' \in {Open, Open \ {e}}
      BY <2>1, <2>2 DEF Open
    <2> QED
      BY <2>1, <2>3, StatusesStay DEF Delivery!Handle, Statuses, Open
  <1>4. ASSUME NEW r \in Relays, late' = late, notified' = notified,
               \A f \in Events : ~At(r, f, {"waiting"}) /\ ~At(r, f, {"waiting"})'
        PROVE  Open' = Open /\ Open = late
    <2>1. Open = late
      BY <1>4, OpenRequests
    <2>2. \A f \in Events : ~BeingSent(f)'
      BY <1>4 DEF OneRelay, BeingSent
    <2> QED
      BY <1>4, <2>1, <2>2 DEF Open
  <1>5. ASSUME NEW r \in Relays, HandleOutboxPolling(r)
        PROVE  Stutter
    <2>1. \A f \in Events : ~At(r, f, {"waiting"}) /\ ~At(r, f, {"waiting"})'
      BY <1>0, <1>5, PollLoads DEF HandleOutboxPolling, At, InBatch
    <2> QED
      BY <1>4, <1>5, <2>1, StatusesStay DEF HandleOutboxPolling
  <1>6. ASSUME NEW r \in Relays, NEW e \in Events, Send(r, e)
        PROVE  Delivery!Request(e)
    <2>1. /\ polls[r] # None /\ At(r, e, {"ready"}) /\ Moved(r, "waiting")
          /\ outbox' = outbox /\ late' = late /\ notified' = notified
      BY <1>0, <1>6, SendMoves DEF Send, At, InBatch
    <2>2. EventStatus(e) = "pending"
      BY <2>1 DEF SoleInv, Fresh, At
    <2>3. Open = late
      BY <2>1, OpenRequests DEF At
    <2>4. At(r, e, {"waiting"})'
      BY <2>1, MovedAt
    <2>5. \A f \in Events : BeingSent(f)' <=> f = e
      BY <2>4, RelayAssumption DEF OneRelay, BeingSent, At
    <2>6. Open' = Open \cup {e}
      BY <2>1, <2>3, <2>5 DEF Open
    <2>7. Statuses[e] = "pending" /\ Statuses' = Statuses
      BY <2>1, <2>2, StatusesStay DEF Statuses
    <2> QED
      BY <2>1, <2>6, <2>7 DEF Delivery!Request, Statuses, Open
  <1>7. ASSUME NEW r \in Relays, NEW e \in Events, ProcessOutboxEvent(r, e)
        PROVE  Delivery!Handle(e)
    <2>1. /\ At(r, e, {"waiting"}) /\ Moved(r, "answered")
          /\ outbox' = outbox /\ late' = late /\ notified' = notified \cup {e}
      BY <1>0, <1>7, ProcessMoves DEF ProcessOutboxEvent
    <2>2. Open = late \cup {e}
      BY <2>1, OpenRequests
    <2>3. \A f \in Events : ~BeingSent(f)'
      BY <2>1 DEF OneRelay, BeingSent, At, Moved
    <2>4. Open' = late
      BY <2>1, <2>3 DEF Open
    <2>5. e \in Open /\ Open' \in {Open, Open \ {e}}
      BY <2>2, <2>4
    <2> QED
      BY <2>1, <2>5, StatusesStay DEF Delivery!Handle, Statuses, Open
  <1>8. ASSUME NEW r \in Relays, NEW e \in Events, At(r, e, Phase), CloseRequest(e, polls[r].pc),
               outbox' = outbox, notified' = notified,
               \A f \in Events : ~At(r, f, {"waiting"})'
        PROVE  Stutter \/ Delivery!Lose(e)
    <2>1. Statuses' = Statuses
      BY <1>8, StatusesStay
    <2>2. \A f \in Events : ~BeingSent(f)'
      BY <1>8 DEF OneRelay, BeingSent
    <2>3. Open' = late'
      BY <2>2 DEF Open
    <2>4. CASE polls[r].pc = "waiting"
      <3>1. Open = late \cup {e}
        BY <1>8, <2>4, OpenRequests DEF At
      <3>2. late' = late \/ late' = late \cup {e}
        BY <1>8, <2>4 DEF CloseRequest
      <3>3. Open' = Open \/ Open' = Open \ {e}
        BY <2>3, <3>1, <3>2
      <3> QED
        BY <1>8, <2>1, <3>3 DEF Delivery!Lose, Statuses, Open
    <2>5. CASE polls[r].pc # "waiting"
      <3>1. Open = late
        BY <2>5, OpenRequests DEF At
      <3>2. late' = late
        BY <1>8, <2>5 DEF CloseRequest
      <3> QED
        BY <1>8, <2>1, <2>3, <3>1, <3>2
    <2> QED
      BY <2>4, <2>5
  <1>9. ASSUME NEW r \in Relays, NEW e \in Events, Fail(r, e)
        PROVE  Stutter \/ Delivery!Lose(e)
    <2> DEFINE x == polls[r].batch[e]
    <2>1. At(r, e, Phase) /\ polls'[r].pc = "failed"
      <3>1. At(r, e, Phase) /\ ~At(r, e, {"failed", "failSelected"})
        BY <1>9 DEF Fail, At, Phase
      <3>2. x \in Row /\ x.retryCount < MaxRetries
        BY <1>0, <3>1 DEF Inv, Sound, At, InBatch, TypeOK, PollState, Batch
      <3>3. Failed(x) \in Row /\ GoOn(r, "failed", e, Failed(x))
        BY <1>9, <3>2, FailedTyped DEF Fail
      <3> HIDE DEF x
      <3> QED
        BY <1>0, <3>1, <3>3, GoOnAt DEF Phase
    <2>2. \A f \in Events : ~At(r, f, {"waiting"})'
      BY <2>1 DEF At
    <2> QED
      BY <1>8, <1>9, <2>1, <2>2 DEF Fail
  <1>10. ASSUME NEW r \in Relays, NEW e \in Events, Stop(r, e)
         PROVE  Stutter \/ Delivery!Lose(e)
    <2>1. \A f \in Events : ~At(r, f, {"waiting"})'
      BY <1>0, <1>10, StopLeaves DEF At
    <2> QED
      BY <1>8, <1>10, <2>1 DEF Stop
  <1>11. ASSUME NEW r \in Relays, NEW e \in Events, Acknowledge(r, e)
         PROVE  Stutter
    <2> DEFINE x == polls[r].batch[e]
    <2>1. At(r, e, {"answered"}) /\ At(r, e, Phase)
      BY <1>11 DEF Acknowledge, At, Phase
    <2>2. x \in Row /\ x.retryCount < MaxRetries
      BY <1>0, <2>1 DEF Inv, Sound, At, InBatch, TypeOK, PollState, Batch
    <2>3. Acknowledged(x) \in Row /\ GoOn(r, "acked", e, Acknowledged(x))
      BY <1>11, <2>2, FailedTyped DEF Acknowledge
    <2> HIDE DEF x
    <2>4. polls'[r].pc = "acked"
      BY <1>0, <2>1, <2>3, GoOnAt DEF Phase
    <2>5. \A f \in Events : ~At(r, f, {"waiting"}) /\ ~At(r, f, {"waiting"})'
      BY <2>1, <2>4 DEF At
    <2> QED
      BY <1>4, <1>11, <2>5, StatusesStay DEF Acknowledge
  <1>12. ASSUME NEW r \in Relays, NEW e \in Events, SelectRow(r, e)
         PROVE  Stutter
    <2>1. At(r, e, {"acked", "failed"})
      BY <1>12 DEF SelectRow
    <2>2. polls'[r].pc \in {"ackSelected", "failSelected"}
      BY <1>0, <1>12, <2>1, SelectMoves DEF At, Moved
    <2>3. \A f \in Events : ~At(r, f, {"waiting"}) /\ ~At(r, f, {"waiting"})'
      BY <2>1, <2>2 DEF At
    <2> QED
      BY <1>4, <1>12, <2>3, StatusesStay DEF SelectRow
  <1>13. ASSUME NEW r \in Relays, NEW e \in Events,
                At(r, e, {"acked", "ackSelected", "failSelected"}),
                \/ outbox' = outbox
                \/ At(r, e, {"ackSelected", "failSelected"}) /\ outbox' = Saved(r, e),
                late' = late, notified' = notified,
                \A f \in Events : ~At(r, f, {"waiting"})'
         PROVE  Stutter \/ Delivery!Settle(e)
    <2>1. Open' = Open
      BY <1>4, <1>13 DEF At
    <2>2. CASE outbox' = outbox
      BY <1>13, <2>1, <2>2, StatusesStay
    <2>3. CASE At(r, e, {"ackSelected", "failSelected"}) /\ outbox' = Saved(r, e)
      BY <1>13, <2>1, <2>3, SaveSettles DEF Delivery!Settle, Delivery!Settled, Statuses, Open
    <2> QED
      BY <1>13, <2>2, <2>3
  <1>14. ASSUME NEW r \in Relays, NEW e \in Events, SaveRow(r, e)
         PROVE  Stutter \/ Delivery!Settle(e)
    <2>1. \A f \in Events : ~At(r, f, {"waiting"})'
      BY <1>0, <1>14, SaveLeaves DEF At
    <2> QED
      BY <1>13, <1>14, <2>1 DEF SaveRow, At
  <1>15. ASSUME NEW r \in Relays, NEW e \in Events, AcknowledgeFails(r, e)
         PROVE  Stutter \/ Delivery!Settle(e)
    <2> DEFINE x == polls[r].batch[e]
    <2>1. At(r, e, {"acked", "ackSelected"}) /\ At(r, e, Phase)
            /\ ~At(r, e, {"failed", "failSelected"})
      BY <1>15 DEF AcknowledgeFails, At, Phase
    <2>2. x \in Row /\ x.retryCount < MaxRetries
      BY <1>0, <2>1 DEF Inv, Sound, At, InBatch, TypeOK, PollState, Batch
    <2>3. Failed(x) \in Row /\ GoOn(r, "failed", e, Failed(x))
      BY <1>15, <2>2, FailedTyped DEF AcknowledgeFails
    <2> HIDE DEF x
    <2>4. polls'[r].pc = "failed"
      BY <1>0, <2>1, <2>3, GoOnAt DEF Phase
    <2>5. \A f \in Events : ~At(r, f, {"waiting"})'
      BY <2>4 DEF At
    <2> QED
      BY <1>13, <1>15, <2>1, <2>5 DEF AcknowledgeFails, At
  <1>16. ASSUME UNCHANGED vars
         PROVE  Stutter
    BY <1>16 DEF vars, Statuses, Open, EventStatus, BeingSent, At, InBatch
  <1> HIDE DEF Stutter
  <1> QED
    BY <1>2, <1>3, <1>5, <1>6, <1>7, <1>9, <1>10, <1>11, <1>12, <1>14, <1>15, <1>16 DEF Next

\* One relay, whatever is lost, fails or crashes, implements EventDelivery: a settled event stays
\* settled and is not sent again, and only what was notified is acknowledged.
THEOREM RelayImplementsDelivery ==
    ASSUME OneRelay
    PROVE  Spec => ImplementsDelivery
  <1>1. Init => Delivery!DeliveryInit
    BY DEF Init, Delivery!DeliveryInit, EventStatus, BeingSent, At, InBatch
  <1>2. Init => SoleInv
    BY InitInv DEF SoleInv, Init, Fresh, InBatch
  <1>3. SoleInv /\ [Next]_vars => SoleInv'
    BY TypeStep, SoundStep, NotifiedStep, FreshStep DEF SoleInv, Inv
  <1>4. SoleInv /\ [Next]_vars => [Delivery!DeliveryNext]_(Delivery!deliveryVars)
    BY StepIsDelivery
  <1> QED
    BY <1>1, <1>2, <1>3, <1>4, PTL DEF Spec, ImplementsDelivery, Delivery!DeliverySpec

=============================================================================
